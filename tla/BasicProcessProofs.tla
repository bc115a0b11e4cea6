-------------------------- MODULE BasicProcessProofs --------------------------
(***************************************************************************)
(* Safety of BasicProcess, for any number of objects and waits and every   *)
(* handle.  The types need no assumption.  The rest holds also on a kernel *)
(* that hands out the pid of a reaped child again, as long as the callers  *)
(* make only the calls that look at exit_status_ first (AskingOnly).       *)
(***************************************************************************)
EXTENDS BasicProcess, ChildTableProofs

-------------------------------------------------------------------------------
(***************************************************************************)
(* TypeOK needs to know that a forked child has a pid.                     *)
(***************************************************************************)
TypeInv == TypeOK /\ \A o \in Procs : pc[o] = "fork" => pid[o] \in Pids

LEMMA StatusOfTyped ==
  ASSUME TypeOK, NEW p, WithPid(p) # {}
  PROVE  StatusOf(p) \in Known
<1>1. (CHOOSE o \in WithPid(p) : TRUE) \in Procs
  BY DEF WithPid
<1> QED
  BY <1>1 DEF TypeOK, KernelTypeOK, StatusOf, Known

LEMMA TypeInit == Init => TypeInv
<1> SUFFICES ASSUME Init PROVE TypeInv
  OBVIOUS
<1>1. still_active \in Known
  BY DEF Known
<1>2. code \in [Waits -> {evaluate_exit_code(s) : s \in Known}]
  BY <1>1 DEF Init
<1>3. KernelTypeOK
  BY DEF Init, KernelInit, KernelTypeOK
<1>4. obj \in [Procs -> {"absent", "open", "detached", "destroyed"}]
  BY DEF Init
<1>5. undelivered \in [Procs -> 0..MaxUndelivered]
  BY BasicProcessAssumption DEF Init
<1>6. exit_status \in [Procs -> Known]
  BY <1>1 DEF Init
<1>7. hpid \in [Procs -> Pids \cup {-1}] /\ wpid \in [Waits -> Pids \cup {-1}]
  BY DEF Init
<1> QED
  BY <1>2, <1>3, <1>4, <1>5, <1>6, <1>7 DEF Init, TypeInv, TypeOK, ProcTypeOK, OpTypeOK

-------------------------------------------------------------------------------
LEMMA StepKernel == TypeOK /\ [Next]_vars => KernelNext
<1> SUFFICES ASSUME TypeOK, [Next]_vars PROVE KernelNext
  OBVIOUS
<1> USE DEF TypeOK, KernelTypeOK, ProcTypeOK, OpTypeOK
<1>1. sigchld \in BOOLEAN /\ Caught \in BOOLEAN
  BY DEF Caught
<1>2. /\ \A o \in Procs : hpid[o] \in Int
      /\ \A w \in Waits : wpid[w] \in Int
  <2>1. Pids \cup {-1} \subseteq Int
    BY ChildAssumption
  <2>2. hpid \in [Procs -> Pids \cup {-1}] /\ wpid \in [Waits -> Pids \cup {-1}]
    OBVIOUS
  <2> HIDE DEF TypeOK, KernelTypeOK, ProcTypeOK, OpTypeOK
  <2>3. /\ \A o \in Procs : hpid[o] \in Pids \cup {-1}
        /\ \A w \in Waits : wpid[w] \in Pids \cup {-1}
    BY <2>2
  <2> QED
    BY <2>1, <2>3
<1>3. UNCHANGED kernelVars => KernelNext
  BY <1>1 DEF kernelVars, KernelNext, KernelEvent
<1>4. \A p \in Int : Reap(p) => KernelNext
  BY DEF KernelNext, KernelEvent
<1>5. \A p \in Int, s \in Signals : Kill(p, s, Caught) => KernelNext
  BY <1>1 DEF KernelNext, KernelEvent
<1>6. ASSUME NEW o \in Procs, LaunchFork(o) PROVE KernelNext
  BY <1>6 DEF LaunchFork, KernelNext, KernelEvent
<1>7. ASSUME NEW o \in Procs, NEW s \in Signals, NEW l, Signal(o, s, l) PROVE KernelNext
  BY <1>2, <1>5, <1>7 DEF Signal
<1>8. ASSUME NEW o \in Procs,
             Terminate(o) \/ Interrupt(o) \/ RequestExit(o) \/ Suspend(o) \/ Resume(o)
      PROVE  KernelNext
  <2>1. {SIGKILL, SIGINT, SIGTERM, SIGSTOP, SIGCONT} \subseteq Signals
    BY DEF Signals, FatalSignals
  <2> QED
    BY <1>7, <1>8, <2>1 DEF Terminate, Interrupt, RequestExit, Suspend, Resume
<1>9. ASSUME NEW o \in Procs, Running(o) \/ Wait(o) \/ WaitReturns(o) PROVE KernelNext
  BY <1>2, <1>3, <1>4, <1>9 DEF Running, Wait, WaitReturns, Poll, StoreStatus
<1>10. ASSUME NEW o \in Procs, Destroy(o) \/ DestroyKill(o) \/ DestroyReap(o) PROVE KernelNext
  BY <1>2, <1>3, <1>4, <1>5, <1>10 DEF Destroy, DestroyKill, DestroyReap, Signals, FatalSignals
<1>11. ASSUME NEW o \in Procs, Construct(o) \/ Detach(o) PROVE KernelNext
  BY <1>3, <1>11 DEF Construct, Detach
<1>12. ASSUME NEW o \in Procs, Child(o) PROVE KernelNext
  BY <1>1, <1>12 DEF Child, KernelNext, KernelEvent
<1>13. ASSUME NEW w \in Waits, NEW p \in Int, NEW e, PollBody(w, p, e) PROVE KernelNext
  BY <1>3, <1>4, <1>13 DEF PollBody, NothingToPoll, Keep, StoreStatus
<1>14. ASSUME NEW w \in Waits, AsyncWait(w) PROVE KernelNext
  BY <1>2, <1>3, <1>13, <1>14, BasicProcessAssumption DEF AsyncWait, StartInSignalSet, Keep
<1>15. ASSUME NEW w \in Waits, WaitedFor(w) PROVE KernelNext
  BY <1>2, <1>3, <1>4, <1>15 DEF WaitedFor, StoreStatus, Keep
<1>16. ASSUME NEW w \in Waits, Handler(w) \/ UnblockHandler(w) PROVE KernelNext
  BY <1>2, <1>3, <1>13, <1>15, <1>16
  DEF Handler, UnblockHandler, TrustDescriptor, NothingToPoll, Keep
<1>17. ASSUME NEW w \in Waits, Arm(w) \/ CancelWait(w) \/ DescriptorReady(w) PROVE KernelNext
  BY <1>3, <1>17 DEF Arm, CancelWait, DescriptorReady
<1>18. CatchSigchld \/ DeliverSigchld => KernelNext
  BY <1>3 DEF CatchSigchld, DeliverSigchld, KernelNext, KernelEvent
<1> QED
  BY <1>3, <1>6, <1>8, <1>9, <1>10, <1>11, <1>12, <1>14, <1>16, <1>17, <1>18 DEF Next, vars

-------------------------------------------------------------------------------
(***************************************************************************)
(* Type correctness of the objects and of the operations.                  *)
(***************************************************************************)
Errors == {"ok", "ECHILD", "EBADF", "ECANCELED"}

LEMMA FinishTyped ==
  ASSUME TypeOK, NEW w \in Waits, NEW e \in Errors, NEW s \in Known, Finish(w, e, s)
  PROVE  OpTypeOK'
<1> DEFINE Codes == {evaluate_exit_code(t) : t \in Known}
<1>1. evaluate_exit_code(s) \in Codes
  OBVIOUS
<1> HIDE DEF Codes
<1>2. code \in [Waits -> Codes]
  BY DEF TypeOK, OpTypeOK, Codes
<1>3. code' \in [Waits -> Codes]
  BY <1>1, <1>2 DEF Finish, Completes
<1>4. err' \in [Waits -> Errors] /\ UNCHANGED <<wpid, cancelled>>
  BY DEF TypeOK, OpTypeOK, Finish, Completes, Errors
<1>5. phase' \in [Waits -> {"none", "ready", "arming", "armed", "blocking", "done"}]
  BY DEF TypeOK, OpTypeOK, Finish, Completes
<1> QED
  BY <1>3, <1>4, <1>5 DEF TypeOK, OpTypeOK, Codes, Errors

LEMMA QueueTyped ==
  ASSUME TypeOK, NEW S, NEW e \in Errors, Queue(S, e)
  PROVE  OpTypeOK'
BY DEF TypeOK, OpTypeOK, Queue, Errors

LEMMA WaitsAgainTyped ==
  ASSUME TypeOK, NEW w \in Waits, NEW p \in Pids \cup {-1}, WaitsAgain(w, p)
  PROVE  OpTypeOK'
BY DEF TypeOK, OpTypeOK, WaitsAgain

LEMMA SameOps ==
  ASSUME TypeOK, UNCHANGED opVars
  PROVE  OpTypeOK'
BY DEF TypeOK, OpTypeOK, opVars

LEMMA SameProcs ==
  ASSUME TypeOK, UNCHANGED procVars
  PROVE  ProcTypeOK'
BY DEF TypeOK, ProcTypeOK, procVars

LEMMA StrayBoolean ==
  ASSUME TypeOK, NEW o, NEW p
  PROVE  Strays(o, p) \in BOOLEAN
BY DEF TypeOK, ProcTypeOK, Strays

\* What polls and waits do to the status an object keeps.
LEMMA StoreTyped ==
  ASSUME TypeOK, NEW o \in Procs, NEW p, ChildZombie(p), StoreStatus(o, p)
  PROVE  exit_status' \in [Procs -> Known] /\ strayed' \in BOOLEAN /\ StatusOf(p) \in Known
<1>1. WithPid(p) # {}
  BY DEF ChildZombie
<1>2. StatusOf(p) \in Known
  BY <1>1, StatusOfTyped
<1> QED
  BY <1>2, StrayBoolean DEF StoreStatus, TypeOK, ProcTypeOK

LEMMA KeepTyped ==
  ASSUME TypeOK, Keep
  PROVE  exit_status' \in [Procs -> Known] /\ strayed' \in BOOLEAN
BY DEF TypeOK, ProcTypeOK, Keep

LEMMA PollBodyTyped ==
  ASSUME TypeOK, NEW w \in Waits, NEW p \in Pids \cup {-1}, NEW e \in Errors, PollBody(w, p, e)
  PROVE  OpTypeOK' /\ exit_status' \in [Procs -> Known] /\ strayed' \in BOOLEAN
<1> DEFINE o == WaitOn[w]
<1>1. o \in Procs
  BY BasicProcessAssumption
<1>2. exit_status[o] \in Known
  BY <1>1 DEF TypeOK, ProcTypeOK
<1>3. CASE Finish(w, "EBADF", exit_status[o]) /\ Keep
  BY <1>2, <1>3, FinishTyped, KeepTyped DEF Errors
<1>4. CASE NothingToPoll(w, e)
  BY <1>2, <1>4, FinishTyped, KeepTyped DEF NothingToPoll
<1>5. CASE Finish(w, "ECHILD", exit_status[o]) /\ Keep
  BY <1>2, <1>5, FinishTyped, KeepTyped DEF Errors
<1>6. CASE ChildZombie(p) /\ StoreStatus(o, p) /\ Finish(w, e, StatusOf(p))
  BY <1>1, <1>6, FinishTyped, StoreTyped
<1>7. CASE StillAlive(w, p, e) /\ Keep
  BY <1>2, <1>7, FinishTyped, WaitsAgainTyped, KeepTyped DEF StillAlive
<1> QED
  BY <1>3, <1>4, <1>5, <1>6, <1>7 DEF PollBody

LEMMA WaitedForTyped ==
  ASSUME TypeOK, NEW w \in Waits, WaitedFor(w)
  PROVE  OpTypeOK' /\ exit_status' \in [Procs -> Known] /\ strayed' \in BOOLEAN
<1>1. WaitOn[w] \in Procs
  BY BasicProcessAssumption
<1>2. exit_status[WaitOn[w]] \in Known
  BY <1>1 DEF TypeOK, ProcTypeOK
<1> QED
  BY <1>1, <1>2, FinishTyped, StoreTyped, KeepTyped DEF WaitedFor, Errors

LEMMA GoneTyped ==
  ASSUME TypeOK, NEW o \in Procs, Gone(o), strayed' \in BOOLEAN
  PROVE  ProcTypeOK' /\ undelivered' \in [Procs -> 0..MaxUndelivered]
<1>1. still_active \in Known /\ 0 \in 0..MaxUndelivered
  BY BasicProcessAssumption DEF Known
<1> QED
  BY <1>1 DEF Gone, Answers, TypeOK, ProcTypeOK

\* ProcTypeOK' for a step that changes exit_status and strayed only.
LEMMA StatusTyped ==
  ASSUME TypeOK, UNCHANGED <<obj, hpid, pc, ec>>,
         exit_status' \in [Procs -> Known], strayed' \in BOOLEAN
  PROVE  ProcTypeOK'
BY DEF TypeOK, ProcTypeOK

LEMMA CallTyped ==
  ASSUME TypeOK, NEW o \in Procs,
         \/ LaunchFork(o) \/ Construct(o) \/ Running(o) \/ Wait(o) \/ WaitReturns(o)
         \/ Terminate(o) \/ Interrupt(o) \/ RequestExit(o) \/ Suspend(o) \/ Resume(o)
         \/ Child(o),
         TypeInv
  PROVE  ProcTypeOK' /\ UNCHANGED waitVars
<1>1. CASE LaunchFork(o)
  BY <1>1 DEF LaunchFork, TypeOK, ProcTypeOK
<1>2. CASE Construct(o)
  <2>1. pid[o] \in Pids
    BY <1>2 DEF Construct, TypeInv
  <2> QED
    BY <1>2, <2>1 DEF Construct, TypeOK, ProcTypeOK
<1>3. ASSUME NEW l \in {"idle", "wait"}, Poll(o, l) PROVE ProcTypeOK' /\ UNCHANGED waitVars
  <2>1. 0 \in Known
    BY DEF Known
  <2>2. exit_status' \in [Procs -> Known] /\ strayed' \in BOOLEAN
    BY <1>3, <2>1, StoreTyped DEF Poll, TypeOK, ProcTypeOK
  <2> QED
    BY <1>3, <2>2 DEF Poll, Answers, TypeOK, ProcTypeOK
<1>4. CASE WaitReturns(o)
  <2>1. exit_status' \in [Procs -> Known] /\ strayed' \in BOOLEAN
    BY <1>4, StoreTyped DEF WaitReturns, TypeOK, ProcTypeOK
  <2> QED
    BY <1>4, <2>1 DEF WaitReturns, Answers, TypeOK, ProcTypeOK
<1>5. ASSUME NEW s, NEW l \in {"idle", "wait"}, Signal(o, s, l)
      PROVE  ProcTypeOK' /\ UNCHANGED waitVars
  BY <1>5, StrayBoolean DEF Signal, TypeOK, ProcTypeOK
<1>6. CASE Child(o)
  BY <1>6, SameProcs DEF Child
<1> QED
  BY <1>1, <1>2, <1>3, <1>4, <1>5, <1>6
  DEF Running, Wait, Terminate, Interrupt, RequestExit, Suspend, Resume

RestTypeOK == ProcTypeOK /\ OpTypeOK /\ undelivered \in [Procs -> 0..MaxUndelivered] /\ sigpipe \in BOOLEAN

LEMMA DestroyTyped ==
  ASSUME TypeOK, NEW o \in Procs, Destroy(o) \/ DestroyKill(o) \/ DestroyReap(o) \/ Detach(o)
  PROVE  RestTypeOK'
<1>1. CASE Destroy(o)
  <2>1. OpTypeOK' /\ sigpipe' \in BOOLEAN
    BY <1>1, SameOps DEF Destroy, TypeOK
  <2>2. CASE ChildAlive(hpid[o])
    BY <1>1, <2>1, <2>2 DEF Destroy, RestTypeOK, TypeOK, ProcTypeOK
  <2>3. CASE ~ChildAlive(hpid[o])
    BY <1>1, <2>1, <2>3, GoneTyped, StrayBoolean DEF Destroy, RestTypeOK
  <2> QED
    BY <2>2, <2>3
<1>2. CASE DestroyKill(o)
  <2>1. OpTypeOK'
    BY <1>2, SameOps DEF DestroyKill, waitVars
  <2> QED
    BY <1>2, <2>1, StrayBoolean DEF DestroyKill, waitVars, RestTypeOK, TypeOK, ProcTypeOK
<1>3. CASE DestroyReap(o)
  BY <1>3, GoneTyped, SameOps, StrayBoolean DEF DestroyReap, RestTypeOK, TypeOK
<1>4. CASE Detach(o)
  <2>1. OpTypeOK'
    BY <1>4, QueueTyped, SameOps DEF Detach, Errors
  <2>2. undelivered' \in [Procs -> 0..MaxUndelivered]
    <3>1. 0 \in 0..MaxUndelivered
      BY BasicProcessAssumption
    <3> QED
      BY <1>4, <3>1 DEF Detach, TypeOK
  <2> QED
    BY <1>4, <2>1, <2>2 DEF Detach, RestTypeOK, TypeOK, ProcTypeOK
<1> QED
  BY <1>1, <1>2, <1>3, <1>4

LEMMA TakeTyped ==
  ASSUME TypeOK, NEW o \in Procs,
         undelivered' = [undelivered EXCEPT ![o] = IF @ > 0 THEN @ - 1 ELSE 0]
  PROVE  undelivered' \in [Procs -> 0..MaxUndelivered]
<1>1. undelivered[o] \in 0..MaxUndelivered /\ MaxUndelivered \in Nat
  BY BasicProcessAssumption DEF TypeOK
<1>2. (IF undelivered[o] > 0 THEN undelivered[o] - 1 ELSE 0) \in 0..MaxUndelivered
  BY <1>1
<1> QED
  BY <1>2 DEF TypeOK

LEMMA AsyncWaitTyped ==
  ASSUME TypeOK, NEW w \in Waits, AsyncWait(w)
  PROVE  RestTypeOK'
<1> DEFINE o == WaitOn[w]
<1>1. o \in Procs
  BY BasicProcessAssumption
<1>2. exit_status[o] \in Known /\ hpid[o] \in Pids \cup {-1}
  BY <1>1 DEF TypeOK, ProcTypeOK
<1>3. sigpipe' \in BOOLEAN /\ UNCHANGED <<obj, hpid, pc, ec>>
  BY DEF AsyncWait, TypeOK
<1>4. CASE Finish(w, "ok", exit_status[o]) /\ UNCHANGED undelivered /\ Keep
  BY <1>2, <1>3, <1>4, FinishTyped, KeepTyped, StatusTyped DEF RestTypeOK, TypeOK, Errors
<1>5. CASE StartInSignalSet(w)
  <2>1. OpTypeOK'
    BY <1>2, <1>5 DEF StartInSignalSet, TypeOK, OpTypeOK
  <2>2. undelivered' \in [Procs -> 0..MaxUndelivered]
    BY <1>1, <1>5, TakeTyped DEF StartInSignalSet
  <2> QED
    BY <1>3, <1>5, <2>1, <2>2, KeepTyped, StatusTyped DEF StartInSignalSet, RestTypeOK
<1>6. CASE PollBody(w, hpid[o], "ok") /\ UNCHANGED undelivered
  BY <1>2, <1>3, <1>6, PollBodyTyped, StatusTyped DEF RestTypeOK, TypeOK, Errors
<1> QED
  BY <1>4, <1>5, <1>6 DEF AsyncWait

LEMMA HandlerTyped ==
  ASSUME TypeOK, NEW w \in Waits, Handler(w) \/ UnblockHandler(w)
  PROVE  RestTypeOK'
<1>1. WaitOn[w] \in Procs
  BY BasicProcessAssumption
<1>2. /\ exit_status[WaitOn[w]] \in Known /\ wpid[w] \in Pids \cup {-1}
      /\ err[w] \in Errors /\ OwnError(w) \in Errors
  BY <1>1 DEF TypeOK, ProcTypeOK, OpTypeOK, Errors, OwnError
<1>3. /\ sigpipe' \in BOOLEAN /\ undelivered' \in [Procs -> 0..MaxUndelivered]
      /\ UNCHANGED <<obj, hpid, pc, ec>>
  BY DEF Handler, UnblockHandler, TypeOK
<1>4. OpTypeOK' /\ exit_status' \in [Procs -> Known] /\ strayed' \in BOOLEAN
  <2>1. CASE NothingToPoll(w, err[w])
    BY <1>2, <2>1, FinishTyped, KeepTyped DEF NothingToPoll
  <2>2. CASE WaitedFor(w)
    BY <2>2, WaitedForTyped
  <2>3. CASE /\ phase' = [phase EXCEPT ![w] = "blocking"]
             /\ UNCHANGED <<wpid, err, cancelled, code>> /\ Keep
    BY <2>3, KeepTyped DEF TypeOK, OpTypeOK
  <2>4. CASE PollBody(w, wpid[w], OwnError(w))
    BY <1>2, <2>4, PollBodyTyped
  <2> QED
    BY <2>1, <2>2, <2>3, <2>4 DEF Handler, UnblockHandler, TrustDescriptor
<1> QED
  BY <1>3, <1>4, StatusTyped DEF RestTypeOK

LEMMA WaitTyped ==
  ASSUME TypeOK, NEW w \in Waits, Arm(w) \/ CancelWait(w) \/ DescriptorReady(w)
  PROVE  RestTypeOK'
<1>1. ProcTypeOK' /\ sigpipe' \in BOOLEAN
  BY SameProcs DEF Arm, CancelWait, DescriptorReady, TypeOK
<1>2. CASE Arm(w)
  <2>1. WaitOn[w] \in Procs
    BY BasicProcessAssumption
  <2>2. OpTypeOK'
    BY <1>2, QueueTyped DEF Arm, Errors, TypeOK, OpTypeOK
  <2>3. undelivered' \in [Procs -> 0..MaxUndelivered]
    BY <1>2, <2>1, TakeTyped DEF Arm, TypeOK
  <2> QED
    BY <1>1, <2>2, <2>3 DEF RestTypeOK
<1>3. CASE CancelWait(w)
  BY <1>1, <1>3 DEF CancelWait, RestTypeOK, TypeOK, OpTypeOK
<1>4. CASE DescriptorReady(w)
  BY <1>1, <1>4, QueueTyped DEF DescriptorReady, RestTypeOK, Errors, TypeOK
<1> QED
  BY <1>2, <1>3, <1>4

LEMMA SigchldTyped ==
  ASSUME TypeOK, CatchSigchld \/ DeliverSigchld
  PROVE  RestTypeOK'
<1>1. CASE CatchSigchld
  <2>1. OpTypeOK' /\ sigpipe' \in BOOLEAN
    BY <1>1, SameOps DEF CatchSigchld
  <2>2. CASE UNCHANGED <<procVars, undelivered>>
    BY <2>1, <2>2, SameProcs DEF RestTypeOK, TypeOK
  <2>3. ASSUME NEW o \in Procs, Gone(o), UNCHANGED strayed
        PROVE  RestTypeOK'
    BY <2>1, <2>3, GoneTyped DEF RestTypeOK, TypeOK, ProcTypeOK
  <2> QED
    BY <1>1, <2>2, <2>3 DEF CatchSigchld
<1>2. CASE DeliverSigchld
  <2>1. ProcTypeOK' /\ OpTypeOK' /\ sigpipe' \in BOOLEAN
    BY <1>2, SameProcs, QueueTyped DEF DeliverSigchld, Errors
  <2>2. \A o \in Procs : undelivered[o] \in 0..MaxUndelivered
    BY DEF TypeOK
  <2>3. \A n \in 0..MaxUndelivered : n < MaxUndelivered => n + 1 \in 0..MaxUndelivered
    BY BasicProcessAssumption
  <2>4. undelivered' \in [Procs -> 0..MaxUndelivered]
    BY <1>2, <2>2, <2>3 DEF DeliverSigchld
  <2> QED
    BY <2>1, <2>4 DEF RestTypeOK
<1> QED
  BY <1>1, <1>2

\* Only a fork leads to the state between fork and the constructor.
LEMMA NewFork ==
  ASSUME TypeOK, [Next]_vars, NEW o \in Procs, pc'[o] = "fork"
  PROVE  pc[o] = "fork" \/ LaunchFork(o)
<1> DEFINE Moves(q, l) == pc' = [pc EXCEPT ![q] = l]
<1>1. pc \in [Procs -> {"idle", "fork", "wait", "kill", "reap"}]
  BY DEF TypeOK, ProcTypeOK
<1>2. ASSUME NEW q \in Procs, NEW l \in {"idle", "wait", "kill", "reap"}, Moves(q, l)
      PROVE  pc[o] = "fork"
  BY <1>1, <1>2
<1>3. UNCHANGED pc => pc[o] = "fork"
  OBVIOUS
<1> HIDE DEF Moves
<1>4. ASSUME NEW q \in Procs, LaunchFork(q) PROVE pc[o] = "fork" \/ LaunchFork(o)
  BY <1>1, <1>4 DEF LaunchFork
<1>5. ASSUME NEW q \in Procs,
             \/ Construct(q) \/ Running(q) \/ Wait(q) \/ WaitReturns(q)
             \/ Terminate(q) \/ Interrupt(q) \/ RequestExit(q) \/ Suspend(q) \/ Resume(q)
             \/ Child(q)
      PROVE  pc[o] = "fork"
  <2>1. UNCHANGED pc \/ \E l \in {"idle", "wait"} : Moves(q, l)
    BY <1>5 DEF Construct, Running, Wait, WaitReturns, Poll, Terminate, Interrupt,
       RequestExit, Suspend, Resume, Signal, Child, procVars, Moves
  <2> QED
    BY <1>2, <1>3, <2>1
<1>6. ASSUME NEW q \in Procs, Destroy(q) \/ DestroyKill(q) \/ DestroyReap(q) \/ Detach(q)
      PROVE  pc[o] = "fork"
  <2>1. UNCHANGED pc \/ \E l \in {"idle", "kill", "reap"} : Moves(q, l)
    BY <1>6 DEF Destroy, DestroyKill, DestroyReap, Detach, Gone, Moves
  <2> QED
    BY <1>2, <1>3, <2>1
<1>7. ASSUME NEW w \in Waits, \/ AsyncWait(w) \/ Arm(w) \/ Handler(w) \/ UnblockHandler(w)
                              \/ CancelWait(w) \/ DescriptorReady(w)
      PROVE  pc[o] = "fork"
  BY <1>3, <1>7 DEF AsyncWait, Arm, Handler, UnblockHandler, CancelWait, DescriptorReady, procVars
<1>8. CatchSigchld \/ DeliverSigchld => pc[o] = "fork"
  BY <1>2, <1>3 DEF CatchSigchld, DeliverSigchld, Gone, Moves, procVars
<1> QED
  BY <1>3, <1>4, <1>5, <1>6, <1>7, <1>8 DEF Next, vars, procVars

LEMMA TypeStep == TypeInv /\ [Next]_vars => TypeInv'
<1> SUFFICES ASSUME TypeInv, [Next]_vars PROVE TypeInv'
  OBVIOUS
<1>1. TypeOK
  BY DEF TypeInv
<1>2. KernelTypeOK'
  BY <1>1, StepKernel, KernelTyped DEF TypeOK
<1>3. RestTypeOK => /\ ProcTypeOK /\ OpTypeOK
                    /\ undelivered \in [Procs -> 0..MaxUndelivered] /\ sigpipe \in BOOLEAN
  BY DEF RestTypeOK
<1>4. RestTypeOK
  BY <1>1 DEF TypeOK, RestTypeOK
<1>5. ASSUME UNCHANGED vars PROVE RestTypeOK'
  BY <1>1, <1>4, <1>5, SameProcs, SameOps DEF vars, waitVars, RestTypeOK
<1>6. ASSUME ProcTypeOK' /\ UNCHANGED waitVars PROVE RestTypeOK'
  BY <1>1, <1>4, <1>6, SameOps DEF waitVars, RestTypeOK
<1>7. RestTypeOK'
  BY <1>1, <1>5, <1>6, CallTyped, DestroyTyped, AsyncWaitTyped, HandlerTyped, WaitTyped,
     SigchldTyped DEF Next
<1>8. TypeOK'
  BY <1>2, <1>7 DEF RestTypeOK, TypeOK
<1>9. ASSUME NEW o \in Procs, pc'[o] = "fork" PROVE pid'[o] \in Pids
  <2>1. CASE LaunchFork(o)
    BY <1>1, <2>1 DEF LaunchFork, Fork, TypeOK, KernelTypeOK
  <2>2. CASE pc[o] = "fork"
    <3>1. pid[o] \in Pids
      BY <2>2 DEF TypeInv
    <3>2. pid' = pid \/ \E q \in Procs, p \in Pids : pid' = [pid EXCEPT ![q] = p]
      BY <1>1, StepKernel
      DEF KernelNext, KernelEvent, Reap, Kill, Fork, ChildExit, DieOfSignal, IgnoreSignal, Terminates
    <3> QED
      BY <1>1, <3>1, <3>2 DEF TypeOK, KernelTypeOK
  <2> QED
    BY <1>1, <1>9, <2>1, <2>2, NewFork
<1> QED
  BY <1>8, <1>9 DEF TypeInv

(***************************************************************************)
(* Every variable keeps its type: no call and no handler stores an exit    *)
(* status that is not one, or an exit code that is not evaluated from one, *)
(* and no count of kept signals leaves its bounds.                         *)
(***************************************************************************)
THEOREM TypeCorrect == Spec => []TypeOK
<1>1. TypeInv => TypeOK
  BY DEF TypeInv
<1> QED
  BY <1>1, TypeInit, TypeStep, PTL DEF Spec

-------------------------------------------------------------------------------
(***************************************************************************)
(* The callers, and the inductive invariant.                               *)
(***************************************************************************)
\* Where pids are reused nobody signals or destroys: kill(2) and the waitpid of
\* the destructor take the pid of a reaped child for the object's own.
Asking     == {"running", "wait", "detach", "cancel"}
AskingOnly == PidReuse => Calls \subseteq Asking

\* What object o holds of its child, by the state of the object.
Ownership(o) ==
  /\ obj[o] = "absent" => hpid[o] = -1 /\ pc[o] \in {"idle", "fork"} /\ ~Final(o)
  /\ obj[o] = "absent" /\ pc[o] = "idle" => st[o] = "unborn"
  /\ pc[o] = "fork" => obj[o] = "absent" /\ HoldsPid(o)
  /\ obj[o] = "open" => hpid[o] = pid[o] /\ st[o] # "unborn"
  /\ obj[o] \in {"detached", "destroyed"} => hpid[o] = -1 /\ pc[o] = "idle" /\ st[o] # "unborn"
  /\ pc[o] \in {"wait", "kill", "reap"} => st[o] # "reaped"
  /\ Exists(o) /\ ~Final(o) => st[o] # "reaped"
  /\ obj[o] = "open" /\ Final(o) => exit_status[o] = status[o] /\ st[o] = "reaped"
  /\ ec[o] # "ECHILD"

\* What operation w holds, by how far it is.
Operation(w) ==
  LET o == WaitOn[w]
  IN  /\ obj[o] = "absent" => phase[w] = "none"
      /\ Pending(w) => /\ Exists(o) /\ pc[o] \notin {"kill", "reap"}
                       /\ wpid[w] \in {-1, pid[o]}
                       /\ Variant = "fd" => wpid[w] = pid[o]
      /\ phase[w] = "blocking" => wpid[w] = pid[o] /\ ~Final(o) /\ pc[o] = "idle"
      /\ err[w] # "ECHILD"
      /\ phase[w] = "done" /\ err[w] = "ok" /\ obj[o] = "open" =>
           st[o] = "reaped" /\ code[w] = evaluate_exit_code(status[o])

OneBlocks ==
  \A v, w \in Waits :
    phase[v] = "blocking" /\ phase[w] = "blocking" /\ WaitOn[v] = WaitOn[w] => v = w

IInv ==
  /\ TypeOK /\ KernelSane
  /\ HeldPidsDiffer /\ (~PidReuse => PidsDistinct)
  /\ ~strayed
  /\ \A o \in Procs : Ownership(o)
  /\ \A w \in Waits : Operation(w)
  /\ OneBlocks

-------------------------------------------------------------------------------
(***************************************************************************)
(* The pid of an object names no child but the object's own: until that    *)
(* child is reaped, and where pids are not reused for good.                *)
(***************************************************************************)
LEMMA TypedKernel == TypeOK => KernelTypeOK
BY DEF TypeOK

LEMMA OwnChild ==
  ASSUME TypeOK, KernelSane, NEW o \in Procs, st[o] # "unborn", NEW p \in {-1, pid[o]},
         PidsDistinct \/ (HeldPidsDiffer /\ (p = pid[o] => st[o] # "reaped"))
  PROVE  /\ Strays(o, p) = strayed
         /\ ChildZombie(p) <=> p = pid[o] /\ st[o] = "zombie"
         /\ ChildAlive(p) <=> p = pid[o] /\ st[o] \in Living
         /\ ChildGone(p) <=> p = -1 \/ st[o] = "reaped"
<1>1. WithPid(p) \subseteq {o}
  BY OwnPid, TypedKernel
<1>2. Strays(o, p) = strayed
  BY <1>1 DEF Strays, TypeOK, ProcTypeOK
<1> QED
  BY <1>2, OwnAnswer, TypedKernel

-------------------------------------------------------------------------------
(***************************************************************************)
(* What a step leaves alone keeps its part of the invariant.               *)
(***************************************************************************)
KernelMoves == Shifted \/ \E o \in Procs : Collected(o) \/ Ended(o) \/ Born(o)

Rest ==
  /\ ~strayed
  /\ \A o \in Procs : Ownership(o)
  /\ \A w \in Waits : Operation(w)
  /\ OneBlocks

SameObj(o) ==
  /\ obj'[o] = obj[o] /\ hpid'[o] = hpid[o] /\ exit_status'[o] = exit_status[o]
  /\ pc'[o] = pc[o] /\ ec'[o] = ec[o]

\* Operation w is where it was, or goes on without completing or blocking.
Moved(w) ==
  /\ wpid'[w] = wpid[w] /\ code'[w] = code[w]
  /\ \/ phase'[w] = phase[w] /\ err'[w] = err[w]
     \/ /\ phase[w] \in {"ready", "arming", "armed"} /\ phase'[w] \in {"ready", "armed"}
        /\ err'[w] # "ECHILD"

LEMMA NoKernelStep ==
  ASSUME TypeOK, UNCHANGED <<st, pid, status>>
  PROVE  Shifted
BY DEF TypeOK, KernelTypeOK, Shifted

LEMMA OwnershipFrame ==
  ASSUME NEW o \in Procs, Ownership(o), SameObj(o), SameLife(o)
  PROVE  Ownership(o)'
BY DEF Ownership, SameObj, SameLife, HoldsPid, Living, Final, Exists

LEMMA OperationFrame ==
  ASSUME NEW w \in Waits, NEW o \in Procs, o = WaitOn[w], Operation(w), Moved(w),
         obj'[o] = obj[o], pid'[o] = pid[o],
         st[o] = "reaped" => st'[o] = "reaped" /\ status'[o] = status[o],
         \/ pc'[o] = pc[o] /\ exit_status'[o] = exit_status[o]
         \/ pc'[o] \in {"idle", "wait"} /\ phase'[w] # "blocking"
         \/ ~Pending(w) /\ phase'[w] = phase[w]
  PROVE  Operation(w)'
BY DEF Operation, Moved, Pending, Exists, Final

\* An operation that has not begun, or is over on an object that is no longer open.
LEMMA OperationOver ==
  ASSUME NEW w \in Waits, Operation(w), ~Pending(w),
         phase'[w] = phase[w], err'[w] = err[w],
         phase[w] = "none" \/ obj'[WaitOn[w]] \in {"detached", "destroyed"}
  PROVE  Operation(w)'
BY DEF Operation, Pending

\* A step of object o, of one of its children or of one of its operations.
LEMMA StepFrame ==
  ASSUME TypeOK, Rest, NEW o \in Procs,
         \A q \in Procs \ {o} : SameObj(q) /\ SameLife(q),
         \A w \in Waits \ WaitsOf(o) : Moved(w),
         ~strayed', Ownership(o)',
         \A w \in WaitsOf(o) : Operation(w)' /\ (phase'[w] = "blocking" => phase[w] = "blocking")
  PROVE  Rest'
<1>1. \A q \in Procs : Ownership(q)'
  BY OwnershipFrame DEF Rest
<1>2. ASSUME NEW w \in Waits PROVE Operation(w)'
  <2>1. CASE w \in WaitsOf(o)
    BY <2>1
  <2>2. CASE w \notin WaitsOf(o)
    <3>1. WaitOn[w] \in Procs \ {o}
      BY <2>2, BasicProcessAssumption DEF WaitsOf
    <3>2. /\ SameObj(WaitOn[w]) /\ SameLife(WaitOn[w]) /\ Moved(w)
          /\ Operation(w)
      BY <2>2, <3>1 DEF Rest
    <3> QED
      BY <3>1, <3>2, OperationFrame DEF SameObj, SameLife, Living
  <2> QED
    BY <2>1, <2>2
<1>3. \A w \in Waits : phase'[w] = "blocking" => phase[w] = "blocking"
  BY DEF Moved
<1>4. OneBlocks'
  BY <1>3 DEF OneBlocks, Rest
<1> QED
  BY <1>1, <1>2, <1>4 DEF Rest

LEMMA UsableWaits ==
  ASSUME NEW o \in Procs, Usable(o)
  PROVE  /\ Exists(o) /\ pc[o] = "idle"
         /\ \A w \in WaitsOf(o) : phase[w] \notin {"arming", "blocking"}
BY DEF Usable, Busy, Pending, Suspended

LEMMA OwnHandle ==
  ASSUME IInv, NEW o \in Procs, Exists(o)
  PROVE  /\ st[o] # "unborn" /\ hpid[o] \in {-1, pid[o]} /\ pid[o] > 0
         /\ hpid[o] = -1 \/ obj[o] = "open"
         /\ obj[o] = "open" => hpid[o] = pid[o]
<1>1. /\ st[o] # "unborn" /\ hpid[o] \in {-1, pid[o]}
      /\ hpid[o] = -1 \/ obj[o] = "open"
      /\ obj[o] = "open" => hpid[o] = pid[o]
  BY DEF IInv, Ownership, Exists
<1>2. pid[o] > 0
  BY <1>1, Lives, TypedKernel DEF IInv, KernelSane
<1> QED
  BY <1>1, <1>2

LEMMA SameOpsMove == UNCHANGED opVars => \A w \in Waits : Moved(w)
BY DEF opVars, Moved

-------------------------------------------------------------------------------
(***************************************************************************)
(* Calls.                                                                  *)
(***************************************************************************)
LEMMA PollStep ==
  ASSUME IInv, NEW o \in Procs, Usable(o), NEW l \in {"idle", "wait"}, Poll(o, l)
  PROVE  KernelMoves /\ Rest'
<1>1. /\ Exists(o) /\ pc[o] = "idle"
      /\ \A w \in WaitsOf(o) : phase[w] # "blocking"
  BY UsableWaits
<1>2. /\ st[o] # "unborn" /\ hpid[o] \in {-1, pid[o]} /\ pid[o] > 0
      /\ hpid[o] = -1 \/ obj[o] = "open"
      /\ obj[o] = "open" => hpid[o] = pid[o]
  BY <1>1, OwnHandle
<1>3. ~Final(o) /\ st[o] # "reaped"
  BY <1>1 DEF Poll, Unknown, Final, IInv, Ownership
<1>4. /\ Strays(o, hpid[o]) = strayed
      /\ ChildZombie(hpid[o]) <=> hpid[o] = pid[o] /\ st[o] = "zombie"
      /\ ChildAlive(hpid[o]) <=> hpid[o] = pid[o] /\ st[o] \in Living
      /\ ChildGone(hpid[o]) <=> hpid[o] = -1 \/ st[o] = "reaped"
  BY <1>2, <1>3, OwnChild DEF IInv
<1>5. /\ UNCHANGED <<obj, hpid>> /\ UNCHANGED opVars
      /\ \A w \in Waits : Moved(w)
  BY SameOpsMove DEF Poll, waitVars
<1>6. /\ TypeOK /\ Rest /\ Ownership(o)
      /\ exit_status \in [Procs -> Known] /\ ec \in [Procs -> {"ok", "ECHILD"}]
      /\ pc \in [Procs -> {"idle", "fork", "wait", "kill", "reap"}]
  BY DEF IInv, Rest, TypeOK, ProcTypeOK
<1>7. ASSUME ~strayed', Ownership(o)', \A q \in Procs \ {o} : SameObj(q) /\ SameLife(q),
             st[o] = "reaped" => st'[o] = "reaped" /\ status'[o] = status[o],
             pid' = pid, pc'[o] \in {"idle", "wait"}
      PROVE  Rest'
  <2>1. ASSUME NEW w \in WaitsOf(o) PROVE Operation(w)'
    BY <1>1, <1>5, <1>6, <1>7, OperationFrame DEF WaitsOf, Rest, opVars
  <2> QED
    BY <1>5, <1>6, <1>7, <2>1, StepFrame DEF opVars
<1>8. CASE /\ hpid[o] <= 0
           /\ exit_status' = [exit_status EXCEPT ![o] = 0]
           /\ Answers(o, "ok")
           /\ UNCHANGED <<pc, strayed, kernelVars>>
  <2>1. Shifted
    BY <1>6, <1>8, NoKernelStep DEF kernelVars
  <2>2. \A q \in Procs \ {o} : SameObj(q) /\ SameLife(q)
    BY <1>5, <1>6, <1>8 DEF Answers, SameObj, SameLife, kernelVars
  <2>3. obj[o] # "open"
    <3>1. pid[o] \in Nat
      BY <1>6, Lives, TypedKernel
    <3> QED
      BY <1>2, <1>8, <3>1
  <2>4. Ownership(o)'
    BY <1>1, <1>2, <1>3, <1>5, <1>6, <1>8, <2>3
    DEF Answers, Ownership, Exists, Final, HoldsPid, kernelVars
  <2> QED
    BY <1>1, <1>6, <1>7, <1>8, <2>1, <2>2, <2>4 DEF KernelMoves, Rest, kernelVars
<1>9. CASE /\ ChildZombie(hpid[o])
           /\ StoreStatus(o, hpid[o])
           /\ Answers(o, "ok")
           /\ UNCHANGED pc
  <2>1. Collected(o) /\ StatusOf(hpid[o]) = status[o]
    <3>1. ~ChildAlive(hpid[o])
      BY <1>4, <1>9 DEF Living
    <3> QED
      BY <1>2, <1>3, <1>9, <3>1, OwnReap, TypedKernel DEF IInv, StoreStatus
  <2>2. \A q \in Procs \ {o} : SameObj(q) /\ SameLife(q)
    <3>1. \A q \in Procs \ {o} : SameLife(q)
      BY <1>6, <2>1, LifeFrame, TypedKernel
    <3> QED
      BY <1>5, <1>6, <1>9, <3>1 DEF Answers, SameObj, StoreStatus
  <2>3. /\ exit_status'[o] = status[o] /\ ec'[o] = "ok" /\ pc'[o] = "idle"
        /\ strayed' = strayed /\ status'[o] = status[o] /\ pid' = pid
        /\ st'[o] = "reaped" /\ st[o] = "zombie"
    BY <1>1, <1>4, <1>6, <1>9, <2>1 DEF Answers, StoreStatus, Collected, TypeOK, KernelTypeOK
  <2>4. ~process_is_running(status[o])
    BY <2>3, FinalStatusIsFinal DEF IInv, KernelSane, Terminated
  <2>5. Ownership(o)'
    BY <1>1, <1>2, <1>4, <1>5, <1>9, <2>3, <2>4 DEF Ownership, Exists, Final
  <2> QED
    BY <1>6, <1>7, <2>1, <2>2, <2>3, <2>5 DEF KernelMoves, Rest
<1>10. CASE /\ ChildAlive(hpid[o])
            /\ pc' = [pc EXCEPT ![o] = l]
            /\ Answers(o, "ok")
            /\ UNCHANGED <<exit_status, strayed, kernelVars>>
  <2>1. Shifted
    BY <1>6, <1>10, NoKernelStep DEF kernelVars
  <2>2. \A q \in Procs \ {o} : SameObj(q) /\ SameLife(q)
    BY <1>5, <1>6, <1>10 DEF Answers, SameObj, SameLife, kernelVars
  <2>3. obj[o] = "open"
    BY <1>2, <1>4, <1>10
  <2>4. Ownership(o)'
    BY <1>1, <1>2, <1>3, <1>5, <1>6, <1>10, <2>3
    DEF Answers, Ownership, Exists, Final, HoldsPid, kernelVars
  <2> QED
    BY <1>1, <1>6, <1>7, <1>10, <2>1, <2>2, <2>4 DEF KernelMoves, Rest, kernelVars
<1> QED
  BY <1>2, <1>3, <1>4, <1>8, <1>9, <1>10 DEF Poll

LEMMA WaitReturnsStep ==
  ASSUME IInv, NEW o \in Procs, WaitReturns(o)
  PROVE  KernelMoves /\ Rest'
<1>1. /\ TypeOK /\ Rest /\ Ownership(o)
      /\ exit_status \in [Procs -> Known] /\ ec \in [Procs -> {"ok", "ECHILD"}]
      /\ obj \in [Procs -> {"absent", "open", "detached", "destroyed"}]
      /\ pc \in [Procs -> {"idle", "fork", "wait", "kill", "reap"}]
  BY DEF IInv, Rest, TypeOK, ProcTypeOK
<1>2. /\ pc[o] = "wait" /\ obj[o] = "open" /\ hpid[o] = pid[o]
      /\ st[o] # "unborn" /\ st[o] # "reaped" /\ ~ChildAlive(hpid[o])
  BY <1>1 DEF WaitReturns, Ownership
<1>3. /\ Strays(o, hpid[o]) = strayed
      /\ ChildZombie(hpid[o]) <=> st[o] = "zombie"
      /\ ChildAlive(hpid[o]) <=> st[o] \in Living
  BY <1>2, OwnChild DEF IInv
<1>4. ChildZombie(hpid[o])
  BY <1>1, <1>2, <1>3, Lives, TypedKernel DEF Living
<1>5. /\ Collected(o) /\ StatusOf(hpid[o]) = status[o]
      /\ StoreStatus(o, hpid[o]) /\ Answers(o, "ok")
  BY <1>2, <1>4, OwnReap, TypedKernel DEF IInv, StoreStatus, WaitReturns
<1>6. /\ exit_status'[o] = status[o] /\ ec'[o] = "ok" /\ pc'[o] = "idle" /\ obj' = obj
      /\ hpid' = hpid
      /\ strayed' = strayed /\ status'[o] = status[o] /\ pid' = pid
      /\ st'[o] = "reaped" /\ st[o] = "zombie"
  BY <1>1, <1>3, <1>5 DEF WaitReturns, Answers, StoreStatus, Collected, TypeOK, KernelTypeOK
<1>7. ~process_is_running(status[o])
  BY <1>6, FinalStatusIsFinal DEF IInv, KernelSane, Terminated
<1>8. Ownership(o)'
  BY <1>1, <1>2, <1>6, <1>7 DEF Ownership, Exists, Final
<1>9. \A q \in Procs \ {o} : SameObj(q) /\ SameLife(q)
  <2>1. \A q \in Procs \ {o} : SameLife(q)
    BY <1>1, <1>5, LifeFrame, TypedKernel
  <2> QED
    BY <1>1, <1>5, <2>1 DEF WaitReturns, Answers, SameObj, StoreStatus
<1>10. UNCHANGED opVars /\ \A w \in Waits : Moved(w)
  BY SameOpsMove DEF WaitReturns, waitVars
<1>11. ASSUME NEW w \in WaitsOf(o) PROVE Operation(w)' /\ phase'[w] = phase[w]
  <2>1. Operation(w) /\ WaitOn[w] = o /\ w \in Waits /\ phase'[w] = phase[w]
    BY <1>1, <1>10 DEF Rest, WaitsOf, opVars
  <2>2. phase[w] # "blocking"
    BY <1>2, <2>1 DEF Operation
  <2> QED
    BY <1>6, <1>10, <2>1, <2>2, OperationFrame
<1> QED
  BY <1>1, <1>5, <1>6, <1>8, <1>9, <1>10, <1>11, StepFrame DEF KernelMoves, Rest

LEMMA SignalStep ==
  ASSUME IInv, ~PidReuse, NEW o \in Procs, Usable(o), NEW s, NEW l \in {"idle", "wait"},
         Signal(o, s, l)
  PROVE  KernelMoves /\ Rest'
<1>1. /\ TypeOK /\ Rest /\ Ownership(o)
      /\ pc \in [Procs -> {"idle", "fork", "wait", "kill", "reap"}]
  BY DEF IInv, Rest, TypeOK, ProcTypeOK
<1>2. /\ Exists(o) /\ pc[o] = "idle"
      /\ \A w \in WaitsOf(o) : phase[w] # "blocking"
  BY UsableWaits
<1>3. Shifted
  BY <1>1, KillShifts, TypedKernel DEF Signal
<1>4. \A q \in Procs : SameLife(q)
  BY <1>1, <1>3, LifeFrame, TypedKernel
<1>5. strayed' = strayed
  BY <1>2, OwnHandle, OwnChild DEF Signal, IInv
<1>6. obj[o] = "open" /\ st[o] # "reaped"
  <2>1. /\ st[o] # "unborn" /\ hpid[o] \in {-1, pid[o]} /\ pid[o] \in Nat
        /\ hpid[o] = -1 \/ obj[o] = "open"
    BY <1>1, <1>2, OwnHandle, Lives, TypedKernel
  <2>2. hpid[o] > 0 /\ ~ChildGone(hpid[o])
    BY DEF Signal
  <2>3. ~(hpid[o] = -1 \/ st[o] = "reaped")
    BY <2>1, <2>2, OwnChild DEF IInv
  <2> QED
    BY <2>1, <2>3
<1>7. pc' = [pc EXCEPT ![o] = l] /\ UNCHANGED <<obj, hpid, exit_status, ec, opVars>>
  BY DEF Signal, waitVars
<1>8. Ownership(o)'
  BY <1>1, <1>2, <1>4, <1>6, <1>7 DEF Ownership, SameLife, Final, Exists, HoldsPid, Living
<1>9. \A w \in Waits : Moved(w)
  BY <1>7, SameOpsMove
<1>10. \A q \in Procs \ {o} : SameObj(q)
  BY <1>1, <1>7 DEF SameObj
<1>11. ASSUME NEW w \in WaitsOf(o) PROVE Operation(w)' /\ phase'[w] = phase[w]
  <2>1. Operation(w) /\ WaitOn[w] = o /\ w \in Waits /\ phase'[w] = phase[w] /\ phase[w] # "blocking"
    BY <1>1, <1>2, <1>7 DEF Rest, WaitsOf, opVars
  <2>2. pc'[o] \in {"idle", "wait"} /\ obj'[o] = obj[o] /\ pid'[o] = pid[o]
    BY <1>1, <1>4, <1>7 DEF SameLife
  <2>3. st[o] = "reaped" => st'[o] = "reaped" /\ status'[o] = status[o]
    BY <1>6
  <2> QED
    BY <1>9, <2>1, <2>2, <2>3, OperationFrame
<1> QED
  BY <1>1, <1>3, <1>4, <1>5, <1>8, <1>9, <1>10, <1>11, StepFrame DEF KernelMoves, Rest

\* A step of the children alone.
LEMMA ChildStep ==
  ASSUME IInv, NEW o \in Procs, Child(o)
  PROVE  KernelMoves /\ Rest'
<1>1. TypeOK /\ Rest
  BY DEF IInv, Rest
<1>2. UNCHANGED <<procVars, opVars>>
  BY DEF Child, waitVars
<1>3. Shifted \/ Ended(o)
  <2>1. ASSUME NEW s \in FinalStatus, NEW c, st[o] \in Living, Terminates(o, s, c) PROVE Ended(o)
    BY <2>1 DEF Terminates, Ended
  <2>2. ASSUME ChildExit(o, Caught) PROVE Ended(o)
    BY <2>1, <2>2 DEF ChildExit, Living, FinalStatus
  <2>3. ASSUME NEW s \in FatalSignals, DieOfSignal(o, s, Caught) PROVE Ended(o)
    BY <2>1, <2>3 DEF DieOfSignal, Living, FinalStatus
  <2>4. ASSUME NEW s \in FatalSignals, IgnoreSignal(o, s) PROVE Shifted
    BY <1>1, <2>4, NoKernelStep DEF IgnoreSignal
  <2> QED
    BY <2>2, <2>3, <2>4 DEF Child
<1>4. \A q \in Procs : SameLife(q)
  BY <1>1, <1>3, LifeFrame, TypedKernel
<1>5. \A q \in Procs : SameObj(q)
  BY <1>2 DEF procVars, SameObj
<1>6. \A w \in Waits : Moved(w)
  BY <1>2, SameOpsMove
<1>7. ASSUME NEW w \in WaitsOf(o) PROVE Operation(w)' /\ phase'[w] = phase[w]
  <2>1. Operation(w) /\ WaitOn[w] = o /\ w \in Waits /\ phase'[w] = phase[w]
    BY <1>1, <1>2 DEF Rest, WaitsOf, opVars
  <2> QED
    BY <1>4, <1>5, <1>6, <2>1, OperationFrame DEF SameObj, SameLife, Living
<1>8. Ownership(o)'
  BY <1>1, <1>4, <1>5, OwnershipFrame DEF Rest
<1> QED
  BY <1>1, <1>2, <1>3, <1>4, <1>5, <1>6, <1>7, <1>8, StepFrame DEF KernelMoves, Rest, procVars

LEMMA LaunchStep ==
  ASSUME IInv, NEW o \in Procs, LaunchFork(o) \/ Construct(o)
  PROVE  KernelMoves /\ Rest'
<1>1. /\ TypeOK /\ Rest /\ Ownership(o)
      /\ obj \in [Procs -> {"absent", "open", "detached", "destroyed"}]
      /\ pc \in [Procs -> {"idle", "fork", "wait", "kill", "reap"}]
      /\ hpid \in [Procs -> Pids \cup {-1}]
      /\ st \in [Procs -> {"unborn", "running", "stopped", "zombie", "reaped"}]
  BY DEF IInv, Rest, TypeOK, ProcTypeOK, KernelTypeOK
<1>2. obj[o] = "absent"
  BY <1>1 DEF LaunchFork, Construct, Ownership
<1>3. UNCHANGED opVars /\ strayed' = strayed /\ \A w \in Waits : Moved(w)
  BY SameOpsMove DEF LaunchFork, Construct, waitVars
<1>4. ASSUME NEW w \in WaitsOf(o) PROVE Operation(w)' /\ phase'[w] = phase[w]
  <2>1. Operation(w) /\ WaitOn[w] = o /\ w \in Waits /\ UNCHANGED <<phase, err>>
    BY <1>1, <1>3 DEF Rest, WaitsOf, opVars
  <2>2. phase[w] = "none"
    BY <1>2, <2>1 DEF Operation
  <2> QED
    BY <2>1, <2>2, OperationOver DEF Pending
<1>5. CASE LaunchFork(o)
  <2>1. Born(o)
    BY <1>5 DEF LaunchFork, Fork, Born
  <2>2. \A q \in Procs \ {o} : SameLife(q) /\ SameObj(q)
    BY <1>1, <1>5, <2>1, LifeFrame, TypedKernel DEF LaunchFork, SameObj
  <2>3. st'[o] = "running" /\ pc'[o] = "fork" /\ UNCHANGED <<obj, hpid, exit_status, ec>>
    BY <1>1, <1>5, <2>1 DEF LaunchFork, Born
  <2>4. Ownership(o)'
    BY <1>1, <1>2, <2>3 DEF Ownership, HoldsPid, Exists, Final
  <2> QED
    BY <1>1, <1>3, <1>4, <2>1, <2>2, <2>4, StepFrame DEF KernelMoves, Rest
<1>6. CASE Construct(o)
  <2>1. Shifted /\ UNCHANGED <<st, pid, status>>
    BY <1>1, <1>6, NoKernelStep DEF Construct, kernelVars
  <2>2. \A q \in Procs \ {o} : SameLife(q) /\ SameObj(q)
    BY <1>1, <1>6, <2>1 DEF Construct, SameObj, SameLife
  <2>3. /\ obj'[o] = "open" /\ pc[o] = "fork" /\ pc'[o] = "idle" /\ hpid'[o] = pid[o]
        /\ UNCHANGED <<exit_status, ec>>
    BY <1>1, <1>6 DEF Construct
  <2>4. Ownership(o)'
    BY <1>1, <1>2, <2>1, <2>3 DEF Ownership, HoldsPid, Exists, Final
  <2> QED
    BY <1>1, <1>3, <1>4, <2>1, <2>2, <2>4, StepFrame DEF KernelMoves, Rest
<1> QED
  BY <1>5, <1>6

-------------------------------------------------------------------------------
(***************************************************************************)
(* The end of an object.                                                   *)
(***************************************************************************)
LEMMA GoneStep ==
  ASSUME IInv, NEW o \in Procs, Gone(o), st[o] # "unborn",
         Collected(o) \/ UNCHANGED <<st, pid, status>>,
         \A w \in WaitsOf(o) : ~Pending(w),
         strayed' = strayed, UNCHANGED opVars
  PROVE  KernelMoves /\ Rest'
<1>1. /\ TypeOK /\ Rest
      /\ obj \in [Procs -> {"absent", "open", "detached", "destroyed"}]
      /\ pc \in [Procs -> {"idle", "fork", "wait", "kill", "reap"}]
      /\ hpid \in [Procs -> Pids \cup {-1}] /\ exit_status \in [Procs -> Known]
      /\ ec \in [Procs -> {"ok", "ECHILD"}]
      /\ st \in [Procs -> {"unborn", "running", "stopped", "zombie", "reaped"}]
  BY DEF IInv, Rest, TypeOK, ProcTypeOK, KernelTypeOK
<1>2. Collected(o) \/ Shifted
  BY <1>1, NoKernelStep
<1>3. \A q \in Procs \ {o} : SameLife(q) /\ SameObj(q)
  BY <1>1, <1>2, LifeFrame, TypedKernel DEF Gone, Answers, SameObj
<1>4. st'[o] # "unborn"
  BY <1>1 DEF Collected
<1>5. obj'[o] = "destroyed" /\ pc'[o] = "idle" /\ hpid'[o] = -1 /\ ec'[o] = "ok"
  BY <1>1 DEF Gone, Answers
<1>6. Ownership(o)'
  BY <1>4, <1>5 DEF Ownership, Exists
<1>7. \A w \in Waits : Moved(w)
  BY SameOpsMove
<1>8. ASSUME NEW w \in WaitsOf(o) PROVE Operation(w)' /\ phase'[w] = phase[w]
  <2>1. Operation(w) /\ WaitOn[w] = o /\ w \in Waits /\ UNCHANGED <<phase, err>>
    BY <1>1 DEF Rest, WaitsOf, opVars
  <2> QED
    BY <1>5, <2>1, OperationOver
<1> QED
  BY <1>1, <1>2, <1>3, <1>6, <1>7, <1>8, StepFrame DEF KernelMoves, Rest

LEMMA DestroyStep ==
  ASSUME IInv, ~PidReuse, NEW o \in Procs, Destroy(o)
  PROVE  KernelMoves /\ Rest'
<1>1. /\ TypeOK /\ Rest /\ Ownership(o)
      /\ pc \in [Procs -> {"idle", "fork", "wait", "kill", "reap"}]
  BY DEF IInv, Rest, TypeOK, ProcTypeOK
<1>2. Exists(o) /\ \A w \in WaitsOf(o) : ~Pending(w)
  BY UsableWaits DEF Destroy, MayCall
<1>3. /\ st[o] # "unborn" /\ hpid[o] \in {-1, pid[o]} /\ pid[o] > 0
      /\ hpid[o] = -1 \/ obj[o] = "open"
  BY <1>2, OwnHandle
<1>4. /\ Strays(o, hpid[o]) = strayed
      /\ ChildAlive(hpid[o]) <=> hpid[o] = pid[o] /\ st[o] \in Living
  BY <1>3, OwnChild DEF IInv
<1>5. UNCHANGED opVars /\ \A w \in Waits : Moved(w)
  BY SameOpsMove DEF Destroy
<1>6. CASE ChildAlive(hpid[o])
  <2>1. /\ pc' = [pc EXCEPT ![o] = "kill"]
        /\ UNCHANGED <<obj, hpid, exit_status, ec, strayed, kernelVars>>
    BY <1>6 DEF Destroy
  <2>2. Shifted /\ \A q \in Procs : SameLife(q)
    BY <1>1, <2>1, NoKernelStep, LifeFrame, TypedKernel DEF kernelVars
  <2>3. obj[o] = "open" /\ st[o] # "reaped"
    <3>1. pid[o] \in Nat
      BY <1>1, Lives, TypedKernel
    <3> QED
      BY <1>3, <1>4, <1>6, <3>1 DEF Living
  <2>4. Ownership(o)'
    BY <1>1, <2>1, <2>3 DEF Ownership, Exists, Final, HoldsPid, kernelVars
  <2>5. \A q \in Procs \ {o} : SameObj(q)
    BY <1>1, <2>1 DEF SameObj
  <2>6. ASSUME NEW w \in WaitsOf(o) PROVE Operation(w)' /\ phase'[w] = phase[w]
    <3>1. Operation(w) /\ WaitOn[w] = o /\ w \in Waits /\ phase'[w] = phase[w]
      BY <1>1, <1>5 DEF Rest, WaitsOf, opVars
    <3> QED
      BY <1>2, <1>5, <2>1, <3>1, OperationFrame DEF kernelVars
  <2> QED
    BY <1>1, <1>5, <2>1, <2>2, <2>4, <2>5, <2>6, StepFrame DEF KernelMoves, Rest
<1>7. CASE ~ChildAlive(hpid[o])
  <2>1. Gone(o) /\ Reap(hpid[o]) /\ strayed' = strayed
    BY <1>4, <1>7 DEF Destroy
  <2>2. Collected(o) \/ UNCHANGED <<st, pid, status>>
    BY <1>3, <1>7, <2>1, OwnReap, TypedKernel DEF IInv
  <2> QED
    BY <1>2, <1>3, <1>5, <2>1, <2>2, GoneStep
<1> QED
  BY <1>6, <1>7

\* A destructor at work: the object is open and none of its operations is pending.
LEMMA Destroying ==
  ASSUME IInv, NEW o \in Procs, pc[o] \in {"kill", "reap"}
  PROVE  /\ obj[o] = "open" /\ st[o] \notin {"unborn", "reaped"} /\ hpid[o] = pid[o]
         /\ Strays(o, hpid[o]) = strayed
         /\ \A w \in WaitsOf(o) : ~Pending(w)
<1>1. obj[o] = "open" /\ st[o] \notin {"unborn", "reaped"} /\ hpid[o] = pid[o]
  BY DEF IInv, Ownership, TypeOK, ProcTypeOK
<1>2. \A w \in WaitsOf(o) : ~Pending(w)
  BY DEF IInv, Operation, WaitsOf
<1> QED
  BY <1>1, <1>2, OwnChild DEF IInv

LEMMA DestroyKillStep ==
  ASSUME IInv, NEW o \in Procs, DestroyKill(o)
  PROVE  KernelMoves /\ Rest'
<1>1. /\ TypeOK /\ Rest /\ Ownership(o)
      /\ pc \in [Procs -> {"idle", "fork", "wait", "kill", "reap"}]
  BY DEF IInv, Rest, TypeOK, ProcTypeOK
<1>2. /\ obj[o] = "open" /\ st[o] \notin {"unborn", "reaped"} /\ hpid[o] = pid[o]
      /\ strayed' = strayed
      /\ \A w \in WaitsOf(o) : ~Pending(w)
  BY Destroying DEF DestroyKill
<1>3. UNCHANGED opVars /\ \A w \in Waits : Moved(w)
  BY SameOpsMove DEF DestroyKill, waitVars
<1>4. Shifted /\ \A q \in Procs : SameLife(q)
  BY <1>1, KillShifts, TypedKernel, LifeFrame DEF DestroyKill
<1>5. pc' = [pc EXCEPT ![o] = "reap"] /\ UNCHANGED <<obj, hpid, exit_status, ec>>
  BY DEF DestroyKill
<1>6. Ownership(o)'
  BY <1>1, <1>2, <1>4, <1>5 DEF Ownership, SameLife, Exists, Final, HoldsPid, Living
<1>7. \A q \in Procs \ {o} : SameObj(q)
  BY <1>1, <1>5 DEF SameObj
<1>8. ASSUME NEW w \in WaitsOf(o) PROVE Operation(w)' /\ phase'[w] = phase[w]
  <2>1. Operation(w) /\ WaitOn[w] = o /\ w \in Waits /\ phase'[w] = phase[w]
    BY <1>1, <1>3 DEF Rest, WaitsOf, opVars
  <2> QED
    BY <1>2, <1>3, <1>4, <1>5, <2>1, OperationFrame DEF SameLife
<1> QED
  BY <1>1, <1>2, <1>3, <1>4, <1>6, <1>7, <1>8, StepFrame DEF KernelMoves, Rest

LEMMA DestroyReapStep ==
  ASSUME IInv, NEW o \in Procs, DestroyReap(o)
  PROVE  KernelMoves /\ Rest'
<1>1. /\ st[o] \notin {"unborn", "reaped"} /\ hpid[o] = pid[o] /\ strayed' = strayed
      /\ \A w \in WaitsOf(o) : ~Pending(w)
  BY Destroying DEF DestroyReap
<1>2. Collected(o) \/ UNCHANGED <<st, pid, status>>
  BY <1>1, OwnReap, TypedKernel DEF DestroyReap, IInv
<1> QED
  BY <1>1, <1>2, GoneStep DEF DestroyReap

LEMMA CatchStep ==
  ASSUME IInv, CatchSigchld
  PROVE  KernelMoves /\ Rest'
<1>1. TypeOK /\ Rest /\ UNCHANGED <<st, pid, status>> /\ UNCHANGED opVars
  BY DEF IInv, Rest, CatchSigchld
<1>2. CASE UNCHANGED <<procVars, undelivered>>
  <2>1. Shifted /\ \A q \in Procs : SameLife(q)
    BY <1>1, NoKernelStep, LifeFrame, TypedKernel
  <2>2. \A q \in Procs : SameObj(q)
    BY <1>2 DEF procVars, SameObj
  <2>3. \A w \in Waits : Moved(w) /\ phase'[w] = phase[w]
    BY <1>1, SameOpsMove DEF opVars
  <2>4. \A q \in Procs : Ownership(q)'
    BY <1>1, <2>1, <2>2, OwnershipFrame DEF Rest
  <2>5. ASSUME NEW w \in Waits PROVE Operation(w)'
    <3>1. WaitOn[w] \in Procs
      BY BasicProcessAssumption
    <3> QED
      BY <1>1, <2>1, <2>2, <2>3, <3>1, OperationFrame DEF Rest, SameObj, SameLife, Living
  <2> QED
    BY <1>1, <1>2, <2>1, <2>3, <2>4, <2>5 DEF KernelMoves, Rest, OneBlocks, procVars
<1>3. ASSUME NEW o \in Procs, pc[o] = "reap", Gone(o), UNCHANGED strayed
      PROVE  KernelMoves /\ Rest'
  BY <1>1, <1>3, Destroying, GoneStep
<1> QED
  BY <1>2, <1>3 DEF CatchSigchld

-------------------------------------------------------------------------------
(***************************************************************************)
(* Operations that go on without touching their object.                    *)
(***************************************************************************)
LEMMA MovingStep ==
  ASSUME IInv, UNCHANGED <<procVars, st, pid, status>>, \A w \in Waits : Moved(w)
  PROVE  KernelMoves /\ Rest'
<1>1. TypeOK /\ Rest /\ Shifted
  BY NoKernelStep DEF IInv, Rest
<1>2. \A q \in Procs : SameLife(q) /\ SameObj(q)
  BY <1>1, LifeFrame, TypedKernel DEF procVars, SameObj
<1>3. \A q \in Procs : Ownership(q)'
  BY <1>1, <1>2, OwnershipFrame DEF Rest
<1>4. ASSUME NEW w \in Waits PROVE Operation(w)'
  <2>1. WaitOn[w] \in Procs
    BY BasicProcessAssumption
  <2> QED
    BY <1>1, <1>2, <2>1, OperationFrame DEF Rest, SameObj, SameLife, Living
<1>5. OneBlocks'
  BY <1>1 DEF Rest, OneBlocks, Moved
<1> QED
  BY <1>1, <1>3, <1>4, <1>5 DEF KernelMoves, Rest, procVars

LEMMA QueueMoves ==
  ASSUME NEW S, NEW e, e # "ECHILD", Queue(S, e),
         \A w \in S : phase[w] \in {"ready", "arming", "armed"}
  PROVE  \A w \in Waits : Moved(w)
BY DEF Queue, Moved

LEMMA DescriptorStep ==
  ASSUME IInv, NEW w \in Waits, DescriptorReady(w)
  PROVE  KernelMoves /\ Rest'
BY QueueMoves, MovingStep DEF DescriptorReady, Armed, kernelVars

LEMMA DeliverStep ==
  ASSUME IInv, DeliverSigchld
  PROVE  KernelMoves /\ Rest'
BY QueueMoves, MovingStep DEF DeliverSigchld, InSignalSet, Armed, kernelVars

LEMMA CancelStep ==
  ASSUME IInv, NEW w \in Waits, CancelWait(w)
  PROVE  KernelMoves /\ Rest'
<1>1. \A v \in Waits : Moved(v)
  <2>1. /\ phase \in [Waits -> {"none", "ready", "arming", "armed", "blocking", "done"}]
        /\ err \in [Waits -> {"ok", "ECHILD", "EBADF", "ECANCELED"}]
        /\ err[w] # "ECHILD"
    BY DEF IInv, TypeOK, OpTypeOK, Operation
  <2> QED
    BY <2>1 DEF CancelWait, Moved, Suspended
<1> QED
  BY <1>1, MovingStep DEF CancelWait, kernelVars

LEMMA ArmStep ==
  ASSUME IInv, NEW w \in Waits, Arm(w)
  PROVE  KernelMoves /\ Rest'
<1>1. CASE Queue({w}, "ok")
  BY <1>1, QueueMoves, MovingStep DEF Arm, kernelVars
<1>2. CASE /\ phase' = [phase EXCEPT ![w] = "armed"]
           /\ UNCHANGED <<wpid, err, cancelled, code, undelivered>>
  <2>1. /\ phase \in [Waits -> {"none", "ready", "arming", "armed", "blocking", "done"}]
        /\ err[w] # "ECHILD"
    BY DEF IInv, TypeOK, OpTypeOK, Operation
  <2>2. \A v \in Waits : Moved(v)
    BY <1>2, <2>1 DEF Arm, Moved
  <2> QED
    BY <2>2, MovingStep DEF Arm, kernelVars
<1> QED
  BY <1>1, <1>2 DEF Arm

LEMMA DetachStep ==
  ASSUME IInv, NEW o \in Procs, Detach(o)
  PROVE  KernelMoves /\ Rest'
<1>1. /\ TypeOK /\ Rest /\ Ownership(o)
      /\ obj \in [Procs -> {"absent", "open", "detached", "destroyed"}]
      /\ hpid \in [Procs -> Pids \cup {-1}]
  BY DEF IInv, Rest, TypeOK, ProcTypeOK
<1>2. /\ pc[o] = "idle" /\ obj[o] = "open" /\ \A w \in WaitsOf(o) : phase[w] # "blocking"
  BY UsableWaits DEF Detach, MayCall
<1>3. Shifted /\ UNCHANGED <<st, pid, status>>
  BY <1>1, NoKernelStep DEF Detach, kernelVars
<1>4. /\ obj' = [obj EXCEPT ![o] = "detached"] /\ hpid' = [hpid EXCEPT ![o] = -1]
      /\ UNCHANGED <<exit_status, pc, ec, strayed>>
  BY DEF Detach
<1>5. \A q \in Procs \ {o} : SameLife(q) /\ SameObj(q)
  BY <1>1, <1>3, <1>4 DEF SameLife, SameObj
<1>6. Ownership(o)'
  BY <1>1, <1>2, <1>3, <1>4 DEF Ownership, Exists, Final, HoldsPid
<1>7. \A w \in Waits : Moved(w)
  BY QueueMoves, SameOpsMove DEF Detach, ArmedOn, Armed
<1>8. ASSUME NEW w \in WaitsOf(o)
      PROVE  Operation(w)' /\ (phase'[w] = "blocking" => phase[w] = "blocking")
  <2>1. Operation(w) /\ WaitOn[w] = o /\ w \in Waits /\ phase[w] # "blocking"
    BY <1>1, <1>2 DEF Rest, WaitsOf
  <2>2. Moved(w) /\ obj'[o] = "detached" /\ pc'[o] = "idle" /\ pid'[o] = pid[o]
    BY <1>1, <1>2, <1>3, <1>4, <1>7, <2>1
  <2> QED
    BY <2>1, <2>2 DEF Operation, Moved, Pending, Exists
<1> QED
  BY <1>1, <1>3, <1>4, <1>5, <1>6, <1>7, <1>8, StepFrame DEF KernelMoves, Rest

-------------------------------------------------------------------------------
(***************************************************************************)
(* Operations that poll, complete or wait again.                           *)
(***************************************************************************)
LEMMA FinishKeeps ==
  ASSUME IInv, NEW w \in Waits, NEW e, NEW s, Finish(w, e, s), Keep,
         UNCHANGED <<obj, hpid, pc, ec>>, Exists(WaitOn[w]), e # "ECHILD",
         e = "ok" => Final(WaitOn[w]) /\ s = exit_status[WaitOn[w]]
  PROVE  KernelMoves /\ Rest'
<1> DEFINE o == WaitOn[w]
<1>1. /\ TypeOK /\ Rest /\ Ownership(o) /\ o \in Procs
      /\ phase \in [Waits -> {"none", "ready", "arming", "armed", "blocking", "done"}]
      /\ err \in [Waits -> {"ok", "ECHILD", "EBADF", "ECANCELED"}]
      /\ code \in [Waits -> {evaluate_exit_code(t) : t \in Known}]
  BY BasicProcessAssumption DEF IInv, Rest, TypeOK, OpTypeOK
<1>2. Shifted /\ UNCHANGED <<st, pid, status, exit_status>>
  BY <1>1, NoKernelStep DEF Keep, kernelVars
<1>3. \A q \in Procs : SameLife(q) /\ SameObj(q)
  BY <1>2 DEF SameLife, SameObj
<1>4. /\ phase'[w] = "done" /\ err'[w] = e /\ code'[w] = evaluate_exit_code(s)
      /\ \A v \in Waits \ {w} : Moved(v) /\ phase'[v] = phase[v]
  BY <1>1 DEF Finish, Completes, Moved
<1>5. Operation(w)'
  BY <1>1, <1>2, <1>4 DEF Operation, Ownership, Exists, Pending
<1>6. ASSUME NEW v \in WaitsOf(o)
      PROVE  Operation(v)' /\ (phase'[v] = "blocking" => phase[v] = "blocking")
  <2>1. Operation(v) /\ WaitOn[v] = o /\ v \in Waits
    BY <1>1 DEF Rest, WaitsOf
  <2>2. CASE v = w
    BY <1>4, <1>5, <2>2
  <2>3. CASE v # w
    <3>1. Moved(v) /\ phase'[v] = phase[v]
      BY <1>4, <2>1, <2>3
    <3> QED
      BY <1>1, <1>2, <2>1, <3>1, OperationFrame
  <2> QED
    BY <2>2, <2>3
<1>7. Ownership(o)'
  BY <1>1, <1>3, OwnershipFrame
<1>8. \A v \in Waits \ WaitsOf(o) : Moved(v)
  BY <1>4 DEF WaitsOf
<1>9. ~strayed'
  BY <1>1 DEF Keep, Rest
<1> QED
  BY <1>1, <1>2, <1>3, <1>6, <1>7, <1>8, <1>9, StepFrame DEF KernelMoves

LEMMA FinishStores ==
  ASSUME IInv, NEW w \in Waits, NEW e, NEW p \in {-1, pid[WaitOn[w]]}, e # "ECHILD",
         ChildZombie(p), StoreStatus(WaitOn[w], p), Finish(w, e, StatusOf(p)),
         UNCHANGED <<obj, hpid, pc, ec>>, Exists(WaitOn[w]), pc[WaitOn[w]] = "idle",
         ~Final(WaitOn[w]),
         \A v \in WaitsOf(WaitOn[w]) : v # w => phase[v] # "blocking"
  PROVE  KernelMoves /\ Rest'
<1> DEFINE o == WaitOn[w]
<1>1. /\ TypeOK /\ Rest /\ Ownership(o) /\ o \in Procs
      /\ exit_status \in [Procs -> Known]
      /\ phase \in [Waits -> {"none", "ready", "arming", "armed", "blocking", "done"}]
      /\ err \in [Waits -> {"ok", "ECHILD", "EBADF", "ECANCELED"}]
      /\ code \in [Waits -> {evaluate_exit_code(t) : t \in Known}]
  BY BasicProcessAssumption DEF IInv, Rest, TypeOK, OpTypeOK, ProcTypeOK
<1>2. st[o] # "unborn" /\ st[o] # "reaped"
  BY <1>1, OwnHandle DEF Ownership
<1>3. strayed' = strayed /\ st[o] = "zombie" /\ ~ChildAlive(p)
  BY <1>1, <1>2, OwnChild DEF IInv, StoreStatus, Living
<1>4. Collected(o) /\ StatusOf(p) = status[o]
  BY <1>1, <1>2, <1>3, OwnReap, TypedKernel DEF IInv, StoreStatus
<1>5. /\ exit_status' = [exit_status EXCEPT ![o] = status[o]]
      /\ pid' = pid /\ status' = status /\ st'[o] = "reaped"
  BY <1>1, <1>4 DEF StoreStatus, Collected, TypeOK, KernelTypeOK
<1>6. ~process_is_running(status[o])
  BY <1>1, <1>3, FinalStatusIsFinal DEF IInv, KernelSane, Terminated
<1>7. /\ phase'[w] = "done" /\ err'[w] = e /\ code'[w] = evaluate_exit_code(status[o])
      /\ \A v \in Waits \ {w} : Moved(v) /\ phase'[v] = phase[v]
  BY <1>1, <1>4 DEF Finish, Completes, Moved
<1>8. Operation(w)'
  BY <1>1, <1>5, <1>7 DEF Operation, Exists, Pending
<1>9. ASSUME NEW v \in WaitsOf(o)
      PROVE  Operation(v)' /\ (phase'[v] = "blocking" => phase[v] = "blocking")
  <2>1. Operation(v) /\ WaitOn[v] = o /\ v \in Waits
    BY <1>1 DEF Rest, WaitsOf
  <2>2. CASE v = w
    BY <1>7, <1>8, <2>2
  <2>3. CASE v # w
    <3>1. Moved(v) /\ phase'[v] = phase[v] /\ phase[v] # "blocking" /\ pc'[o] = "idle"
      BY <1>7, <2>1, <2>3
    <3> QED
      BY <1>1, <1>3, <1>5, <2>1, <3>1, OperationFrame
  <2> QED
    BY <2>2, <2>3
<1>10. Ownership(o)'
  BY <1>1, <1>2, <1>5, <1>6 DEF Ownership, Exists, Final
<1>11. \A q \in Procs \ {o} : SameLife(q) /\ SameObj(q)
  BY <1>1, <1>4, <1>5, LifeFrame, TypedKernel DEF SameObj
<1>12. \A v \in Waits \ WaitsOf(o) : Moved(v)
  BY <1>7 DEF WaitsOf
<1> QED
  BY <1>1, <1>3, <1>4, <1>9, <1>10, <1>11, <1>12, StepFrame DEF KernelMoves, Rest

LEMMA PollBodyStep ==
  ASSUME IInv, NEW w \in Waits, NEW p \in {-1, pid[WaitOn[w]]}, NEW e, e # "ECHILD",
         PollBody(w, p, e), UNCHANGED <<obj, hpid, pc, ec>>, Usable(WaitOn[w])
  PROVE  KernelMoves /\ Rest'
<1> DEFINE o == WaitOn[w]
<1>1. /\ TypeOK /\ Rest /\ Ownership(o) /\ o \in Procs
      /\ exit_status \in [Procs -> Known]
      /\ phase \in [Waits -> {"none", "ready", "arming", "armed", "blocking", "done"}]
      /\ err \in [Waits -> {"ok", "ECHILD", "EBADF", "ECANCELED"}]
      /\ wpid \in [Waits -> Pids \cup {-1}]
  BY BasicProcessAssumption DEF IInv, Rest, TypeOK, OpTypeOK, ProcTypeOK
<1>2. /\ Exists(o) /\ pc[o] = "idle"
      /\ \A v \in WaitsOf(o) : phase[v] # "blocking"
  BY <1>1, UsableWaits
<1>3. st[o] # "unborn" /\ pid[o] > 0 /\ pid[o] \in Nat
  BY <1>1, <1>2, OwnHandle, Lives, TypedKernel
<1>4. MayPoll(w, e) => ~Final(o) /\ st[o] # "reaped"
  BY <1>1, <1>2 DEF MayPoll, Final, Ownership
<1>5. ASSUME MayPoll(w, e)
      PROVE  (ChildZombie(p) \/ ChildAlive(p) => p = pid[o]) /\ ~(p > 0 /\ ChildGone(p))
  BY <1>1, <1>3, <1>4, <1>5, OwnChild DEF IInv
<1>6. CASE p <= 0 /\ Finish(w, "EBADF", exit_status[o]) /\ Keep
  BY <1>1, <1>2, <1>6, FinishKeeps
<1>7. CASE p > 0 /\ ~MayPoll(w, e) /\ NothingToPoll(w, e)
  <2>1. e = "ok" => Final(o)
    BY <1>7 DEF MayPoll, Final
  <2> QED
    BY <1>1, <1>2, <1>7, <2>1, FinishKeeps DEF NothingToPoll
<1>8. CASE MayPoll(w, e) /\ ChildZombie(p) /\ StoreStatus(o, p) /\ Finish(w, e, StatusOf(p))
  BY <1>1, <1>2, <1>4, <1>8, FinishStores
<1>9. CASE MayPoll(w, e) /\ ChildAlive(p) /\ StillAlive(w, p, e) /\ Keep /\ e # "ok"
  BY <1>1, <1>2, <1>9, FinishKeeps DEF StillAlive
<1>10. CASE MayPoll(w, e) /\ ChildAlive(p) /\ WaitsAgain(w, p) /\ Keep
  <2>1. Shifted /\ UNCHANGED <<st, pid, status, exit_status, strayed>>
    BY <1>1, <1>10, NoKernelStep DEF Keep, kernelVars
  <2>2. \A q \in Procs : SameLife(q) /\ SameObj(q)
    BY <2>1 DEF SameLife, SameObj
  <2>3. /\ phase'[w] = "arming" /\ err'[w] = "ok" /\ wpid'[w] = pid[o]
        /\ \A v \in Waits \ {w} : Moved(v) /\ phase'[v] = phase[v]
    BY <1>1, <1>5, <1>10 DEF WaitsAgain, Moved
  <2>4. Operation(w)'
    BY <1>1, <1>2, <2>1, <2>3 DEF Operation, Pending, Exists
  <2>5. ASSUME NEW v \in WaitsOf(o)
        PROVE  Operation(v)' /\ (phase'[v] = "blocking" => phase[v] = "blocking")
    <3>1. Operation(v) /\ WaitOn[v] = o /\ v \in Waits
      BY <1>1 DEF Rest, WaitsOf
    <3>2. CASE v = w
      BY <2>3, <2>4, <3>2
    <3>3. CASE v # w
      <4>1. Moved(v) /\ phase'[v] = phase[v]
        BY <2>3, <3>1, <3>3
      <4> QED
        BY <1>1, <2>1, <3>1, <4>1, OperationFrame
    <3> QED
      BY <3>2, <3>3
  <2>6. Ownership(o)'
    BY <1>1, <2>2, OwnershipFrame
  <2>7. \A v \in Waits \ WaitsOf(o) : Moved(v)
    BY <2>3 DEF WaitsOf
  <2> QED
    BY <1>1, <2>1, <2>2, <2>5, <2>6, <2>7, StepFrame DEF KernelMoves, Rest
<1> QED
  BY <1>4, <1>5, <1>6, <1>7, <1>8, <1>9, <1>10 DEF PollBody, StillAlive

LEMMA AsyncWaitStep ==
  ASSUME IInv, NEW w \in Waits, AsyncWait(w)
  PROVE  KernelMoves /\ Rest'
<1> DEFINE o == WaitOn[w]
<1>1. /\ TypeOK /\ Rest /\ Ownership(o) /\ o \in Procs
      /\ phase \in [Waits -> {"none", "ready", "arming", "armed", "blocking", "done"}]
      /\ err \in [Waits -> {"ok", "ECHILD", "EBADF", "ECANCELED"}]
      /\ wpid \in [Waits -> Pids \cup {-1}]
  BY BasicProcessAssumption DEF IInv, Rest, TypeOK, OpTypeOK, ProcTypeOK
<1>2. /\ phase[w] = "none" /\ Usable(o) /\ UNCHANGED <<obj, hpid, pc, ec>>
      /\ Exists(o) /\ pc[o] = "idle" /\ \A v \in WaitsOf(o) : phase[v] # "blocking"
  BY <1>1, UsableWaits DEF AsyncWait
<1>3. hpid[o] \in {-1, pid[o]}
  BY <1>1, <1>2, OwnHandle
<1>4. CASE ~process_is_running(exit_status[o]) /\ Finish(w, "ok", exit_status[o]) /\ Keep
  BY <1>1, <1>2, <1>4, FinishKeeps DEF Final
<1>5. CASE PollBody(w, hpid[o], "ok")
  BY <1>2, <1>3, <1>5, PollBodyStep
<1>6. CASE StartInSignalSet(w) /\ Variant = "signal"
  <2>1. Keep /\ Shifted /\ UNCHANGED <<st, pid, status, exit_status, strayed>>
    BY <1>1, <1>6, NoKernelStep DEF StartInSignalSet, Keep, kernelVars
  <2>2. \A q \in Procs : SameLife(q) /\ SameObj(q)
    BY <1>2, <2>1 DEF SameLife, SameObj
  <2>3. /\ phase'[w] = "ready" /\ err'[w] # "ECHILD" /\ wpid'[w] = hpid[o]
        /\ \A v \in Waits \ {w} : Moved(v)
    <3>1. err[w] # "ECHILD"
      BY <1>1 DEF Rest, Operation
    <3>2. wpid'[w] = hpid[o] /\ \A v \in Waits \ {w} : wpid'[v] = wpid[v]
      BY <1>1, <1>6 DEF StartInSignalSet
    <3>3. /\ phase'[w] = "ready" /\ err'[w] \in {err[w], "ECANCELED"}
          /\ \A v \in Waits \ {w} :
               \/ phase'[v] = phase[v] /\ err'[v] = err[v]
               \/ phase[v] = "armed" /\ phase'[v] = "ready" /\ err'[v] = "ECANCELED"
      BY <1>6 DEF StartInSignalSet, ArmedOn, Armed
    <3>4. code' = code
      BY <1>6 DEF StartInSignalSet
    <3> QED
      BY <3>1, <3>2, <3>3, <3>4 DEF Moved
  <2>4. Operation(w)'
    BY <1>1, <1>2, <1>3, <1>6, <2>1, <2>3 DEF Operation, Pending, Exists
  <2>5. ASSUME NEW v \in WaitsOf(o)
        PROVE  Operation(v)' /\ (phase'[v] = "blocking" => phase[v] = "blocking")
    <3>1. Operation(v) /\ WaitOn[v] = o /\ v \in Waits
      BY <1>1 DEF Rest, WaitsOf
    <3>2. CASE v = w
      BY <2>3, <2>4, <3>2
    <3>3. CASE v # w
      <4>1. Moved(v)
        BY <2>3, <3>1, <3>3
      <4> QED
        BY <1>1, <1>2, <2>1, <3>1, <4>1, OperationFrame DEF Moved
    <3> QED
      BY <3>2, <3>3
  <2>6. Ownership(o)'
    BY <1>1, <2>2, OwnershipFrame
  <2>7. \A v \in Waits \ WaitsOf(o) : Moved(v)
    BY <2>3 DEF WaitsOf
  <2> QED
    BY <1>1, <2>1, <2>2, <2>5, <2>6, <2>7, StepFrame DEF KernelMoves, Rest
<1> QED
  BY <1>4, <1>5, <1>6 DEF AsyncWait

\* A waitpid of a handler that may block finds the child, and its object waiting.
LEMMA WaitedForStep ==
  ASSUME IInv, NEW w \in Waits, WaitedFor(w), UNCHANGED <<obj, hpid, pc, ec>>,
         Exists(WaitOn[w]), pc[WaitOn[w]] = "idle", ~Final(WaitOn[w]),
         wpid[w] = pid[WaitOn[w]],
         \A v \in WaitsOf(WaitOn[w]) : v # w => phase[v] # "blocking"
  PROVE  KernelMoves /\ Rest'
<1> DEFINE o == WaitOn[w]
<1>1. TypeOK /\ Ownership(o) /\ o \in Procs
  BY BasicProcessAssumption DEF IInv
<1>2. st[o] # "reaped" /\ st[o] # "unborn" /\ pid[o] > 0 /\ pid[o] \in Nat
  BY <1>1, OwnHandle, Lives, TypedKernel DEF Ownership
<1>3. ~ChildGone(wpid[w])
  BY <1>1, <1>2, OwnChild DEF IInv
<1>4. ChildZombie(wpid[w]) /\ StoreStatus(o, wpid[w]) /\ Finish(w, "ok", StatusOf(wpid[w]))
  BY <1>3 DEF WaitedFor
<1> QED
  BY <1>4, FinishStores

LEMMA HandlerStep ==
  ASSUME IInv, NEW w \in Waits, Handler(w)
  PROVE  KernelMoves /\ Rest'
<1> DEFINE o == WaitOn[w]
<1>1. /\ TypeOK /\ Rest /\ Ownership(o) /\ Operation(w) /\ o \in Procs
      /\ phase \in [Waits -> {"none", "ready", "arming", "armed", "blocking", "done"}]
      /\ w \in WaitsOf(o)
  BY BasicProcessAssumption DEF IInv, Rest, TypeOK, OpTypeOK, WaitsOf
<1>2. /\ phase[w] = "ready" /\ Usable(o) /\ UNCHANGED <<obj, hpid, pc, ec>>
      /\ Exists(o) /\ pc[o] = "idle" /\ \A v \in WaitsOf(o) : phase[v] # "blocking"
  BY <1>1, UsableWaits DEF Handler
<1>3. /\ wpid[w] \in {-1, pid[o]} /\ err[w] # "ECHILD" /\ OwnError(w) # "ECHILD"
      /\ Variant = "fd" => wpid[w] = pid[o]
  BY <1>1, <1>2 DEF Operation, Pending, OwnError
<1>4. CASE Variant # "fd"
  <2>1. PollBody(w, wpid[w], OwnError(w))
    BY <1>4 DEF Handler
  <2> QED
    BY <1>2, <1>3, <2>1, PollBodyStep
<1>5. CASE Variant = "fd" /\ ~Trusts(w) /\ NothingToPoll(w, err[w])
  <2>1. err[w] = "ok" => Final(o)
    BY <1>5 DEF Trusts, Final
  <2> QED
    BY <1>1, <1>2, <1>3, <1>5, <2>1, FinishKeeps DEF NothingToPoll
<1>6. CASE Variant = "fd" /\ Trusts(w) /\ WaitedFor(w)
  BY <1>2, <1>3, <1>6, WaitedForStep DEF Trusts, Final
<1>7. CASE /\ Variant = "fd" /\ Trusts(w) /\ phase' = [phase EXCEPT ![w] = "blocking"]
           /\ UNCHANGED <<wpid, err, cancelled, code>> /\ Keep
  <2>1. Shifted /\ UNCHANGED <<st, pid, status, exit_status, strayed>> /\ ~Final(o)
    BY <1>1, <1>7, NoKernelStep DEF Keep, kernelVars, Trusts, Final
  <2>2. \A q \in Procs : SameLife(q) /\ SameObj(q)
    BY <1>2, <2>1 DEF SameLife, SameObj
  <2>3. phase'[w] = "blocking" /\ \A v \in Waits \ {w} : Moved(v) /\ phase'[v] = phase[v]
    BY <1>1, <1>7 DEF Moved
  <2>4. Operation(w)'
    BY <1>1, <1>2, <1>3, <1>7, <2>1, <2>3 DEF Operation, Pending, Exists, Final
  <2>5. ASSUME NEW v \in Waits, v # w PROVE Operation(v)'
    <3>1. WaitOn[v] \in Procs /\ Operation(v) /\ Moved(v)
      BY <1>1, <2>3, <2>5, BasicProcessAssumption DEF Rest
    <3> QED
      BY <2>1, <2>2, <3>1, OperationFrame DEF SameObj
  <2>6. \A q \in Procs : Ownership(q)'
    BY <1>1, <2>2, OwnershipFrame DEF Rest
  <2>7. OneBlocks'
    BY <1>1, <1>2, <2>3 DEF OneBlocks, Rest, WaitsOf
  <2> QED
    BY <1>1, <2>1, <2>4, <2>5, <2>6, <2>7 DEF KernelMoves, Rest
<1> QED
  BY <1>4, <1>5, <1>6, <1>7 DEF Handler, TrustDescriptor

LEMMA UnblockStep ==
  ASSUME IInv, NEW w \in Waits, UnblockHandler(w)
  PROVE  KernelMoves /\ Rest'
<1>1. Operation(w) /\ OneBlocks /\ phase[w] = "blocking"
  BY DEF IInv, UnblockHandler
<1>2. /\ Exists(WaitOn[w]) /\ pc[WaitOn[w]] = "idle" /\ ~Final(WaitOn[w])
      /\ wpid[w] = pid[WaitOn[w]]
  BY <1>1 DEF Operation, Pending
<1>3. \A v \in WaitsOf(WaitOn[w]) : v # w => phase[v] # "blocking"
  BY <1>1 DEF OneBlocks, WaitsOf
<1> QED
  BY <1>2, <1>3, WaitedForStep DEF UnblockHandler

-------------------------------------------------------------------------------
LEMMA InitIInv == Init => IInv
<1> SUFFICES ASSUME Init PROVE IInv
  OBVIOUS
<1>1. TypeOK
  BY TypeInit DEF TypeInv
<1>2. KernelSane /\ PidsDistinct /\ HeldPidsDiffer /\ OneBlocks /\ ~strayed
  BY DEF Init, KernelInit, KernelSane, PidsDistinct, HeldPidsDiffer, HoldsPid, OneBlocks, Terminated
<1>3. ASSUME NEW o \in Procs PROVE Ownership(o)
  BY FinalStatusIsFinal DEF Init, KernelInit, Ownership, Final, Exists
<1>4. ASSUME NEW w \in Waits PROVE Operation(w)
  <2>1. WaitOn[w] \in Procs
    BY BasicProcessAssumption
  <2> QED
    BY <2>1 DEF Init, Operation, Pending
<1> QED
  BY <1>1, <1>2, <1>3, <1>4 DEF IInv

LEMMA StepMoves ==
  ASSUME AskingOnly, IInv, [Next]_vars
  PROVE  KernelMoves /\ Rest'
<1>1. ASSUME NEW o \in Procs,
             \/ LaunchFork(o) \/ Construct(o)
             \/ Running(o) \/ Wait(o) \/ WaitReturns(o)
             \/ Terminate(o) \/ Interrupt(o) \/ RequestExit(o) \/ Suspend(o) \/ Resume(o)
             \/ Destroy(o) \/ DestroyKill(o) \/ DestroyReap(o) \/ Detach(o)
             \/ Child(o)
      PROVE  KernelMoves /\ Rest'
  <2>1. CASE LaunchFork(o) \/ Construct(o)
    BY <2>1, LaunchStep
  <2>2. CASE Running(o) \/ Wait(o)
    BY <2>2, PollStep DEF Running, Wait, MayCall
  <2>3. CASE Terminate(o) \/ Interrupt(o) \/ RequestExit(o) \/ Suspend(o) \/ Resume(o)
    <3>1. ~PidReuse
      BY <2>3 DEF AskingOnly, Asking, Terminate, Interrupt, RequestExit, Suspend, Resume, MayCall
    <3> QED
      BY <2>3, <3>1, SignalStep DEF Terminate, Interrupt, RequestExit, Suspend, Resume, MayCall
  <2>4. CASE Destroy(o)
    <3>1. ~PidReuse
      BY <2>4 DEF AskingOnly, Asking, Destroy, MayCall
    <3> QED
      BY <2>4, <3>1, DestroyStep
  <2> QED
    BY <1>1, <2>1, <2>2, <2>3, <2>4, WaitReturnsStep, DestroyKillStep, DestroyReapStep,
       DetachStep, ChildStep
<1>2. ASSUME NEW w \in Waits,
             \/ AsyncWait(w) \/ Arm(w) \/ Handler(w) \/ UnblockHandler(w) \/ CancelWait(w)
             \/ DescriptorReady(w)
      PROVE  KernelMoves /\ Rest'
  BY <1>2, AsyncWaitStep, ArmStep, HandlerStep, UnblockStep, CancelStep, DescriptorStep
<1>3. UNCHANGED vars => KernelMoves /\ Rest'
  BY MovingStep, SameOpsMove DEF vars, waitVars, kernelVars
<1> QED
  BY <1>1, <1>2, <1>3, CatchStep, DeliverStep DEF Next

LEMMA StepIInv ==
  ASSUME AskingOnly, IInv, TypeOK', [Next]_vars
  PROVE  IInv'
<1>1. KernelMoves /\ Rest'
  BY StepMoves
<1>2. KernelSane' /\ HeldPidsDiffer' /\ (~PidReuse => PidsDistinct')
  BY <1>1, KernelStep, DistinctStep, TypedKernel DEF IInv, KernelMoves
<1> QED
  BY <1>1, <1>2 DEF IInv, Rest

LEMMA Invariance ==
  ASSUME AskingOnly
  PROVE  Spec => []IInv
<1>1. TypeInv /\ IInv /\ [Next]_vars => IInv'
  BY TypeStep, StepIInv DEF TypeInv
<1> QED
  BY <1>1, TypeInit, TypeStep, InitIInv, PTL DEF Spec

(***************************************************************************)
(* An object signals and reaps no child but its own, however its callers,  *)
(* its waits and the children interleave.  On a kernel that reuses pids    *)
(* this is so for running(), wait(), detach() and all asynchronous waits   *)
(* and their cancellation: they ask the kernel only while exit_status_ is  *)
(* unknown, and then the child still holds its pid.                        *)
(***************************************************************************)
THEOREM OnlyOwnChildHolds ==
  ASSUME AskingOnly
  PROVE  Spec => []OnlyOwnChild
<1>1. IInv => OnlyOwnChild
  BY DEF IInv, OnlyOwnChild
<1> QED
  BY <1>1, Invariance, PTL

(***************************************************************************)
(* The final exit status of an object that owns its child is that child's, *)
(* which has been reaped: running(), wait(), terminate() and the handlers  *)
(* of async_wait agree, whichever of them reaped the child.                *)
(***************************************************************************)
THEOREM ExitStatusTruthfulHolds ==
  ASSUME AskingOnly
  PROVE  Spec => []ExitStatusTruthful
<1>1. IInv => ExitStatusTruthful
  BY DEF IInv, Ownership, ExitStatusTruthful
<1> QED
  BY <1>1, Invariance, PTL

(***************************************************************************)
(* The code an asynchronous wait delivers without error is that of its     *)
(* child, with any number of waits on one object.                          *)
(***************************************************************************)
THEOREM CompletionTruthfulHolds ==
  ASSUME AskingOnly
  PROVE  Spec => []CompletionTruthful
<1>1. IInv => CompletionTruthful
  BY DEF IInv, Operation, CompletionTruthful
<1> QED
  BY <1>1, Invariance, PTL

(***************************************************************************)
(* No call and no asynchronous wait reports ECHILD: a child is not reaped  *)
(* behind the back of the object that waits for it.                        *)
(***************************************************************************)
THEOREM ChildIsFoundHolds ==
  ASSUME AskingOnly
  PROVE  Spec => []ChildIsFound
<1>1. IInv => ChildIsFound
  BY DEF IInv, Ownership, Operation, ChildIsFound
<1> QED
  BY <1>1, Invariance, PTL

-------------------------------------------------------------------------------
(***************************************************************************)
(* Children do not come back, and only a step of a child ends it.          *)
(***************************************************************************)
LEMMA StaysTerminated ==
  ASSUME TypeOK, KernelMoves, NEW o \in Procs, Terminated(o)
  PROVE  Terminated(o)' /\ status'[o] = status[o]
<1> USE DEF TypeOK, KernelTypeOK, Terminated
<1>1. CASE Shifted
  BY <1>1 DEF Shifted, Living
<1>2. ASSUME NEW q \in Procs, Collected(q) \/ Ended(q) \/ Born(q)
      PROVE  Terminated(o)' /\ status'[o] = status[o]
  BY <1>2 DEF Collected, Ended, Born, Living
<1> QED
  BY <1>1, <1>2 DEF KernelMoves

NoNewZombie == \A q \in Procs : st'[q] = "zombie" => st[q] = "zombie"

LEMMA KernelCalls ==
  ASSUME TypeOK,
         \/ UNCHANGED st
         \/ \E p : Reap(p)
         \/ \E p, s, c : Kill(p, s, c)
         \/ \E q \in Procs, p \in Pids : Fork(q, p)
  PROVE  NoNewZombie
BY DEF NoNewZombie, TypeOK, KernelTypeOK, Reap, Kill, Fork

LEMMA OnlyChildrenEnd ==
  ASSUME IInv, KernelMoves, [Next]_vars, \A o \in Procs : ~Child(o)
  PROVE  \A q \in Procs : Terminated(q)' => Terminated(q)
<1>1. TypeOK
  BY DEF IInv
<1>2. NoNewZombie
  <2>1. ASSUME NEW o \in Procs,
               \/ LaunchFork(o) \/ Construct(o)
               \/ Running(o) \/ Wait(o) \/ WaitReturns(o)
               \/ Terminate(o) \/ Interrupt(o) \/ RequestExit(o) \/ Suspend(o) \/ Resume(o)
               \/ Destroy(o) \/ DestroyKill(o) \/ DestroyReap(o) \/ Detach(o)
        PROVE  NoNewZombie
    BY <1>1, <2>1, KernelCalls
    DEF LaunchFork, Construct, Running, Wait, Poll, StoreStatus, WaitReturns, Terminate, Interrupt,
        RequestExit, Suspend, Resume, Signal, Destroy, DestroyKill, DestroyReap, Detach, kernelVars
  <2>2. ASSUME NEW w \in Waits,
               \/ AsyncWait(w) \/ Arm(w) \/ Handler(w) \/ UnblockHandler(w) \/ CancelWait(w)
               \/ DescriptorReady(w)
        PROVE  NoNewZombie
    BY <1>1, <2>2, KernelCalls
    DEF AsyncWait, StartInSignalSet, Arm, Handler, UnblockHandler, CancelWait, DescriptorReady,
        PollBody, NothingToPoll, StoreStatus, TrustDescriptor, WaitedFor, Keep, kernelVars
  <2> QED
    BY <1>1, <2>1, <2>2, KernelCalls DEF Next, vars, kernelVars, CatchSigchld, DeliverSigchld
<1> QED
  BY <1>1, <1>2 DEF KernelMoves, NoNewZombie, Shifted, Collected, Ended, Born, Terminated, Living, TypeOK, KernelTypeOK

-------------------------------------------------------------------------------
(***************************************************************************)
(* An operation in the signal_set, or about to be, is not forgotten.  A    *)
(* lone thread delivers no signal while one is about to be.                *)
(***************************************************************************)
Heard == sigchld \/ sigpipe
OnSignal(w) == ~OnDescriptor /\ phase[w] \in {"arming", "armed"}
Coming == \A w \in Waits : OnSignal(w) /\ Terminated(WaitOn[w]) => Heard

LEMMA ComingFrame ==
  ASSUME Coming, Heard => Heard', \A w \in Waits : OnSignal(w)' => OnSignal(w),
         \A q \in Procs : Terminated(q)' => Terminated(q)
  PROVE  Coming'
BY BasicProcessAssumption DEF Coming

LEMMA ComingChild ==
  ASSUME IInv, Coming, NEW o \in Procs, Child(o)
  PROVE  Coming'
<1>1. sigchld' = (sigchld \/ Caught) \/ UNCHANGED <<st, sigchld>>
  BY DEF Child, ChildExit, DieOfSignal, IgnoreSignal, Terminates
<1>2. UNCHANGED <<phase, sigpipe>>
  BY DEF Child, waitVars, opVars
<1>3. ASSUME NEW w \in Waits, OnSignal(w) PROVE Caught
  <2>1. Exists(WaitOn[w]) /\ WaitOn[w] \in Procs
    BY <1>3, BasicProcessAssumption DEF IInv, Operation, OnSignal, Pending
  <2>2. HasSignalSet
    BY <1>3 DEF OnSignal, OnDescriptor, HasSignalSet
  <2> QED
    BY <2>1, <2>2 DEF Caught
<1>4. \A w \in Waits : OnSignal(w)' => OnSignal(w)
  BY <1>2 DEF OnSignal, OnDescriptor
<1>5. CASE UNCHANGED <<st, sigchld>>
  BY <1>2, <1>4, <1>5, ComingFrame DEF Terminated, Heard
<1>6. ASSUME sigchld' = (sigchld \/ Caught), NEW w \in Waits, OnSignal(w)' PROVE Heard'
  <2>1. Caught
    BY <1>3, <1>4, <1>6
  <2> QED
    BY <1>6, <2>1 DEF Heard
<1> QED
  BY <1>1, <1>5, <1>6 DEF Coming

\* An operation begins to wait only after a poll that found its child alive.
LEMMA ArmsWhileAlive ==
  ASSUME IInv, NEW w \in Waits, AsyncWait(w) \/ Handler(w), ~OnDescriptor
  PROVE  /\ \A v \in Waits \ {w} : phase'[v] \in {"arming", "armed"} => phase'[v] = phase[v]
         /\ phase'[w] \in {"arming", "armed"} => UNCHANGED st /\ ~Terminated(WaitOn[w])
<1> DEFINE o == WaitOn[w]
<1>1. /\ TypeOK /\ o \in Procs /\ Operation(w)
      /\ phase \in [Waits -> {"none", "ready", "arming", "armed", "blocking", "done"}]
  BY BasicProcessAssumption DEF IInv, TypeOK, OpTypeOK
<1>2. Exists(o) /\ (phase[w] = "ready" => wpid[w] \in {-1, pid[o]})
  BY <1>1, UsableWaits DEF AsyncWait, Handler, Operation, Pending
<1>3. ASSUME NEW p \in {-1, pid[o]}, ChildAlive(p), ~Final(o) PROVE ~Terminated(o)
  <2>1. st[o] # "reaped"
    BY <1>1, <1>2, <1>3 DEF IInv, Ownership
  <2>2. st[o] \in Living
    BY <1>1, <1>2, <1>3, <2>1, OwnChild, OwnHandle DEF IInv
  <2> QED
    BY <2>2 DEF Living, Terminated
<1>4. ASSUME NEW p \in {-1, pid[o]}, NEW e, PollBody(w, p, e)
      PROVE  /\ \A v \in Waits \ {w} : phase'[v] = phase[v]
             /\ phase'[w] # "done" => UNCHANGED st /\ ~Terminated(o)
  <2>1. \/ \E f, s : Finish(w, f, s)
        \/ WaitsAgain(w, p) /\ Keep /\ ChildAlive(p) /\ ~Final(o)
    BY <1>4 DEF PollBody, MayPoll, Final, NothingToPoll, StillAlive
  <2>2. ASSUME NEW f, NEW s, Finish(w, f, s)
        PROVE  phase'[w] = "done" /\ \A v \in Waits \ {w} : phase'[v] = phase[v]
    BY <1>1, <2>2 DEF Finish, Completes
  <2>3. CASE WaitsAgain(w, p) /\ Keep /\ ChildAlive(p) /\ ~Final(o)
    BY <1>1, <1>3, <2>3 DEF WaitsAgain, Keep, kernelVars
  <2> QED
    BY <2>1, <2>2, <2>3
<1>5. CASE AsyncWait(w)
  <2>1. hpid[o] \in {-1, pid[o]}
    BY <1>1, <1>2, OwnHandle
  <2>2. CASE Finish(w, "ok", exit_status[o])
    BY <1>1, <2>2 DEF Finish, Completes
  <2>3. CASE StartInSignalSet(w)
    BY <1>1, <2>3 DEF StartInSignalSet
  <2>4. CASE PollBody(w, hpid[o], "ok")
    BY <1>1, <1>4, <2>1, <2>4
  <2> QED
    BY <1>5, <2>2, <2>3, <2>4 DEF AsyncWait
<1>6. CASE Handler(w)
  <2>1. Variant # "fd" /\ wpid[w] \in {-1, pid[o]}
    BY <1>2, <1>6 DEF Handler, OnDescriptor
  <2>2. PollBody(w, wpid[w], OwnError(w))
    BY <1>6, <2>1 DEF Handler
  <2> QED
    BY <1>4, <2>1, <2>2
<1> QED
  BY <1>5, <1>6

LEMMA ComingStep ==
  ASSUME AskingOnly, OneThread, IInv, Coming, [Next]_vars
  PROVE  Coming'
<1>1. /\ TypeOK /\ KernelMoves
      /\ phase \in [Waits -> {"none", "ready", "arming", "armed", "blocking", "done"}]
  BY StepMoves DEF IInv, TypeOK, OpTypeOK
<1>2. CASE \E o \in Procs : Child(o)
  BY <1>2, ComingChild
<1> SUFFICES ASSUME \A o \in Procs : ~Child(o) PROVE Coming'
  BY <1>2
<1>3. \A q \in Procs : Terminated(q)' => Terminated(q)
  BY <1>1, OnlyChildrenEnd
<1>4. ASSUME NEW o \in Procs,
             \/ LaunchFork(o) \/ Construct(o)
             \/ Running(o) \/ Wait(o) \/ WaitReturns(o)
             \/ Terminate(o) \/ Interrupt(o) \/ RequestExit(o) \/ Suspend(o) \/ Resume(o)
             \/ Destroy(o) \/ DestroyKill(o) \/ DestroyReap(o) \/ Detach(o)
      PROVE  Coming'
  <2>1. Heard => Heard'
    BY <1>4
    DEF LaunchFork, Fork, Construct, Running, Wait, Poll, StoreStatus, WaitReturns, Terminate,
        Interrupt, RequestExit, Suspend, Resume, Signal, Destroy, DestroyKill, DestroyReap, Detach,
        Reap, Kill, kernelVars, waitVars, Heard
  <2>2. \A w \in Waits : OnSignal(w)' => OnSignal(w)
    BY <1>1, <1>4
    DEF LaunchFork, Construct, Running, Wait, Poll, WaitReturns, Terminate, Interrupt, RequestExit,
        Suspend, Resume, Signal, Destroy, DestroyKill, DestroyReap, Detach, Queue, opVars,
        waitVars, OnSignal, OnDescriptor
  <2> QED
    BY <1>3, <2>1, <2>2, ComingFrame
<1>5. ASSUME NEW w \in Waits, Arm(w) \/ UnblockHandler(w) \/ CancelWait(w) \/ DescriptorReady(w)
      PROVE  Coming'
  <2>1. Heard => Heard'
    BY <1>5 DEF Arm, UnblockHandler, WaitedFor, CancelWait, DescriptorReady, StoreStatus, Reap,
                Keep, kernelVars, Heard
  <2>2. \A v \in Waits : OnSignal(v)' => OnSignal(v)
    BY <1>1, <1>5
    DEF Arm, UnblockHandler, WaitedFor, CancelWait, DescriptorReady, Finish, Completes, Queue,
        OnSignal, OnDescriptor
  <2> QED
    BY <1>3, <2>1, <2>2, ComingFrame
<1>6. ASSUME NEW w \in Waits, AsyncWait(w) \/ Handler(w)
      PROVE  Coming'
  <2>1. Heard => Heard'
    BY <1>6
    DEF AsyncWait, StartInSignalSet, Handler, PollBody, NothingToPoll, StoreStatus, TrustDescriptor,
        WaitedFor, Reap, Keep, kernelVars, Heard
  <2>2. ASSUME ~OnDescriptor
        PROVE  \A v \in Waits : OnSignal(v)' /\ Terminated(WaitOn[v])' => OnSignal(v)
    BY <1>1, <1>6, <2>2, ArmsWhileAlive DEF OnSignal, OnDescriptor, Terminated
  <2>3. ASSUME OnDescriptor PROVE Coming'
    BY <2>3 DEF Coming, OnSignal, OnDescriptor
  <2> QED
    BY <1>3, <2>1, <2>2, <2>3, BasicProcessAssumption DEF Coming
<1>7. CASE CatchSigchld
  BY <1>3, <1>7, ComingFrame DEF CatchSigchld, Heard, OnSignal, OnDescriptor, opVars
<1>8. CASE DeliverSigchld
  <2>1. \A w \in Waits : ~OnSignal(w)'
    BY <1>1, <1>8 DEF DeliverSigchld, Queue, InSignalSet, Armed, OnSignal, OnDescriptor
  <2> QED
    BY <2>1 DEF Coming
<1>9. CASE UNCHANGED vars
  BY <1>3, <1>9, ComingFrame
  DEF vars, kernelVars, waitVars, opVars, Heard, OnSignal, OnDescriptor
<1> QED
  BY <1>4, <1>5, <1>6, <1>7, <1>8, <1>9 DEF Next

(***************************************************************************)
(* With one thread no asynchronous wait is left without a signal: for any  *)
(* number of objects and waits, and also for waits that relied on an       *)
(* aborted sibling or on a signal kept for later.                          *)
(***************************************************************************)
THEOREM NoLostWakeupHolds ==
  ASSUME AskingOnly, OneThread
  PROVE  Spec => []NoLostWakeup
<1>1. Init => Coming
  BY BasicProcessAssumption DEF Init, KernelInit, Coming, Terminated
<1>2. IInv /\ Coming /\ [Next]_vars => Coming'
  BY ComingStep
<1>3. Coming => NoLostWakeup
  BY DEF Coming, NoLostWakeup, Heard, OnSignal, Armed
<1> QED
  BY <1>1, <1>2, <1>3, Invariance, PTL DEF Spec
-------------------------------------------------------------------------------
(***************************************************************************)
(* A pidfd reads ready when its child has terminated, and not before: the  *)
(* handler of the _fd operation finds a zombie, or a child that another    *)
(* call has reaped and whose status is known.                              *)
(***************************************************************************)
Woken(w) == phase[w] = "ready" /\ err[w] = "ok"
Unblocked == \A w \in Waits : phase[w] # "blocking" /\ (Woken(w) => Terminated(WaitOn[w]))

\* What an _fd operation with a pidfd becomes in a step.
LEMMA WokenStep ==
  ASSUME Variant = "fd", Descriptor = "pidfd", IInv, Unblocked, [Next]_vars, NEW w \in Waits
  PROVE  phase'[w] # "blocking" /\ (Woken(w)' => Woken(w) \/ Terminated(WaitOn[w]))
<1> DEFINE Good(v) == phase'[v] # "blocking" /\ (Woken(v)' => Woken(v) \/ Terminated(WaitOn[v]))
<1>1. /\ phase \in [Waits -> {"none", "ready", "arming", "armed", "blocking", "done"}]
      /\ err \in [Waits -> {"ok", "ECHILD", "EBADF", "ECANCELED"}]
      /\ OnDescriptor /\ phase[w] # "blocking"
  BY DEF IInv, TypeOK, OpTypeOK, OnDescriptor, Unblocked
<1>2. UNCHANGED opVars => Good(w)
  BY <1>1 DEF opVars, Woken
<1>3. ASSUME NEW o \in Procs,
             \/ LaunchFork(o) \/ Construct(o)
             \/ Running(o) \/ Wait(o) \/ WaitReturns(o)
             \/ Terminate(o) \/ Interrupt(o) \/ RequestExit(o) \/ Suspend(o) \/ Resume(o)
             \/ Destroy(o) \/ DestroyKill(o) \/ DestroyReap(o)
             \/ Child(o)
      PROVE  Good(w)
  <2>1. UNCHANGED opVars
    BY <1>3
    DEF LaunchFork, Construct, Running, Wait, Poll, WaitReturns, Terminate, Interrupt, RequestExit,
        Suspend, Resume, Signal, Destroy, DestroyKill, DestroyReap, Child, waitVars
  <2> QED
    BY <1>2, <2>1
<1>4. ASSUME NEW o \in Procs, Detach(o) PROVE Good(w)
  BY <1>1, <1>4 DEF Detach, Queue, Woken
<1>5. ASSUME NEW v, NEW f, NEW s, Finish(v, f, s) PROVE Good(w)
  BY <1>1, <1>5 DEF Finish, Completes, Woken
<1>6. ASSUME NEW v \in Waits, NEW p, NEW e, PollBody(v, p, e) PROVE Good(w)
  <2>1. ASSUME WaitsAgain(v, p) PROVE Good(w)
    BY <1>1, <2>1 DEF WaitsAgain, Woken
  <2> QED
    BY <1>5, <1>6, <2>1 DEF PollBody, NothingToPoll, StillAlive
<1>7. ASSUME NEW v \in Waits, AsyncWait(v) PROVE Good(w)
  BY <1>5, <1>6, <1>7 DEF AsyncWait
<1>8. ASSUME NEW v \in Waits, Arm(v) \/ CancelWait(v) PROVE Good(w)
  BY <1>1, <1>8 DEF Arm, CancelWait, Suspended, Armed, Woken
<1>9. ASSUME NEW v \in Waits, Handler(v) PROVE Good(w)
  <2> DEFINE o == WaitOn[v]
  <2>1. ~(Trusts(v) /\ ChildAlive(wpid[v]))
    <3>1. SUFFICES ASSUME Trusts(v), ChildAlive(wpid[v]) PROVE FALSE
      OBVIOUS
    <3>2. /\ o \in Procs /\ Operation(v) /\ phase[v] = "ready" /\ Terminated(o)
          /\ Ownership(o) /\ Exists(o) /\ ~Final(o)
      BY <1>9, <3>1, BasicProcessAssumption
      DEF IInv, Handler, Trusts, Unblocked, Woken, Final, Usable
    <3>3. wpid[v] = pid[o]
      BY <3>2 DEF Operation, Pending
    <3>4. st[o] \in Living
      BY <3>1, <3>2, <3>3, OwnChild DEF IInv, Ownership, Terminated
    <3> QED
      BY <3>2, <3>4 DEF Terminated, Living
  <2> QED
    BY <1>5, <1>9, <2>1 DEF Handler, TrustDescriptor, NothingToPoll, WaitedFor
<1>10. ASSUME NEW v \in Waits, UnblockHandler(v) PROVE Good(w)
  BY <1>10 DEF UnblockHandler, Unblocked
<1>11. ASSUME NEW v \in Waits, DescriptorReady(v) PROVE Good(w)
  BY <1>1, <1>11 DEF DescriptorReady, Queue, Woken
<1>12. CASE CatchSigchld
  BY <1>2, <1>12 DEF CatchSigchld
<1>13. CASE DeliverSigchld
  BY <1>1, <1>13 DEF DeliverSigchld, InSignalSet, Queue, Woken
<1>14. CASE UNCHANGED vars
  BY <1>2, <1>14 DEF vars, waitVars
<1> QED
  BY <1>3, <1>4, <1>7, <1>8, <1>9, <1>10, <1>11, <1>12, <1>13, <1>14 DEF Next

LEMMA UnblockedStep ==
  ASSUME AskingOnly, Variant = "fd", Descriptor = "pidfd", IInv, Unblocked, [Next]_vars
  PROVE  Unblocked'
<1>1. TypeOK /\ KernelMoves
  BY StepMoves DEF IInv
<1>2. \A o \in Procs : Terminated(o) => Terminated(o)'
  BY <1>1, StaysTerminated
<1> QED
  BY <1>2, WokenStep, BasicProcessAssumption DEF Unblocked

\* Only the handler of the _fd operation waits without WNOHANG.
LEMMA NobodyBlocks ==
  ASSUME Variant # "fd", IInv, HandlerNeverBlocks, [Next]_vars
  PROVE  HandlerNeverBlocks'
<1> USE DEF HandlerNeverBlocks
<1>1. phase \in [Waits -> {"none", "ready", "arming", "armed", "blocking", "done"}]
  BY DEF IInv, TypeOK, OpTypeOK
<1>2. UNCHANGED opVars => HandlerNeverBlocks'
  BY DEF opVars
<1>3. ASSUME NEW o \in Procs,
             \/ LaunchFork(o) \/ Construct(o)
             \/ Running(o) \/ Wait(o) \/ WaitReturns(o)
             \/ Terminate(o) \/ Interrupt(o) \/ RequestExit(o) \/ Suspend(o) \/ Resume(o)
             \/ Destroy(o) \/ DestroyKill(o) \/ DestroyReap(o)
             \/ Child(o)
      PROVE  HandlerNeverBlocks'
  <2>1. UNCHANGED opVars
    BY <1>3
    DEF LaunchFork, Construct, Running, Wait, Poll, WaitReturns, Terminate, Interrupt, RequestExit,
        Suspend, Resume, Signal, Destroy, DestroyKill, DestroyReap, Child, waitVars
  <2> QED
    BY <1>2, <2>1
<1>4. ASSUME NEW v \in Waits, NEW p, NEW e, PollBody(v, p, e) PROVE HandlerNeverBlocks'
  BY <1>1, <1>4 DEF PollBody, NothingToPoll, StillAlive, Finish, Completes, WaitsAgain
<1>5. ASSUME NEW o \in Procs, Detach(o) PROVE HandlerNeverBlocks'
  BY <1>1, <1>2, <1>5 DEF Detach, Queue
<1>6. ASSUME NEW v \in Waits, AsyncWait(v) PROVE HandlerNeverBlocks'
  BY <1>1, <1>4, <1>6 DEF AsyncWait, StartInSignalSet, Finish, Completes
<1>7. ASSUME NEW v \in Waits,
             Arm(v) \/ CancelWait(v) \/ DescriptorReady(v) \/ Handler(v) \/ UnblockHandler(v)
      PROVE  HandlerNeverBlocks'
  BY <1>1, <1>4, <1>7 DEF Arm, CancelWait, DescriptorReady, Handler, UnblockHandler, Queue
<1> QED
  BY <1>1, <1>2, <1>3, <1>5, <1>6, <1>7
  DEF Next, CatchSigchld, DeliverSigchld, Queue, vars, waitVars

(***************************************************************************)
(* With a pidfd, or with the signal_set, no handler blocks the io_context: *)
(* a handler that waits without WNOHANG finds its child dead.              *)
(***************************************************************************)
THEOREM HandlerNeverBlocksHolds ==
  ASSUME AskingOnly, Variant = "fd" => Descriptor = "pidfd"
  PROVE  Spec => []HandlerNeverBlocks
<1>1. Init => Unblocked /\ HandlerNeverBlocks
  BY DEF Init, Unblocked, Woken, HandlerNeverBlocks
<1>2. Unblocked => HandlerNeverBlocks
  BY DEF Unblocked, HandlerNeverBlocks
<1>3. CASE Variant = "fd"
  <2>1. IInv /\ Unblocked /\ [Next]_vars => Unblocked'
    BY <1>3, UnblockedStep
  <2> QED
    BY <1>1, <1>2, <2>1, Invariance, PTL DEF Spec
<1>4. CASE Variant # "fd"
  <2>1. IInv /\ HandlerNeverBlocks /\ [Next]_vars => HandlerNeverBlocks'
    BY <1>4, NobodyBlocks
  <2> QED
    BY <1>1, <2>1, Invariance, PTL DEF Spec
<1> QED
  BY <1>3, <1>4

-------------------------------------------------------------------------------
(***************************************************************************)
(* Without a signal_set in the process the waitpid of the destructor is    *)
(* not interrupted.                                                        *)
(***************************************************************************)
Quiet == Variant = "fd" => ~sigchld

LEMMA QuietStep ==
  ASSUME Quiet, [Next]_vars
  PROVE  Quiet'
<1> SUFFICES ASSUME Variant = "fd", ~sigchld PROVE ~sigchld'
  BY DEF Quiet
<1>1. ~Caught
  BY DEF Caught, HasSignalSet
<1>2. UNCHANGED sigchld => ~sigchld'
  OBVIOUS
<1>3. ASSUME NEW p, NEW s, Kill(p, s, Caught) PROVE ~sigchld'
  BY <1>1, <1>3 DEF Kill
<1>4. ASSUME NEW o, NEW s, Terminates(o, s, Caught) PROVE ~sigchld'
  BY <1>1, <1>4 DEF Terminates
<1>5. ASSUME NEW o \in Procs,
             \/ LaunchFork(o) \/ Construct(o)
             \/ Running(o) \/ Wait(o) \/ WaitReturns(o)
             \/ Terminate(o) \/ Interrupt(o) \/ RequestExit(o) \/ Suspend(o) \/ Resume(o)
             \/ Destroy(o) \/ DestroyKill(o) \/ DestroyReap(o) \/ Detach(o)
             \/ Child(o)
      PROVE  ~sigchld'
  BY <1>2, <1>3, <1>4, <1>5
  DEF LaunchFork, Fork, Construct, Running, Wait, Poll, StoreStatus, WaitReturns, Terminate,
      Interrupt, RequestExit, Suspend, Resume, Signal, Destroy, DestroyKill, DestroyReap, Detach,
      Child, ChildExit, DieOfSignal, IgnoreSignal, Reap, kernelVars
<1>6. ASSUME NEW w \in Waits,
             \/ AsyncWait(w) \/ Arm(w) \/ Handler(w) \/ UnblockHandler(w) \/ CancelWait(w)
             \/ DescriptorReady(w)
      PROVE  ~sigchld'
  BY <1>2, <1>6
  DEF AsyncWait, StartInSignalSet, Arm, Handler, UnblockHandler, CancelWait, DescriptorReady,
      PollBody, NothingToPoll, StoreStatus, TrustDescriptor, WaitedFor, Reap, Keep, kernelVars
<1>7. CASE CatchSigchld \/ DeliverSigchld
  BY <1>2, <1>7 DEF CatchSigchld, DeliverSigchld, kernelVars
<1> QED
  BY <1>2, <1>5, <1>6, <1>7 DEF Next, vars, kernelVars

\* What an object is when a step begins that destroys it.
LEMMA DestroyedBy ==
  ASSUME TypeOK, Quiet, Variant = "fd", [Next]_vars, NEW o \in Procs,
         obj[o] = "open", obj'[o] = "destroyed"
  PROVE  Reap(hpid[o]) /\ ~ChildAlive(hpid[o])
<1> DEFINE Moves(q, l) == obj' = [obj EXCEPT ![q] = l]
<1>1. obj \in [Procs -> {"absent", "open", "detached", "destroyed"}]
  BY DEF TypeOK, ProcTypeOK
<1>2. ASSUME NEW q \in Procs, NEW l, Moves(q, l) PROVE q = o /\ l = "destroyed"
  BY <1>1, <1>2
<1>3. obj' # obj
  OBVIOUS
<1> HIDE DEF Moves
<1>4. ASSUME NEW q \in Procs, Destroy(q) \/ DestroyReap(q)
      PROVE  Reap(hpid[o]) /\ ~ChildAlive(hpid[o])
  BY <1>2, <1>3, <1>4 DEF Destroy, DestroyReap, Gone, Moves
<1>5. ~CatchSigchld
  BY DEF Quiet, CatchSigchld
<1>6. ASSUME NEW q \in Procs, Construct(q) \/ Detach(q) PROVE FALSE
  BY <1>2, <1>6 DEF Construct, Detach, Moves
<1>7. ASSUME NEW q \in Procs,
             \/ LaunchFork(q) \/ Running(q) \/ Wait(q) \/ WaitReturns(q)
             \/ Terminate(q) \/ Interrupt(q) \/ RequestExit(q) \/ Suspend(q) \/ Resume(q)
             \/ DestroyKill(q) \/ Child(q)
      PROVE  FALSE
  BY <1>3, <1>7
  DEF LaunchFork, Running, Wait, Poll, WaitReturns, Terminate, Interrupt, RequestExit, Suspend,
      Resume, Signal, DestroyKill, Child, procVars
<1>8. ASSUME NEW w \in Waits,
             \/ AsyncWait(w) \/ Arm(w) \/ Handler(w) \/ UnblockHandler(w) \/ CancelWait(w)
             \/ DescriptorReady(w)
      PROVE  FALSE
  BY <1>3, <1>8
  DEF AsyncWait, Arm, Handler, UnblockHandler, CancelWait, DescriptorReady, procVars
<1> QED
  BY <1>3, <1>4, <1>5, <1>6, <1>7, <1>8 DEF Next, DeliverSigchld, vars, procVars

(***************************************************************************)
(* The destructor of an object that was not detached reaps its child,      *)
(* which it kills first if it must, in any process without a SIGCHLD       *)
(* handler.                                                                *)
(***************************************************************************)
THEOREM DestroyReapsHolds ==
  ASSUME ~PidReuse, Variant = "fd"
  PROVE  Spec => DestroyReaps
<1>0. AskingOnly
  BY DEF AskingOnly
<1> DEFINE Reaps == \A o \in Procs : obj[o] = "open" /\ obj'[o] = "destroyed" => st'[o] = "reaped"
<1>1. Init => Quiet
  BY DEF Init, KernelInit, Quiet
<1>2. Quiet /\ [Next]_vars => Quiet'
  BY QuietStep
<1>3. IInv /\ Quiet /\ [Next]_vars => Reaps
  <2> SUFFICES ASSUME IInv, Quiet, [Next]_vars, NEW o \in Procs,
                      obj[o] = "open", obj'[o] = "destroyed"
               PROVE  st'[o] = "reaped"
    OBVIOUS
  <2>1. Reap(hpid[o]) /\ ~ChildAlive(hpid[o])
    BY DestroyedBy DEF IInv
  <2>2. hpid[o] = pid[o] /\ st[o] # "unborn"
    BY DEF IInv, Ownership
  <2>3. CASE ChildZombie(hpid[o])
    <3>1. Collected(o)
      BY <2>1, <2>2, <2>3, OwnReap, TypedKernel DEF IInv
    <3> QED
      BY <3>1 DEF Collected, IInv, TypeOK, KernelTypeOK
  <2>4. CASE ~ChildZombie(hpid[o])
    <3>1. st[o] = "reaped"
      BY <2>1, <2>2, <2>4, OwnChild, Lives, TypedKernel DEF IInv, Living
    <3> QED
      BY <2>1, <3>1 DEF Reap
  <2> QED
    BY <2>3, <2>4
<1>4. IInv /\ Quiet /\ [Next]_vars => [Reaps]_vars
  BY <1>3
<1> QED
  BY <1>0, <1>1, <1>2, <1>4, Invariance, PTL DEF Spec, DestroyReaps

-------------------------------------------------------------------------------
(***************************************************************************)
(* What the refinement needs besides: a child that lives has no status, an *)
(* operation without a pid is one on an object that has let go, and an     *)
(* operation under way has an error only for a reason: the _signal handle  *)
(* aborted it to get onto its executor, its caller cancelled it, or its    *)
(* object has let go.                                                      *)
(***************************************************************************)
Released(o) == obj[o] \in {"detached", "destroyed"}

Excused(w) ==
  err[w] = "ok" \/ (err[w] = "ECANCELED" /\ (Variant = "signal" \/ cancelled[w] \/ Released(WaitOn[w])))

Promise ==
  /\ \A o \in Procs : ~Terminated(o) => status[o] = still_active
  /\ \A w \in Waits : Pending(w) /\ wpid[w] = -1 => Released(WaitOn[w])
  /\ \A w \in Waits : phase[w] # "done" => Excused(w)

\* What a step does to the request that operation w stands for.
Stays(w) ==
  /\ wpid'[w] = wpid[w]
  /\ \/ phase'[w] = phase[w] /\ err'[w] = err[w] /\ code'[w] = code[w]
     \/ Pending(w) /\ Pending(w)' /\ Excused(w)'

Asked(w) ==
  phase[w] = "none" /\ Pending(w)' /\ Excused(w)' /\ (wpid'[w] = -1 => Released(WaitOn[w]))

Over(w) == phase[w] # "done" /\ phase'[w] = "done"

Answered(w) ==
  /\ Over(w) /\ err'[w] = "ok"
  /\ \/ status[WaitOn[w]] # still_active /\ code'[w] = evaluate_exit_code(status[WaitOn[w]])
     \/ /\ Released(WaitOn[w])
        /\ \E s \in FinalStatus \cup {0} : code'[w] = evaluate_exit_code(s)

Failed(w) == Over(w) /\ err'[w] # "ok" /\ (cancelled[w] \/ Released(WaitOn[w]))

RequestStep(w) == Stays(w) \/ Asked(w) \/ Answered(w) \/ Failed(w)

LEMMA SameOpsStay == UNCHANGED opVars => \A w \in Waits : Stays(w)
BY DEF opVars, Stays

LEMMA QueueStays ==
  ASSUME TypeOK, Promise, NEW S, \A w \in S \cap Waits : Pending(w),
         NEW e, Queue(S, e), e = "ok" \/ (e = "ECANCELED" /\ \A w \in S \cap Waits : Released(WaitOn[w])'
                                                                         \/ Variant = "signal")
  PROVE  UNCHANGED cancelled /\ \A w \in Waits : Stays(w)
BY DEF Queue, Stays, Pending, Excused

LEMMA FinishEnds ==
  ASSUME TypeOK, NEW w \in Waits, NEW e, NEW s, Finish(w, e, s)
  PROVE  /\ UNCHANGED cancelled /\ \A v \in Waits \ {w} : Stays(v)
         /\ phase'[w] = "done" /\ err'[w] = e /\ code'[w] = evaluate_exit_code(s)
BY DEF TypeOK, OpTypeOK, Finish, Completes, Stays

\* A status an object may hold when it need not poll.
LEMMA FinishKnown ==
  ASSUME IInv, NEW w \in Waits, phase[w] # "done", Exists(WaitOn[w]), Final(WaitOn[w]),
         Finish(w, "ok", exit_status[WaitOn[w]])
  PROVE  Answered(w)
<1> DEFINE o == WaitOn[w]
<1>1. TypeOK /\ o \in Procs /\ Ownership(o) /\ KernelSane
  BY BasicProcessAssumption DEF IInv
<1>2. Over(w) /\ err'[w] = "ok" /\ code'[w] = evaluate_exit_code(exit_status[o])
  BY <1>1, FinishEnds DEF Over
<1>3. exit_status[o] \in FinalStatus \cup {0}
  BY <1>1, FinalStatusIsFinal DEF TypeOK, ProcTypeOK, Known, Final
<1>4. CASE obj[o] = "open"
  <2>1. exit_status[o] = status[o] /\ status[o] \in FinalStatus
    BY <1>1, <1>4 DEF Ownership, KernelSane, Terminated
  <2> QED
    BY <1>2, <2>1, FinalStatusIsFinal DEF Answered
<1>5. CASE Released(o)
  BY <1>2, <1>3, <1>5 DEF Answered
<1> QED
  BY <1>4, <1>5 DEF Exists, Released

\* The poll of an operation, entered with an error that its caller may see.
LEMMA PollBodyEnds ==
  ASSUME IInv, NEW w \in Waits, phase[w] # "done", Exists(WaitOn[w]),
         NEW p \in {-1, pid[WaitOn[w]]}, p = -1 => Released(WaitOn[w]),
         NEW e, e # "ok" => cancelled[w] \/ Released(WaitOn[w]),
         PollBody(w, p, e)
  PROVE  /\ UNCHANGED <<status, cancelled>> /\ \A v \in Waits \ {w} : Stays(v)
         /\ \/ Answered(w) \/ Failed(w)
            \/ WaitsAgain(w, p) /\ p # -1
<1> DEFINE o == WaitOn[w]
<1>1. TypeOK /\ o \in Procs /\ Ownership(o) /\ KernelSane /\ HeldPidsDiffer
  BY BasicProcessAssumption DEF IInv
<1>2. st[o] # "unborn" /\ pid[o] \in Nat /\ pid[o] > 0
  BY <1>1, OwnHandle, Lives, TypedKernel
<1>3. MayPoll(w, e) =>
        /\ ChildZombie(p) <=> p = pid[o] /\ st[o] = "zombie"
        /\ ChildAlive(p) <=> p = pid[o] /\ st[o] \in Living
        /\ ChildGone(p) <=> p = -1
        /\ st[o] # "reaped"
  BY <1>1, <1>2, OwnChild DEF MayPoll, Final, Ownership
<1>4. UNCHANGED status
  BY DEF PollBody, NothingToPoll, StoreStatus, Reap, Keep, kernelVars
<1>5. ASSUME NEW f, NEW s, Finish(w, f, s), f # "ok", cancelled[w] \/ Released(o)
      PROVE  UNCHANGED cancelled /\ (\A v \in Waits \ {w} : Stays(v)) /\ Failed(w)
  BY <1>1, <1>5, FinishEnds DEF Failed, Over
<1>6. CASE p <= 0 /\ Finish(w, "EBADF", exit_status[o])
  <2>1. p = -1
    BY <1>2, <1>6
  <2> QED
    BY <1>4, <1>5, <1>6, <2>1
<1>7. CASE ~MayPoll(w, e) /\ NothingToPoll(w, e)
  <2>1. CASE e # "ok"
    BY <1>4, <1>5, <1>7, <2>1 DEF NothingToPoll
  <2>2. CASE e = "ok"
    <3>1. Final(o) /\ Finish(w, "ok", exit_status[o])
      BY <1>7, <2>2 DEF MayPoll, Final, NothingToPoll
    <3> QED
      BY <1>1, <1>4, <3>1, FinishKnown, FinishEnds
  <2> QED
    BY <2>1, <2>2
<1>8. ~(p > 0 /\ MayPoll(w, e) /\ ChildGone(p))
  BY <1>1, <1>3 DEF MayPoll, Ownership, Final
<1>9. CASE MayPoll(w, e) /\ ChildZombie(p) /\ StoreStatus(o, p) /\ Finish(w, e, StatusOf(p))
  <2>1. CASE e # "ok"
    BY <1>4, <1>5, <1>9, <2>1
  <2>2. CASE e = "ok"
    <3>1. StatusOf(p) = status[o] /\ status[o] \in FinalStatus
      <4>1. ~ChildAlive(p)
        BY <1>3, <1>9 DEF Living
      <4>2. StatusOf(p) = status[o]
        BY <1>1, <1>2, <1>3, <1>9, <4>1, OwnReap, TypedKernel DEF StoreStatus
      <4> QED
        BY <1>1, <1>3, <1>9, <4>2 DEF KernelSane, Terminated
    <3> QED
      BY <1>1, <1>4, <1>9, <2>2, <3>1, FinishEnds, FinalStatusIsFinal DEF Answered, Over
  <2> QED
    BY <2>1, <2>2
<1>10. CASE MayPoll(w, e) /\ ChildAlive(p) /\ StillAlive(w, p, e)
  <2>1. CASE e # "ok"
    BY <1>4, <1>5, <1>10, <2>1 DEF StillAlive
  <2>2. CASE e = "ok"
    BY <1>1, <1>2, <1>3, <1>4, <1>10, <2>2 DEF StillAlive, WaitsAgain, Stays, TypeOK, OpTypeOK
  <2> QED
    BY <2>1, <2>2
<1> QED
  BY <1>6, <1>7, <1>8, <1>9, <1>10 DEF PollBody

LEMMA AsyncWaitRequests ==
  ASSUME IInv, Promise, NEW w \in Waits, AsyncWait(w)
  PROVE  UNCHANGED <<status, cancelled, obj>> /\ RequestStep(w) /\ \A v \in Waits \ {w} : Stays(v)
<1> DEFINE o == WaitOn[w]
<1>1. /\ TypeOK /\ o \in Procs /\ Exists(o) /\ phase[w] = "none" /\ UNCHANGED obj
      /\ phase \in [Waits -> {"none", "ready", "arming", "armed", "blocking", "done"}]
      /\ wpid \in [Waits -> Pids \cup {-1}]
      /\ err \in [Waits -> {"ok", "ECHILD", "EBADF", "ECANCELED"}]
  BY BasicProcessAssumption DEF IInv, TypeOK, OpTypeOK, AsyncWait, Usable
<1>2. hpid[o] \in {-1, pid[o]} /\ (hpid[o] = -1 => Released(o))
  <2>1. /\ pid[o] \in Nat /\ hpid[o] \in {-1, pid[o]}
        /\ obj[o] = "open" => hpid[o] = pid[o]
    BY <1>1, OwnHandle, Lives, TypedKernel
  <2> QED
    BY <1>1, <2>1 DEF Exists, Released
<1>3. CASE Final(o) /\ Finish(w, "ok", exit_status[o]) /\ Keep
  BY <1>1, <1>3, FinishKnown, FinishEnds DEF RequestStep, Keep, kernelVars
<1>4. CASE PollBody(w, hpid[o], "ok")
  <2>1. /\ UNCHANGED <<status, cancelled>> /\ \A v \in Waits \ {w} : Stays(v)
        /\ Answered(w) \/ Failed(w) \/ (WaitsAgain(w, hpid[o]) /\ hpid[o] # -1)
    BY <1>1, <1>2, <1>4, PollBodyEnds
  <2>2. WaitsAgain(w, hpid[o]) /\ hpid[o] # -1 => Asked(w)
    BY <1>1 DEF WaitsAgain, Asked, Pending, Excused
  <2> QED
    BY <1>1, <2>1, <2>2 DEF RequestStep
<1>5. CASE StartInSignalSet(w) /\ Variant = "signal"
  <2>1. UNCHANGED <<status, cancelled>>
    BY <1>5 DEF StartInSignalSet, Keep, kernelVars
  <2>2. /\ phase'[w] = "ready" /\ err'[w] \in {err[w], "ECANCELED"} /\ wpid'[w] = hpid[o]
        /\ \A v \in Waits \ {w} :
             /\ wpid'[v] = wpid[v] /\ code'[v] = code[v]
             /\ \/ phase'[v] = phase[v] /\ err'[v] = err[v]
                \/ phase[v] = "armed" /\ phase'[v] = "ready" /\ err'[v] = "ECANCELED"
    BY <1>1, <1>5 DEF StartInSignalSet, ArmedOn, Armed
  <2>3. Asked(w)
    <3>1. Excused(w)
      BY <1>1 DEF Promise
    <3> QED
      BY <1>1, <1>2, <1>5, <2>2, <3>1 DEF Asked, Pending, Excused
  <2>4. ASSUME NEW v \in Waits \ {w} PROVE Stays(v)
    BY <1>5, <2>2, <2>4 DEF Stays, Pending, Excused
  <2> QED
    BY <1>1, <2>1, <2>3, <2>4 DEF RequestStep
<1> QED
  BY <1>3, <1>4, <1>5 DEF AsyncWait, Final

\* A waitpid without WNOHANG ends with the child.
LEMMA WaitedForAnswers ==
  ASSUME IInv, NEW w \in Waits, Pending(w), ~Final(WaitOn[w]), wpid[w] = pid[WaitOn[w]], WaitedFor(w)
  PROVE  UNCHANGED <<status, cancelled>> /\ RequestStep(w) /\ \A v \in Waits \ {w} : Stays(v)
<1> DEFINE o == WaitOn[w]
<1>1. TypeOK /\ o \in Procs /\ Ownership(o) /\ Operation(w) /\ KernelSane /\ HeldPidsDiffer
  BY BasicProcessAssumption DEF IInv
<1>2. Exists(o) /\ st[o] # "unborn" /\ st[o] # "reaped" /\ pid[o] \in Nat /\ pid[o] > 0
  BY <1>1, OwnHandle, Lives, TypedKernel DEF Operation, Ownership
<1>3. ~ChildGone(wpid[w])
  BY <1>1, <1>2, OwnChild
<1>4. ChildZombie(wpid[w]) /\ StoreStatus(o, wpid[w]) /\ Finish(w, "ok", StatusOf(wpid[w]))
  BY <1>3 DEF WaitedFor
<1>5. StatusOf(wpid[w]) = status[o] /\ status[o] \in FinalStatus
  <2>1. st[o] = "zombie" /\ ~ChildAlive(wpid[w])
    BY <1>1, <1>2, <1>4, OwnChild DEF Living
  <2>2. StatusOf(wpid[w]) = status[o]
    BY <1>1, <1>2, <1>4, <2>1, OwnReap, TypedKernel DEF StoreStatus
  <2> QED
    BY <1>1, <2>1, <2>2 DEF KernelSane, Terminated
<1>6. Answered(w)
  BY <1>1, <1>4, <1>5, FinishEnds, FinalStatusIsFinal DEF Answered, Over, Pending
<1> QED
  BY <1>1, <1>4, <1>6, FinishEnds DEF RequestStep, StoreStatus, Reap

LEMMA HandlerRequests ==
  ASSUME IInv, Promise, NEW w \in Waits, Handler(w) \/ UnblockHandler(w)
  PROVE  UNCHANGED <<status, cancelled, obj>> /\ RequestStep(w) /\ \A v \in Waits \ {w} : Stays(v)
<1> DEFINE o == WaitOn[w]
<1>1. /\ TypeOK /\ o \in Procs /\ Ownership(o) /\ Operation(w) /\ KernelSane /\ HeldPidsDiffer
      /\ phase \in [Waits -> {"none", "ready", "arming", "armed", "blocking", "done"}]
      /\ err \in [Waits -> {"ok", "ECHILD", "EBADF", "ECANCELED"}]
      /\ wpid \in [Waits -> Pids \cup {-1}]
  BY BasicProcessAssumption DEF IInv, TypeOK, OpTypeOK
<1>2. Pending(w) /\ phase[w] \in {"ready", "blocking"} /\ UNCHANGED obj
  BY DEF Handler, UnblockHandler, Pending
<1>3. /\ Exists(o) /\ wpid[w] \in {-1, pid[o]} /\ (wpid[w] = -1 => Released(o))
      /\ Variant = "fd" => wpid[w] = pid[o]
      /\ Excused(w)
  BY <1>1, <1>2 DEF Operation, Promise, Pending
<1>4. CASE UnblockHandler(w)
  <2>1. wpid[w] = pid[o] /\ ~Final(o)
    BY <1>1, <1>4 DEF Operation, UnblockHandler
  <2> QED
    BY <1>2, <1>4, <2>1, WaitedForAnswers DEF UnblockHandler
<1>5. CASE Handler(w) /\ Variant # "fd"
  <2>1. PollBody(w, wpid[w], OwnError(w))
    BY <1>5 DEF Handler
  <2>2. OwnError(w) # "ok" => cancelled[w] \/ Released(o)
    BY <1>3 DEF OwnError, Excused
  <2>3. /\ UNCHANGED <<status, cancelled>> /\ \A v \in Waits \ {w} : Stays(v)
        /\ Answered(w) \/ Failed(w) \/ WaitsAgain(w, wpid[w])
    BY <1>2, <1>3, <2>1, <2>2, PollBodyEnds DEF Pending
  <2>4. WaitsAgain(w, wpid[w]) => Stays(w)
    BY <1>1, <1>2 DEF WaitsAgain, Stays, Pending, Excused
  <2> QED
    BY <1>2, <2>3, <2>4 DEF RequestStep
<1>6. CASE Handler(w) /\ Variant = "fd" /\ ~Trusts(w) /\ NothingToPoll(w, err[w])
  <2>1. CASE err[w] # "ok"
    <3>1. Failed(w) /\ UNCHANGED cancelled /\ \A v \in Waits \ {w} : Stays(v)
      BY <1>1, <1>2, <1>3, <1>6, <2>1, FinishEnds DEF NothingToPoll, Failed, Over, Excused, Pending
    <3> QED
      BY <1>2, <1>6, <3>1 DEF RequestStep, NothingToPoll, Keep, kernelVars
  <2>2. CASE err[w] = "ok"
    <3>1. Final(o) /\ Finish(w, "ok", exit_status[o]) /\ phase[w] # "done"
      BY <1>2, <1>6, <2>2 DEF Trusts, Final, NothingToPoll, Pending
    <3> QED
      BY <1>1, <1>2, <1>3, <1>6, <3>1, FinishKnown, FinishEnds
      DEF RequestStep, NothingToPoll, Keep, kernelVars
  <2> QED
    BY <2>1, <2>2
<1>7. CASE Handler(w) /\ Variant = "fd" /\ Trusts(w) /\ WaitedFor(w)
  BY <1>2, <1>3, <1>7, WaitedForAnswers DEF Trusts, Final
<1>8. CASE /\ Variant = "fd" /\ Trusts(w) /\ phase' = [phase EXCEPT ![w] = "blocking"]
           /\ UNCHANGED <<wpid, err, cancelled, code>> /\ Keep
  BY <1>1, <1>2, <1>8 DEF Stays, Pending, Excused, Trusts, RequestStep, Keep, kernelVars
<1> QED
  BY <1>4, <1>5, <1>6, <1>7, <1>8 DEF Handler, TrustDescriptor

\* The calls on an object and what Asio does beneath them.
LetGo(o) ==
  /\ \A q \in Procs : Released(q)' <=> Released(q) \/ q = o
  /\ UNCHANGED <<status, cancelled>>

Requested == UNCHANGED <<status, cancelled>> /\ \A q \in Procs : Released(q)' <=> Released(q)

LEMMA GoneLetsGo ==
  ASSUME TypeOK, NEW o \in Procs, Gone(o), UNCHANGED <<status, cancelled>>
  PROVE  LetGo(o)
BY DEF TypeOK, ProcTypeOK, Gone, LetGo, Released

LEMMA CallRequests ==
  ASSUME IInv, Promise, NEW o \in Procs,
         \/ LaunchFork(o) \/ Construct(o)
         \/ Running(o) \/ Wait(o) \/ WaitReturns(o)
         \/ Terminate(o) \/ Interrupt(o) \/ RequestExit(o) \/ Suspend(o) \/ Resume(o)
         \/ Destroy(o) \/ DestroyKill(o) \/ DestroyReap(o) \/ Detach(o)
  PROVE  /\ LetGo(o) \/ Requested
         /\ \A w \in Waits : Stays(w)
<1>1. /\ TypeOK /\ Ownership(o)
      /\ obj \in [Procs -> {"absent", "open", "detached", "destroyed"}]
  BY DEF IInv, TypeOK, ProcTypeOK
<1>2. CASE \/ LaunchFork(o)
           \/ Running(o) \/ Wait(o) \/ WaitReturns(o)
           \/ Terminate(o) \/ Interrupt(o) \/ RequestExit(o) \/ Suspend(o) \/ Resume(o)
           \/ DestroyKill(o)
  <2>1. UNCHANGED <<status, obj, opVars>>
    BY <1>2
    DEF LaunchFork, Fork, Running, Wait, Poll, StoreStatus, WaitReturns, Terminate, Interrupt,
        RequestExit, Suspend, Resume, Signal, DestroyKill, Reap, Kill, kernelVars, waitVars
  <2> QED
    BY <2>1, SameOpsStay DEF Requested, Released, opVars
<1>3. CASE Construct(o)
  <2>1. obj[o] = "absent" /\ UNCHANGED <<status, opVars>>
    BY <1>1, <1>3 DEF Construct, Ownership, kernelVars, waitVars
  <2> QED
    BY <1>1, <1>3, <2>1, SameOpsStay DEF Construct, Requested, Released, opVars
<1>4. CASE Destroy(o) \/ DestroyReap(o)
  <2>1. UNCHANGED <<status, opVars>> /\ (Gone(o) \/ UNCHANGED obj)
    BY <1>4 DEF Destroy, DestroyReap, Reap, kernelVars
  <2> QED
    BY <1>1, <2>1, GoneLetsGo, SameOpsStay DEF Requested, Released, opVars
<1>5. CASE Detach(o)
  <2>1. UNCHANGED <<status, cancelled>> /\ LetGo(o)
    BY <1>1, <1>5 DEF Detach, Queue, kernelVars, opVars, LetGo, Released
  <2>2. CASE UNCHANGED opVars
    BY <2>1, <2>2, SameOpsStay
  <2>3. CASE Queue(ArmedOn(o), "ECANCELED")
    <3>1. \A w \in ArmedOn(o) : Pending(w) /\ Released(WaitOn[w])'
      BY <2>1 DEF ArmedOn, Armed, WaitsOf, Pending, LetGo
    <3> QED
      BY <1>1, <2>1, <2>3, <3>1, QueueStays
  <2> QED
    BY <1>5, <2>1, <2>2, <2>3 DEF Detach
<1> QED
  BY <1>2, <1>3, <1>4, <1>5

LEMMA AsioRequests ==
  ASSUME IInv, Promise,
         \/ \E w \in Waits : Arm(w) \/ DescriptorReady(w)
         \/ CatchSigchld \/ DeliverSigchld \/ UNCHANGED vars
  PROVE  /\ Requested \/ \E o \in Procs : LetGo(o)
         /\ \A w \in Waits : Stays(w)
<1>1. TypeOK /\ phase \in [Waits -> {"none", "ready", "arming", "armed", "blocking", "done"}]
  BY DEF IInv, TypeOK, OpTypeOK
<1>2. ASSUME UNCHANGED <<status, obj>>, NEW S, \A w \in S \cap Waits : Pending(w), Queue(S, "ok")
      PROVE  Requested /\ \A w \in Waits : Stays(w)
  BY <1>1, <1>2, QueueStays DEF Requested, Released
<1>3. ASSUME NEW w \in Waits, Arm(w)
      PROVE  Requested /\ \A v \in Waits : Stays(v)
  <2>1. UNCHANGED <<status, obj>> /\ Pending(w)
    BY <1>3 DEF Arm, procVars, kernelVars, Pending
  <2>2. CASE Queue({w}, "ok")
    BY <1>2, <2>1, <2>2
  <2>3. CASE phase' = [phase EXCEPT ![w] = "armed"] /\ UNCHANGED <<wpid, err, cancelled, code>>
    <3>1. Excused(w)
      BY <2>1 DEF Promise, Pending
    <3> QED
      BY <1>1, <2>1, <2>3, <3>1 DEF Requested, Released, Stays, Pending, Excused
  <2> QED
    BY <1>3, <2>2, <2>3 DEF Arm
<1>4. ASSUME NEW w \in Waits, DescriptorReady(w)
      PROVE  Requested /\ \A v \in Waits : Stays(v)
  BY <1>2, <1>4 DEF DescriptorReady, Armed, Pending, procVars, kernelVars
<1>5. CASE CatchSigchld
  <2>1. UNCHANGED <<status, opVars>> /\ (UNCHANGED obj \/ \E o \in Procs : Gone(o))
    BY <1>5 DEF CatchSigchld, procVars
  <2> QED
    BY <1>1, <2>1, GoneLetsGo, SameOpsStay DEF Requested, Released, opVars
<1>6. CASE DeliverSigchld
  <2>1. UNCHANGED <<status, obj>> /\ \A w \in {v \in Waits : InSignalSet(v)} : Pending(w)
    BY <1>6 DEF DeliverSigchld, InSignalSet, Armed, Pending, procVars, kernelVars
  <2> QED
    BY <1>2, <1>6, <2>1 DEF DeliverSigchld
<1>7. CASE UNCHANGED vars
  BY <1>7, SameOpsStay DEF vars, kernelVars, procVars, waitVars, opVars, Requested, Released
<1> QED
  BY <1>3, <1>4, <1>5, <1>6, <1>7

Cancels(w) ==
  /\ Pending(w) /\ cancelled' = [cancelled EXCEPT ![w] = TRUE]
  /\ UNCHANGED status /\ \A q \in Procs : Released(q)' <=> Released(q)

LEMMA CancelRequests ==
  ASSUME IInv, Promise, NEW w \in Waits, CancelWait(w)
  PROVE  Cancels(w) /\ \A v \in Waits : Stays(v)
<1>1. /\ phase \in [Waits -> {"none", "ready", "arming", "armed", "blocking", "done"}]
      /\ err \in [Waits -> {"ok", "ECHILD", "EBADF", "ECANCELED"}]
      /\ cancelled \in [Waits -> BOOLEAN]
  BY DEF IInv, TypeOK, OpTypeOK
<1>2. Cancels(w)
  BY DEF CancelWait, Suspended, Pending, Cancels, Released, procVars, kernelVars
<1>3. phase[w] \in {"ready", "armed"} /\ Excused(w)
  BY DEF CancelWait, Suspended, Promise
<1>4. Stays(w)
  BY <1>1, <1>2, <1>3 DEF CancelWait, Cancels, Stays, Pending, Excused, Armed
<1>5. \A v \in Waits \ {w} : Stays(v)
  BY <1>1 DEF CancelWait, Stays
<1> QED
  BY <1>2, <1>4, <1>5

Concludes(o) ==
  /\ status[o] = still_active /\ \E s \in FinalStatus : status' = [status EXCEPT ![o] = s]
  /\ UNCHANGED <<obj, opVars>>

LEMMA ChildRequests ==
  ASSUME IInv, Promise, NEW o \in Procs, Child(o)
  PROVE  Concludes(o) \/ UNCHANGED <<status, obj, opVars>>
<1>1. UNCHANGED <<obj, opVars>>
  BY DEF Child, procVars, waitVars
<1>2. CASE ChildExit(o, Caught)
  BY <1>1, <1>2 DEF ChildExit, Terminates, FinalStatus, Concludes, Promise, Terminated
<1>3. ASSUME NEW s \in FatalSignals, DieOfSignal(o, s, Caught) PROVE Concludes(o)
  BY <1>1, <1>3 DEF DieOfSignal, Terminates, FinalStatus, Concludes, Promise, Terminated
<1>4. ASSUME NEW s \in FatalSignals, IgnoreSignal(o, s) PROVE UNCHANGED <<status, obj, opVars>>
  BY <1>1, <1>4 DEF IgnoreSignal
<1> QED
  BY <1>2, <1>3, <1>4 DEF Child

\* What a step does to the requests, all together.
LEMMA NextRequests ==
  ASSUME IInv, Promise, [Next]_vars
  PROVE  \/ Requested /\ \A w \in Waits : Stays(w)
         \/ \E o \in Procs : LetGo(o) /\ \A w \in Waits : Stays(w)
         \/ \E w \in Waits : Cancels(w) /\ \A v \in Waits : Stays(v)
         \/ \E w \in Waits : Requested /\ RequestStep(w) /\ \A v \in Waits \ {w} : Stays(v)
         \/ \E o \in Procs : Concludes(o)
         \/ UNCHANGED <<status, obj, opVars>>
<1>1. ASSUME NEW w \in Waits, AsyncWait(w) \/ Handler(w) \/ UnblockHandler(w)
      PROVE  Requested /\ RequestStep(w) /\ \A v \in Waits \ {w} : Stays(v)
  BY <1>1, AsyncWaitRequests, HandlerRequests DEF Requested, Released
<1> QED
  BY <1>1, CallRequests, AsioRequests, CancelRequests, ChildRequests DEF Next

LEMMA ReleasedStays ==
  ASSUME IInv, Promise, [Next]_vars, NEW o \in Procs, Released(o)
  PROVE  Released(o)'
BY NextRequests DEF Requested, LetGo, Cancels, Concludes, Released

LEMMA CancelledStays ==
  ASSUME IInv, Promise, [Next]_vars, NEW w \in Waits, cancelled[w]
  PROVE  cancelled'[w]
BY NextRequests DEF IInv, TypeOK, OpTypeOK, Requested, LetGo, Cancels, Concludes, opVars

LEMMA PromiseStep ==
  ASSUME AskingOnly, IInv, Promise, [Next]_vars
  PROVE  Promise'
<1>1. TypeOK /\ KernelMoves
  BY StepMoves DEF IInv
<1>2. ASSUME NEW o \in Procs, ~Terminated(o)' PROVE status'[o] = still_active
  BY <1>1, <1>2
  DEF KernelMoves, Shifted, Collected, Ended, Born, Living, Terminated, Promise, TypeOK, KernelTypeOK
<1>3. ASSUME NEW w \in Waits
      PROVE  /\ Pending(w)' /\ wpid'[w] = -1 => Released(WaitOn[w])'
             /\ phase'[w] # "done" => Excused(w)'
  <2>1. WaitOn[w] \in Procs
    BY BasicProcessAssumption
  <2>2. /\ Released(WaitOn[w]) => Released(WaitOn[w])'
        /\ cancelled[w] => cancelled'[w]
    BY <2>1, ReleasedStays, CancelledStays
  <2>3. Stays(w) \/ RequestStep(w)
    BY NextRequests DEF Concludes, opVars, Stays
  <2>4. CASE Stays(w)
    BY <2>2, <2>4 DEF Stays, Promise, Pending, Excused
  <2>5. CASE Asked(w)
    BY <2>2, <2>5 DEF Asked, Pending
  <2>6. CASE Answered(w) \/ Failed(w)
    BY <2>6 DEF Answered, Failed, Over, Pending
  <2> QED
    BY <2>3, <2>4, <2>5, <2>6 DEF RequestStep
<1> QED
  BY <1>2, <1>3 DEF Promise

-------------------------------------------------------------------------------
(***************************************************************************)
(* The refinement: what each kind of step is in ExitNotice.                *)
(***************************************************************************)
Notified(w) ==
  IF phase[w] = "none" THEN "none"
  ELSE IF phase[w] # "done" THEN "pending"
  ELSE IF err[w] = "ok" THEN "answered" ELSE "failed"

Told(w) == IF phase[w] = "done" /\ err[w] = "ok" THEN code[w] ELSE evaluate_exit_code(still_active)

LEMMA SameCodes ==
  /\ Notice!still_active = still_active
  /\ \A s : Notice!evaluate_exit_code(s) = evaluate_exit_code(s)
BY DEF Notice!still_active, still_active, Notice!evaluate_exit_code, evaluate_exit_code,
       Notice!WIFEXITED, WIFEXITED, Notice!WEXITSTATUS, WEXITSTATUS, Notice!WIFSIGNALED, WIFSIGNALED,
       Notice!WTERMSIG, WTERMSIG

LEMMA StaysSame ==
  ASSUME NEW w, Stays(w)
  PROVE  Notified(w)' = Notified(w) /\ Told(w)' = Told(w)
BY DEF Stays, Pending, Notified, Told

LEMMA RefineInit == Init => Notice!Init
<1> SUFFICES ASSUME Init PROVE Notice!Init
  OBVIOUS
<1>1. /\ \A o \in Procs : Released(o) = FALSE
      /\ \A w \in Waits : Notified(w) = "none" /\ Told(w) = evaluate_exit_code(still_active)
  BY DEF Init, Released, Notified, Told
<1>2. /\ [o \in Procs |-> Released(o)] = [o \in Procs |-> FALSE]
      /\ [w \in Waits |-> Notified(w)] = [w \in Waits |-> "none"]
      /\ [w \in Waits |-> Told(w)] = [w \in Waits |-> Notice!evaluate_exit_code(Notice!still_active)]
  BY <1>1, SameCodes
<1>3. /\ status = [o \in Procs |-> Notice!still_active]
      /\ cancelled = [w \in Waits |-> FALSE]
  BY SameCodes DEF Init, KernelInit
<1> QED
  BY <1>2, <1>3 DEF Notice!Init, Released, Notified, Told

\* Only the owner moves.
LEMMA RefineLetGo ==
  ASSUME TypeOK, NEW o \in Procs, LetGo(o), \A w \in Waits : Stays(w)
  PROVE  Notice!Release(o)
<1>1. /\ [w \in Waits |-> Notified(w)]' = [w \in Waits |-> Notified(w)]
      /\ [w \in Waits |-> Told(w)]' = [w \in Waits |-> Told(w)]
  BY StaysSame
<1>2. [q \in Procs |-> Released(q)]' = [[q \in Procs |-> Released(q)] EXCEPT ![o] = TRUE]
  <2> DEFINE R == [q \in Procs |-> Released(q)]
  <2>1. R \in [Procs -> BOOLEAN] /\ R' \in [Procs -> BOOLEAN]
    BY DEF Released
  <2>2. \A q \in Procs : R'[q] <=> R[q] \/ q = o
    BY DEF LetGo
  <2> HIDE DEF R
  <2>3. R' = [R EXCEPT ![o] = TRUE]
    BY <2>1, <2>2
  <2> QED
    BY <2>3 DEF R
<1> QED
  BY <1>1, <1>2 DEF LetGo, Notice!Release, Notified, Told, Released

LEMMA RefineStutter ==
  ASSUME TypeOK, Requested, \A w \in Waits : Stays(w)
  PROVE  UNCHANGED Notice!vars
<1>1. /\ [w \in Waits |-> Notified(w)]' = [w \in Waits |-> Notified(w)]
      /\ [w \in Waits |-> Told(w)]' = [w \in Waits |-> Told(w)]
  BY StaysSame
<1>2. [q \in Procs |-> Released(q)]' = [q \in Procs |-> Released(q)]
  BY DEF Requested, Released
<1> QED
  BY <1>1, <1>2 DEF Requested, Notice!vars, Notified, Told, Released

LEMMA RefineCancel ==
  ASSUME TypeOK, NEW w \in Waits, Cancels(w), \A v \in Waits : Stays(v)
  PROVE  Notice!Cancel(w)
<1>1. /\ [v \in Waits |-> Notified(v)]' = [v \in Waits |-> Notified(v)]
      /\ [v \in Waits |-> Told(v)]' = [v \in Waits |-> Told(v)]
  BY StaysSame
<1>2. [q \in Procs |-> Released(q)]' = [q \in Procs |-> Released(q)]
  BY DEF Cancels, Released
<1>3. Notified(w) = "pending"
  BY DEF Cancels, Pending, Notified
<1> QED
  BY <1>1, <1>2, <1>3 DEF Cancels, Notice!Cancel, Notified, Told, Released

LEMMA RefineChild ==
  ASSUME NEW o \in Procs, Concludes(o)
  PROVE  Notice!Terminate(o)
BY SameCodes DEF Concludes, opVars, Notice!Terminate

LEMMA RefineRequest ==
  ASSUME IInv, Promise, NEW w \in Waits, RequestStep(w), Requested,
         \A v \in Waits \ {w} : Stays(v)
  PROVE  [Notice!Next]_(Notice!vars)
<1> DEFINE N == [v \in Waits |-> Notified(v)]
           T == [v \in Waits |-> Told(v)]
           R == [q \in Procs |-> Released(q)]
<1>1. WaitOn[w] \in Procs /\ TypeOK
  BY BasicProcessAssumption DEF IInv
<1>2. N' = [N EXCEPT ![w] = Notified(w)'] /\ T' = [T EXCEPT ![w] = Told(w)']
  BY StaysSame
<1>3. R' = R /\ UNCHANGED <<status, cancelled>>
  BY DEF Requested, Released
<1>4. CASE Stays(w)
  BY <1>1, <1>4, RefineStutter
<1>5. CASE Asked(w)
  <2>1. Notified(w) = "none" /\ Notified(w)' = "pending" /\ Told(w)' = Told(w)
    BY <1>5 DEF Asked, Pending, Notified, Told
  <2>2. N[w] = "none" /\ N' = [N EXCEPT ![w] = "pending"] /\ T' = T
    BY <1>2, <2>1
  <2>3. Notice!Ask(w)
    BY <1>3, <2>2 DEF Notice!Ask, Notified, Told, Released
  <2> QED
    BY <2>3 DEF Notice!Next
<1>6. CASE Failed(w)
  <2>1. /\ Notified(w) \in {"none", "pending"} /\ Notified(w)' = "failed" /\ Told(w)' = Told(w)
        /\ cancelled[w] \/ Released(WaitOn[w])
    BY <1>6 DEF Failed, Over, Notified, Told
  <2>2. N[w] \in {"none", "pending"} /\ N' = [N EXCEPT ![w] = "failed"] /\ T' = T
    BY <1>2, <2>1
  <2>3. Notice!Fail(w)
    BY <1>1, <1>3, <2>1, <2>2 DEF Notice!Fail, Notice!Unanswered, Notified, Told, Released
  <2> QED
    BY <2>3 DEF Notice!Next
<1>7. CASE Answered(w)
  <2>1. /\ Notified(w) \in {"none", "pending"} /\ Notified(w)' = "answered"
        /\ Told(w)' = code'[w]
    BY <1>7 DEF Answered, Over, Notified, Told
  <2>2. /\ N[w] \in {"none", "pending"} /\ N' = [N EXCEPT ![w] = "answered"]
        /\ T' = [T EXCEPT ![w] = code'[w]]
    BY <1>2, <2>1
  <2>3. CASE /\ status[WaitOn[w]] # still_active
             /\ code'[w] = evaluate_exit_code(status[WaitOn[w]])
    <3>1. Notice!Answer(w)
      BY <1>3, <2>2, <2>3, SameCodes
      DEF Notice!Answer, Notice!Unanswered, Notified, Told, Released
    <3> QED
      BY <3>1 DEF Notice!Next
  <2>4. ASSUME Released(WaitOn[w]), NEW s \in FinalStatus \cup {0},
               code'[w] = evaluate_exit_code(s)
        PROVE  Notice!AnswerReleased(w)
    <3>1. T' = [T EXCEPT ![w] = Notice!evaluate_exit_code(s)] /\ R[WaitOn[w]]
      BY <1>1, <2>2, <2>4, SameCodes
    <3> HIDE DEF N, T, R
    <3>2. \E t \in FinalStatus \cup {0} : T' = [T EXCEPT ![w] = Notice!evaluate_exit_code(t)]
      BY <3>1
    <3> QED
      BY <1>3, <2>2, <3>1, <3>2
      DEF N, T, R, Notice!AnswerReleased, Notice!Unanswered, Notified, Told, Released
  <2> QED
    BY <1>7, <2>3, <2>4 DEF Answered, Notice!Next
<1> QED
  BY <1>4, <1>5, <1>6, <1>7 DEF RequestStep

LEMMA RefineNext ==
  ASSUME IInv, Promise, [Next]_vars
  PROVE  [Notice!Next]_(Notice!vars)
<1>1. TypeOK
  BY DEF IInv
<1>2. CASE UNCHANGED <<status, obj, opVars>>
  BY <1>2 DEF opVars, Notice!vars
<1>3. ASSUME NEW o \in Procs, (LetGo(o) /\ (\A w \in Waits : Stays(w))) \/ Concludes(o)
      PROVE  Notice!Next
  BY <1>1, <1>3, RefineLetGo, RefineChild DEF Notice!Next
<1>4. ASSUME NEW w \in Waits, Cancels(w), \A v \in Waits : Stays(v)
      PROVE  Notice!Next
  BY <1>1, <1>4, RefineCancel DEF Notice!Next
<1> QED
  BY <1>1, <1>2, <1>3, <1>4, NextRequests, RefineStutter, RefineRequest

(***************************************************************************)
(* async_wait keeps the promise of ExitNotice with every handle and any    *)
(* number of objects and waits, whoever else polls, waits, cancels or lets *)
(* go of the child: one answer at most, after the child's end and with its *)
(* code, and no failure without a reason.                                  *)
(***************************************************************************)
THEOREM KeepsPromiseHolds ==
  ASSUME AskingOnly
  PROVE  Spec => KeepsPromise
<1>1. Init => Promise
  BY DEF Init, KernelInit, Promise, Pending, Excused
<1>2. IInv /\ Promise /\ [Next]_vars => Promise'
  BY PromiseStep
<1>3. IInv /\ Promise /\ [Next]_vars => [Notice!Next]_(Notice!vars)
  BY RefineNext
<1> QED
  BY <1>1, <1>2, <1>3, RefineInit, Invariance, PTL DEF Spec, KeepsPromise, Notice!Spec
===============================================================================
