--------------------------- MODULE ChildTableProofs ---------------------------
(***************************************************************************)
(* What the proofs about every component need to know of the kernel.       *)
(***************************************************************************)
EXTENDS ChildTable, TLAPS

(***************************************************************************)
(* A status the kernel reports is final, the one an object starts with is  *)
(* not: exit_status_ tells whether the child has been waited for.          *)
(***************************************************************************)
LEMMA FinalStatusIsFinal ==
  /\ \A s \in FinalStatus : s \in Int /\ ~process_is_running(s)
  /\ ~process_is_running(0)
  /\ process_is_running(still_active)
  /\ still_active \notin FinalStatus
<1>1. ASSUME NEW n \in ExitCodes
      PROVE  ExitedWith(n) \in Int /\ ExitedWith(n) % 128 = 0
  BY <1>1, ChildAssumption, SMT DEF ExitedWith
<1>2. ASSUME NEW s \in FatalSignals
      PROVE  KilledBy(s) \in Int /\ KilledBy(s) % 128 \in {2, 9, 15}
  BY <1>2, SMT DEF KilledBy, FatalSignals, SIGINT, SIGKILL, SIGTERM
<1>3. still_active % 128 = 127 /\ 0 % 128 = 0
  BY SMT DEF still_active
<1> QED
  BY <1>1, <1>2, <1>3, SMT
  DEF FinalStatus, process_is_running, WIFEXITED, WIFSIGNALED

-------------------------------------------------------------------------------
(***************************************************************************)
(* What a step does to the kernel's variables.                             *)
(***************************************************************************)
Signals == FatalSignals \cup {SIGSTOP, SIGCONT}

KernelEvent ==
  \/ UNCHANGED <<st, pid, status, pend>> /\ sigchld' \in BOOLEAN
  \/ \E p \in Int, s \in Signals, c \in BOOLEAN : Kill(p, s, c)
  \/ \E o \in Procs, p \in Pids : Fork(o, p)
  \/ \E o \in Procs, c \in BOOLEAN :
       \/ ChildExit(o, c)
       \/ \E s \in FatalSignals : DieOfSignal(o, s, c) \/ IgnoreSignal(o, s)

KernelNext == KernelEvent \/ \E p \in Int : Reap(p)

\* Reaps the dead only, whatever the pids.
PatientNext == KernelEvent \/ \E p \in Int : ~ChildAlive(p) /\ Reap(p)

LEMMA KernelTyped == KernelTypeOK /\ KernelNext => KernelTypeOK'
<1> SUFFICES ASSUME KernelTypeOK, KernelNext PROVE KernelTypeOK'
  OBVIOUS
<1>1. CASE UNCHANGED <<st, pid, status, pend>> /\ sigchld' \in BOOLEAN
  BY <1>1 DEF KernelTypeOK
<1>2. ASSUME NEW p \in Int, Reap(p) PROVE KernelTypeOK'
  BY <1>2 DEF KernelTypeOK, Reap
<1>3. ASSUME NEW p \in Int, NEW s \in Signals, NEW c \in BOOLEAN, Kill(p, s, c)
      PROVE  KernelTypeOK'
  BY <1>3 DEF KernelTypeOK, Kill
<1>4. ASSUME NEW o \in Procs, NEW p \in Pids, Fork(o, p) PROVE KernelTypeOK'
  BY <1>4 DEF KernelTypeOK, Fork
<1>5. ASSUME NEW o \in Procs, NEW s \in FinalStatus, NEW c \in BOOLEAN, Terminates(o, s, c)
      PROVE  KernelTypeOK'
  BY <1>5 DEF KernelTypeOK, Terminates
<1>6. ASSUME NEW o \in Procs, NEW c \in BOOLEAN, ChildExit(o, c) PROVE KernelTypeOK'
  BY <1>5, <1>6 DEF ChildExit, FinalStatus
<1>7. ASSUME NEW o \in Procs, NEW c \in BOOLEAN, NEW s \in FatalSignals, DieOfSignal(o, s, c)
      PROVE  KernelTypeOK'
  BY <1>5, <1>7 DEF DieOfSignal, FinalStatus
<1>8. ASSUME NEW o \in Procs, NEW s \in FatalSignals, IgnoreSignal(o, s)
      PROVE  KernelTypeOK'
  BY <1>8 DEF KernelTypeOK, IgnoreSignal
<1> QED
  BY <1>1, <1>2, <1>3, <1>4, <1>6, <1>7, <1>8 DEF KernelNext, KernelEvent

\* A child that terminated has a final status.
Stated == \A o \in Procs : Terminated(o) => status[o] \in FinalStatus

LEMMA StatedStep == KernelTypeOK /\ Stated /\ PatientNext => Stated'
<1> SUFFICES ASSUME KernelTypeOK, Stated, PatientNext PROVE Stated'
  OBVIOUS
<1> USE DEF KernelTypeOK, Stated, Terminated
<1>1. CASE UNCHANGED <<st, pid, status, pend>>
  BY <1>1
<1>2. ASSUME NEW p \in Int, ~ChildAlive(p), Reap(p) PROVE Stated'
  BY <1>2 DEF Reap, WithPid, HoldsPid, ChildAlive
<1>3. ASSUME NEW p \in Int, NEW s \in Signals, NEW c \in BOOLEAN, Kill(p, s, c)
      PROVE  Stated'
  BY <1>3 DEF Kill, WithPid, HoldsPid
<1>4. ASSUME NEW o \in Procs, NEW p \in Pids, Fork(o, p) PROVE Stated'
  BY <1>4 DEF Fork
<1>5. ASSUME NEW o \in Procs, NEW s \in FinalStatus, NEW c \in BOOLEAN, Terminates(o, s, c)
      PROVE  Stated'
  BY <1>5 DEF Terminates
<1>6. ASSUME NEW o \in Procs, NEW c \in BOOLEAN, ChildExit(o, c) PROVE Stated'
  BY <1>5, <1>6 DEF ChildExit, FinalStatus
<1>7. ASSUME NEW o \in Procs, NEW c \in BOOLEAN, NEW s \in FatalSignals, DieOfSignal(o, s, c)
      PROVE  Stated'
  BY <1>5, <1>7 DEF DieOfSignal, FinalStatus
<1>8. ASSUME NEW o \in Procs, NEW s \in FatalSignals, IgnoreSignal(o, s)
      PROVE  Stated'
  BY <1>8 DEF IgnoreSignal
<1> QED
  BY <1>1, <1>2, <1>3, <1>4, <1>6, <1>7, <1>8 DEF PatientNext, KernelEvent

\* A pid names one child at a time, also on a kernel that reuses pids.
HeldPidsDiffer ==
  \A o, q \in Procs : HoldsPid(o) /\ HoldsPid(q) /\ pid[o] = pid[q] => o = q

LEMMA HeldStep == KernelTypeOK /\ HeldPidsDiffer /\ PatientNext => HeldPidsDiffer'
<1> SUFFICES ASSUME KernelTypeOK, HeldPidsDiffer, PatientNext PROVE HeldPidsDiffer'
  OBVIOUS
<1> USE DEF KernelTypeOK, HeldPidsDiffer, HoldsPid
<1>1. CASE UNCHANGED <<st, pid, status, pend>>
  BY <1>1
<1>2. ASSUME NEW p \in Int, Reap(p) PROVE HeldPidsDiffer'
  BY <1>2 DEF Reap
<1>3. ASSUME NEW p \in Int, NEW s \in Signals, NEW c \in BOOLEAN, Kill(p, s, c)
      PROVE  HeldPidsDiffer'
  BY <1>3 DEF Kill, WithPid
<1>4. ASSUME NEW o \in Procs, NEW p \in Pids, Fork(o, p) PROVE HeldPidsDiffer'
  BY <1>4 DEF Fork
<1>5. ASSUME NEW o \in Procs, st[o] \in {"running", "stopped"},
             NEW s, NEW c, Terminates(o, s, c)
      PROVE  HeldPidsDiffer'
  BY <1>5 DEF Terminates
<1>6. ASSUME NEW o \in Procs, NEW c \in BOOLEAN, ChildExit(o, c) PROVE HeldPidsDiffer'
  BY <1>5, <1>6 DEF ChildExit
<1>7. ASSUME NEW o \in Procs, NEW c \in BOOLEAN, NEW s \in FatalSignals, DieOfSignal(o, s, c)
      PROVE  HeldPidsDiffer'
  BY <1>5, <1>7 DEF DieOfSignal
<1>8. ASSUME NEW o \in Procs, NEW s \in FatalSignals, IgnoreSignal(o, s)
      PROVE  HeldPidsDiffer'
  BY <1>8 DEF IgnoreSignal
<1> QED
  BY <1>1, <1>2, <1>3, <1>4, <1>6, <1>7, <1>8 DEF PatientNext, KernelEvent

LEMMA ZombieStatus ==
  ASSUME Stated, HeldPidsDiffer, NEW p, ChildZombie(p)
  PROVE  StatusOf(p) \in FinalStatus
<1>1. PICK o \in Procs : HoldsPid(o) /\ pid[o] = p /\ st[o] = "zombie"
  BY DEF ChildZombie, WithPid
<1>2. WithPid(p) = {o}
  BY <1>1 DEF WithPid, HeldPidsDiffer
<1> QED
  BY <1>1, <1>2 DEF StatusOf, Stated, Terminated

-------------------------------------------------------------------------------
(***************************************************************************)
(* What holds of the children, and tells which of them a pid names.        *)
(***************************************************************************)
Living == {"running", "stopped"}

\* A child that was born has a pid, one that terminated a final status.
KernelSane ==
  \A o \in Procs :
    /\ st[o] = "unborn" <=> pid[o] = 0
    /\ Terminated(o) => status[o] \in FinalStatus

PidsDistinct ==
  \A o, q \in Procs : pid[o] = pid[q] /\ pid[o] # 0 => o = q

-------------------------------------------------------------------------------
(***************************************************************************)
(* What a step does to the children, as far as invariants can tell.        *)
(***************************************************************************)
\* Signals change nothing but whether a living child is stopped.
Shifted ==
  /\ UNCHANGED <<pid, status>> /\ st' \in [Procs -> {"unborn", "running", "stopped", "zombie", "reaped"}]
  /\ \A o \in Procs : st'[o] = st[o] \/ (st[o] \in Living /\ st'[o] \in Living)

Collected(o) ==
  /\ st[o] = "zombie" /\ st' = [st EXCEPT ![o] = "reaped"]
  /\ UNCHANGED <<pid, status>>

Ended(o) ==
  /\ st[o] \in Living /\ st' = [st EXCEPT ![o] = "zombie"]
  /\ \E s \in FinalStatus : status' = [status EXCEPT ![o] = s]
  /\ UNCHANGED pid

Born(o) ==
  /\ st[o] = "unborn" /\ st' = [st EXCEPT ![o] = "running"]
  /\ \E p \in Pids :
       /\ \A q \in Procs : pid[q] = p => PidReuse /\ st[q] = "reaped"
       /\ pid' = [pid EXCEPT ![o] = p]
  /\ UNCHANGED status

\* The child of o is where the objects left it.
SameLife(o) ==
  /\ pid'[o] = pid[o]
  /\ \/ st'[o] = st[o] /\ status'[o] = status[o]
     \/ st[o] \in Living /\ st'[o] \in Living \cup {"zombie"}

LEMMA Lives ==
  ASSUME KernelTypeOK, NEW o \in Procs
  PROVE  /\ st[o] \in {"unborn", "running", "stopped", "zombie", "reaped"}
         /\ pid[o] \in Nat
         /\ (st[o] \in {"running", "stopped", "zombie"} => HoldsPid(o))
         /\ (HoldsPid(o) => st[o] \in {"running", "stopped", "zombie"})
<1>1. Pids \cup {0} \subseteq Nat
  BY ChildAssumption
<1>2. pid[o] \in Pids \cup {0}
  BY DEF KernelTypeOK
<1>3. st[o] \in {"unborn", "running", "stopped", "zombie", "reaped"}
  BY DEF KernelTypeOK
<1> QED
  BY <1>1, <1>2, <1>3 DEF HoldsPid

LEMMA KernelStep ==
  ASSUME KernelTypeOK, KernelSane, HeldPidsDiffer,
         Shifted \/ \E o \in Procs : Collected(o) \/ Ended(o) \/ Born(o)
  PROVE  KernelSane' /\ HeldPidsDiffer'
<1> USE DEF KernelTypeOK
<1>1. CASE Shifted
  BY <1>1 DEF Shifted, KernelSane, HeldPidsDiffer, HoldsPid, Terminated, Living
<1>2. ASSUME NEW o \in Procs, Collected(o) PROVE KernelSane' /\ HeldPidsDiffer'
  BY <1>2 DEF Collected, KernelSane, HeldPidsDiffer, HoldsPid, Terminated
<1>3. ASSUME NEW o \in Procs, Ended(o) PROVE KernelSane' /\ HeldPidsDiffer'
  BY <1>3 DEF Ended, KernelSane, HeldPidsDiffer, HoldsPid, Terminated, Living
<1>4. ASSUME NEW o \in Procs, Born(o) PROVE KernelSane' /\ HeldPidsDiffer'
  <2>1. PICK p \in Pids : /\ \A q \in Procs : pid[q] = p => st[q] = "reaped"
                         /\ pid' = [pid EXCEPT ![o] = p]
    BY <1>4 DEF Born
  <2>2. p # 0
    BY ChildAssumption
  <2>3. KernelSane'
    BY <1>4, <2>1, <2>2 DEF Born, KernelSane, Terminated
  <2>4. HeldPidsDiffer'
    BY <1>4, <2>1 DEF Born, HeldPidsDiffer, HoldsPid
  <2> QED
    BY <2>3, <2>4
<1> QED
  BY <1>1, <1>2, <1>3, <1>4

LEMMA DistinctStep ==
  ASSUME KernelTypeOK, PidsDistinct,
         Shifted \/ \E o \in Procs : Collected(o) \/ Ended(o) \/ (Born(o) /\ ~PidReuse)
  PROVE  PidsDistinct'
<1>1. CASE UNCHANGED pid
  BY <1>1 DEF PidsDistinct
<1>2. ASSUME NEW o \in Procs, Born(o), ~PidReuse PROVE PidsDistinct'
  BY <1>2 DEF Born, PidsDistinct, KernelTypeOK
<1> QED
  BY <1>1, <1>2 DEF Shifted, Collected, Ended

LEMMA LifeFrame ==
  ASSUME KernelTypeOK, NEW q \in Procs,
         \/ Shifted
         \/ \E o \in Procs \ {q} : Collected(o) \/ Ended(o) \/ Born(o)
         \/ Ended(q)
  PROVE  SameLife(q)
<1> USE DEF KernelTypeOK
<1>1. CASE Shifted
  BY <1>1 DEF Shifted, SameLife, Living
<1>2. ASSUME NEW o \in Procs \ {q}, Collected(o) PROVE SameLife(q)
  BY <1>2 DEF Collected, SameLife
<1>3. ASSUME NEW o \in Procs \ {q}, Ended(o) PROVE SameLife(q)
  BY <1>3 DEF Ended, SameLife
<1>4. ASSUME NEW o \in Procs \ {q}, Born(o) PROVE SameLife(q)
  BY <1>4 DEF Born, SameLife
<1>5. ASSUME Ended(q) PROVE SameLife(q)
  BY <1>5 DEF Ended, SameLife
<1> QED
  BY <1>1, <1>2, <1>3, <1>4, <1>5

(***************************************************************************)
(* A child's pid names no other child while it has not been reaped, and on *)
(* a kernel that does not reuse pids for good.                             *)
(***************************************************************************)
LEMMA OwnPid ==
  ASSUME KernelTypeOK, KernelSane, NEW o \in Procs, st[o] # "unborn", NEW p \in {-1, pid[o]},
         PidsDistinct \/ (HeldPidsDiffer /\ (p = pid[o] => st[o] # "reaped"))
  PROVE  /\ pid[o] > 0
         /\ WithPid(p) = IF p = pid[o] /\ HoldsPid(o) THEN {o} ELSE {}
<1>1. /\ pid[o] \in Nat /\ pid[o] # 0
      /\ \A q \in Procs : pid[q] \in Nat
  BY Lives DEF KernelSane
<1>2. \A q \in Procs : pid[q] = p => p = pid[o]
  BY <1>1
<1>3. ASSUME NEW q \in Procs, HoldsPid(q), pid[q] = p PROVE q = o
  BY <1>1, <1>2, <1>3, Lives DEF PidsDistinct, HeldPidsDiffer
<1> QED
  BY <1>1, <1>2, <1>3 DEF WithPid

LEMMA OwnAnswer ==
  ASSUME KernelTypeOK, KernelSane, NEW o \in Procs, st[o] # "unborn", NEW p \in {-1, pid[o]},
         PidsDistinct \/ (HeldPidsDiffer /\ (p = pid[o] => st[o] # "reaped"))
  PROVE  /\ ChildZombie(p) <=> p = pid[o] /\ st[o] = "zombie"
         /\ ChildAlive(p) <=> p = pid[o] /\ st[o] \in Living
         /\ ChildGone(p) <=> p = -1 \/ st[o] = "reaped"
<1> DEFINE mine == p = pid[o] /\ HoldsPid(o)
<1>1. pid[o] > 0 /\ pid[o] # -1
  <2>1. pid[o] > 0
    BY OwnPid
  <2>2. pid[o] \in Nat
    BY Lives
  <2> QED
    BY <2>1, <2>2
<1>2. CASE mine
  <2>1. WithPid(p) = {o}
    BY <1>2, OwnPid
  <2> QED
    BY <1>1, <1>2, <2>1, Lives DEF ChildZombie, ChildAlive, ChildGone, Living
<1>3. CASE ~mine
  <2>1. WithPid(p) = {}
    BY <1>3, OwnPid
  <2>2. p = pid[o] => st[o] = "reaped"
    BY <1>3, Lives
  <2> QED
    BY <1>1, <1>3, <2>1, <2>2 DEF ChildZombie, ChildAlive, ChildGone, Living
<1> QED
  BY <1>2, <1>3

LEMMA OwnReap ==
  ASSUME KernelTypeOK, KernelSane, NEW o \in Procs, st[o] # "unborn", NEW p \in {-1, pid[o]},
         PidsDistinct \/ (HeldPidsDiffer /\ (p = pid[o] => st[o] # "reaped")),
         ~ChildAlive(p), Reap(p)
  PROVE  /\ ChildZombie(p) => Collected(o) /\ StatusOf(p) = status[o]
         /\ ~ChildZombie(p) => UNCHANGED <<st, pid, status>>
<1>1. CASE ChildZombie(p)
  <2>1. p = pid[o] /\ st[o] = "zombie"
    BY <1>1, OwnAnswer
  <2>2. WithPid(p) = {o}
    BY <2>1, OwnPid, Lives
  <2>3. st' = [st EXCEPT ![o] = "reaped"]
    BY <2>2 DEF Reap, KernelTypeOK
  <2>4. StatusOf(p) = status[o]
    BY <2>2 DEF StatusOf
  <2> QED
    BY <1>1, <2>1, <2>3, <2>4 DEF Collected, Reap
<1>2. CASE ~ChildZombie(p)
  <2>1. WithPid(p) = {}
    BY <1>2 DEF ChildAlive, ChildZombie
  <2> QED
    BY <1>2, <2>1 DEF Reap, KernelTypeOK
<1> QED
  BY <1>1, <1>2

LEMMA KillShifts ==
  ASSUME KernelTypeOK, NEW p, NEW s, NEW c, Kill(p, s, c)
  PROVE  Shifted
<1>1. \A o \in WithPid(p) : st[o] # "zombie" => st[o] \in Living
  BY DEF WithPid, HoldsPid, Living
<1>2. \A o \in Procs : st'[o] = st[o] \/ (st[o] \in Living /\ st'[o] \in Living)
  BY <1>1 DEF Kill, Living
<1>3. st' \in [Procs -> {"unborn", "running", "stopped", "zombie", "reaped"}]
  BY DEF Kill, KernelTypeOK
<1> QED
  BY <1>2, <1>3 DEF Shifted, Kill

===============================================================================
