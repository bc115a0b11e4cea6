------------------------------ MODULE V1IoProofs ------------------------------
(***************************************************************************)
(* The launch and the pipes of version 1.                                  *)
(* One call of the executor, for any initializers in any number and order, *)
(* and any limit of open descriptors: types, nothing closed that belongs   *)
(* to another thread, no end of a pipe and no process left behind, and a   *)
(* child object only for a program with its streams.                       *)
(* Every handle of a pipe has one owner, for any number of objects and any *)
(* limit of open descriptors; a pair of pipe streams is a channel, for put *)
(* and get areas of any sizes and a pipe of any capacity.                  *)
(***************************************************************************)
EXTENDS Executor, PipeHandles, PipeStream,
        FiniteSetTheorems, WellFoundedInduction, SequenceTheorems, TLAPS

-------------------------------------------------------------------------------
(***************************************************************************)
(* What is assumed of the constants: a process that has its standard       *)
(* streams, the modes and system calls there are, and initializers of the  *)
(* kinds there are, in any number and order.                               *)
(***************************************************************************)
Posix ==
  /\ MaxFd \in Nat /\ Std \subseteq Fds
  /\ Modes \subseteq {"throw", "code", "ignore"} /\ Forks \subseteq {"fork", "vfork"}
  /\ Plans \subseteq Seq(Initializers)

\* An async_out_future comes after limit_handles, which does not know of it.
FuturesLast ==
  \A p \in Plans : \A i, j \in DOMAIN p : p[i].kind = "future" /\ p[j].kind = "limit" => j < i

-------------------------------------------------------------------------------
(***************************************************************************)
(* The inductive invariant.                                                *)
(***************************************************************************)
Files == {"none", "std", "own", "opp", "er", "ew", "other"} \X Int

TypeOK ==
  /\ mode \in {"throw", "code", "ignore"} /\ how \in {"fork", "vfork"} /\ plan \in Plans
  /\ pc \in {"pipe", "flag", "setup", "fork", "suspended", "resumed", "close", "read", "reap",
             "success", "error", "done"}
  /\ at \in Nat \ {0} /\ step \in Nat \ {0}
  /\ table \in [Fds -> Files] /\ fds \in [Fds -> Files]
  /\ own \in [Inits -> Int] /\ opp \in [Inits -> Int]
  /\ shut \subseteq Inits /\ guard \subseteq Fds
  /\ cloexec \in BOOLEAN /\ told \in BOOLEAN /\ twice \in BOOLEAN
  /\ ec \in {"ok", "error"} /\ handle \in {"none", "local"}
  /\ child \in {"none", "setup", "running", "exiting", "zombie", "reaped"}
  /\ fate \in {"none", "ran", "failed", "killed"}
  /\ sibling \in {"none", "holds", "gone"}
  /\ result \in {"none", "throw", "empty", "crash", "child"}

\* It has called execve or _exit, or a signal ended it, and nobody has reaped it.
Launched == {"running", "exiting", "zombie"}

\* What each place of the launching thread knows.
Stage ==
  /\ pc \in {"pipe", "flag", "setup", "fork"} =>
       child = "none" /\ handle = "none" /\ ~told /\ ~twice /\ shut = {} /\ fate = "none"
  /\ pc \in {"pipe", "flag"} => HasErrorPipe /\ at = 1
  /\ pc \in {"pipe", "flag", "fork"} => ec = "ok"
  /\ pc \in {"error", "reap"} => ec = "error"
  /\ pc # "done" => result = "none"
  /\ pc = "suspended" => how = "vfork" /\ child \in {"setup"} \cup Launched
  /\ pc = "resumed" => how = "vfork" /\ child \in Launched
  /\ pc \in {"close", "read"} => HasErrorPipe /\ child \in {"setup"} \cup Launched
  /\ pc = "success" => handle = "local" /\ ~twice
  /\ pc = "success" /\ mode # "ignore" => ~told /\ child \in Launched
  /\ twice => pc \in {"error", "done"} /\ (handle = "local" \/ pc = "done")
  /\ result = "child" /\ mode # "ignore" => ~told /\ child \in Launched /\ ec = "ok"

Process ==
  /\ handle = "local" => child # "none"
  /\ how = "vfork" /\ child # "none" /\ pc \notin {"suspended", "done"} => handle = "local"
  /\ how = "vfork" /\ child = "setup" => pc = "suspended"
  /\ HasErrorPipe /\ (child # "none" \/ pc \in {"setup", "fork"}) => cloexec
  /\ told => HasErrorPipe
  /\ child \in Launched => fate # "none"
  /\ child = "running" => fate = "ran" /\ step \notin Inits
  /\ fate = "failed" => told \/ ec = "error" \/ mode = "ignore"
  /\ HandleReaps

\* The parent's descriptors: initializer i still has its end.
Keeps(i) == ~twice /\ pc # "done" /\ (pc \in {"success", "error"} => at =< i)

EndsOwned ==
  /\ \A i \in Inits : own[i] \notin Std /\ opp[i] \notin Std
  /\ \A d \in Std : table[d] = <<"std", d>>
  /\ \A d \in Fds : table[d][1] = "own" => table[d][2] \in Inits /\ d = own[table[d][2]]
  /\ \A d \in Fds : table[d][1] = "opp" =>
       table[d][2] \in Inits /\ d = opp[table[d][2]] /\ Nth(table[d][2]).kind \in Pipers
  /\ \A d \in Fds : table[d][1] \in {"er", "ew"} => table[d][2] = 0 /\ HasErrorPipe
  /\ \A d \in guard : table[d][1] \in {"er", "ew"}
  /\ pc = "success" \/ twice => guard = {}
  /\ \A i \in Inits : Keeps(i) /\ own[i] \in Fds => table[own[i]] = <<"own", i>>

BeforeFork ==
  /\ pc \in {"pipe", "flag", "setup", "fork"} =>
       \A i \in Inits : opp[i] \in Fds => table[opp[i]] = <<"opp", i>>
  /\ pc \in {"flag", "setup", "fork"} /\ HasErrorPipe => \E d \in Fds : table[d] = <<"ew", 0>>
  /\ pc \in {"pipe", "flag", "setup"} =>
       \A i \in Inits : at =< i /\ Nth(i).kind \in Asyncs => own[i] = -1 /\ opp[i] = -1

\* on_success or on_error was called for initializer i, which has an end of a pipe.
Handed(i) ==
  /\ Nth(i).kind \in Pipers
  /\ \/ pc \in {"success", "error"} /\ i < at
     \/ twice \/ result = "child" \/ (result = "empty" /\ ec = "error")

GivenUp ==
  \A i \in Inits : i \in shut \/ Handed(i) => \A d \in Fds : table[d] # <<"own", i>>

\* The numbers limit_handles_ spares, once its on_setup was called.
Limited == \E l \in Inits : Nth(l).kind = "limit" /\ (pc = "setup" => l < at)
Spares  == \A i \in Inits : Nth(i).kind \in Binders \ {"future"} => Nth(i).to \subseteq used

Sparing ==
  /\ pc \in {"setup", "fork"} /\ ec = "ok" /\ Limited =>
       Spares /\ \A d \in Fds : table[d] = <<"ew", 0>> => d \in used
  /\ child # "none" /\ Limited => Spares

\* The child's descriptors, between two calls of on_exec_setup.
Inherited(d) ==
  /\ fds[d][1] # "er"
  /\ fds[d][1] = "ew" => fds[d][2] = 0 /\ child = "setup" /\ cloexec
  /\ fds[d][1] = "opp" =>
       fds[d][2] \in Inits /\ d = opp[fds[d][2]] /\ step =< fds[d][2] /\ Nth(fds[d][2]).kind \in Pipers
  /\ fds[d][1] = "own" =>
       /\ fds[d][2] \in Inits
       /\ step =< fds[d][2] => d = own[fds[d][2]]
       /\ fds[d][2] < step /\ Nth(fds[d][2]).kind \in Pipers => d \in Nth(fds[d][2]).to

Reports ==
  \E e \in Fds \ Std :
    /\ fds[e] = <<"ew", 0>>
    /\ \A i \in Inits : e # own[i] /\ e # opp[i]
    /\ Limited => e \in used

ChildEnds ==
  /\ child \in {"setup", "running"} => \A d \in Fds : Inherited(d)
  /\ child = "setup" =>
       \A i \in Inits : step =< i /\ own[i] \in Fds => fds[own[i]] \in {<<"own", i>>, Closed}
  /\ child = "setup" /\ HasErrorPipe => Reports

IInv == TypeOK /\ Stage /\ Process /\ EndsOwned /\ BeforeFork /\ GivenUp /\ Sparing /\ ChildEnds

\* The streams that are set up, while no error was reported.
Streams ==
  child \in {"setup", "running"} /\ ~told /\ ec = "ok" /\ mode # "ignore" =>
    \A i \in Inits : i < step /\ Nth(i).kind \in Binders =>
      \A d \in Nth(i).to :
        \/ fds[d] = <<"own", i>>
        \/ \E j \in Inits : i < j /\ j < step /\ d \in Nth(j).to

-------------------------------------------------------------------------------
(***************************************************************************)
(* Descriptors and initializers.                                           *)
(***************************************************************************)
LEMMA MinIsMember ==
  ASSUME NEW S, S \subseteq Nat, S # {}
  PROVE  Min(S) \in S
<1>1. PICK x \in S : \A y \in S : ~(<<y, x>> \in OpToRel(<, Nat))
  BY NatLessThanWellFounded, WFMin
<1>2. \A y \in S : ~(y < x)
  BY <1>1 DEF OpToRel
<1>3. \A y \in S : x =< y
  BY <1>2
<1> QED
  BY <1>3 DEF Min

LEMMA LowestIsFree ==
  ASSUME Posix, NEW t, FreeIn(t) # {}
  PROVE  Lowest(t) \in Fds /\ t[Lowest(t)] = Closed
<1>1. FreeIn(t) \subseteq Nat
  BY DEF Posix, FreeIn, Fds
<1> QED
  BY <1>1, MinIsMember DEF Lowest, FreeIn

LEMMA PipeOpens ==
  ASSUME Posix, NEW t, TwoFree(t)
  PROVE  \E d, e \in Fds :
           /\ d # e /\ t[d] = Closed /\ t[e] = Closed
           /\ \A r, w : PipeIn(t, r, w) = [fd |-> <<d, e>>, table |-> [t EXCEPT ![d] = r, ![e] = w]]
<1> DEFINE S == FreeIn(t)
           d == Min(S)
<1>1. S \subseteq Nat /\ IsFiniteSet(S) /\ S \subseteq Fds
  <2>1. IsFiniteSet(Fds) /\ Fds \subseteq Nat
    BY FS_Interval DEF Posix, Fds
  <2> QED
    BY <2>1, FS_Subset DEF FreeIn
<1>2. Cardinality(S) >= 2
  BY DEF TwoFree
<1> HIDE DEF S
<1>3. S # {}
  BY <1>2, FS_EmptySet
<1>4. d \in S
  BY <1>1, <1>3, MinIsMember
<1>5. S \ {d} # {}
  <2>1. ASSUME S = {d} PROVE FALSE
    <3>1. Cardinality({d}) = 1
      BY FS_Singleton
    <3>2. Cardinality(S) = 1
      BY <2>1, <3>1, Zenon
    <3> QED
      BY <1>2, <3>2
  <2> QED
    BY <1>4, <2>1
<1>6. Min(S \ {d}) \in S \ {d}
  BY <1>1, <1>5, MinIsMember
<1> QED
  BY <1>1, <1>4, <1>6 DEF PipeIn, Lowest, S, FreeIn

LEMMA Planned ==
  ASSUME Posix, TypeOK
  PROVE  /\ Inits = 1..Len(plan) /\ Len(plan) \in Nat
         /\ \A i \in Inits : /\ i \in Nat \ {0} /\ Nth(i).to \subseteq Std
                             /\ Nth(i).kind \in Binders \cup Closers \cup {"limit", "throw_on_error", "bad_setup",
                                                             "bad_exec_setup", "bad_success"}
                             /\ Nth(i).kind \notin Binders \cup Closers => Nth(i).to = {}
<1>1. plan \in Seq(Initializers)
  BY DEF Posix, TypeOK
<1>2. Inits = 1..Len(plan) /\ Len(plan) \in Nat /\ \A i \in Inits : Nth(i) \in Initializers
  BY <1>1 DEF Inits, Nth
<1>3. ASSUME NEW x \in Initializers
      PROVE  /\ x.to \subseteq Std
             /\ x.kind \in Binders \cup Closers \cup {"limit", "throw_on_error", "bad_setup",
                                        "bad_exec_setup", "bad_success"}
             /\ x.kind \notin Binders \cup Closers => x.to = {}
  BY <1>3 DEF Initializers, StdIn, StdOut, CloseFd, Handlers, Std, Binders, Closers, Pipers, Takers, Asyncs
<1> QED
  BY <1>2, <1>3

LEMMA Typed ==
  /\ \A s \in {"std", "own", "opp", "er", "ew", "other"} : \A n \in Int : <<s, n>> \in Files
  /\ Closed \in Files /\ Other \in Files
  /\ \A t \in [Fds -> Files] : \A ds : Without(t, ds) \in [Fds -> Files]
  /\ \A t : \A ds : \A d \in Fds : Without(t, ds)[d] = IF d \in ds THEN Closed ELSE t[d]
BY DEF Files, Closed, Other, Without

-------------------------------------------------------------------------------
(***************************************************************************)
(* Types.                                                                  *)
(***************************************************************************)
LEMMA LeaveTyped ==
  ASSUME TypeOK, NEW r \in {"throw", "empty", "crash", "child"}, NEW t \in [Fds -> Files], Leave(r, t),
         UNCHANGED <<callVars, told, sibling>>
  PROVE  TypeOK'
<1>1. table' \in [Fds -> Files] /\ guard' = {}
  BY Typed DEF Leave
<1> QED
  BY <1>1 DEF Leave, TypeOK, Inits, callVars

LEMMA SetErrorTyped ==
  ASSUME TypeOK, SetError(table), UNCHANGED <<callVars, told, sibling>>
  PROVE  TypeOK'
<1>1. CASE Leave("throw", table)
  BY <1>1, LeaveTyped DEF TypeOK
<1> QED
  BY <1>1 DEF SetError, NextInit, TypeOK, Inits, callVars, childVars

LEMMA CloseEndTyped ==
  ASSUME TypeOK, at \in Inits, CloseEnd(at)
  PROVE  table' \in [Fds -> Files] /\ shut' \subseteq Inits
BY Typed DEF TypeOK, CloseEnd

\* What OpenPipe and OnSetup do besides leaving.
PipeOpened(d, e) ==
  /\ d # e /\ table[d] = Closed /\ table[e] = Closed
  /\ table' = [table EXCEPT ![d] = <<"er", 0>>, ![e] = <<"ew", 0>>] /\ guard' = {d, e}
  /\ Goto("flag")
  /\ UNCHANGED <<own, opp, shut, cloexec, used, ec, handle, twice, result, childVars>>

StreamOpened(d, e) ==
  /\ ec = "ok" /\ Nth(at).kind \in Asyncs
  /\ d # e /\ table[d] = Closed /\ table[e] = Closed
  /\ table' = [table EXCEPT ![d] = <<"own", at>>, ![e] = <<"opp", at>>]
  /\ own' = [own EXCEPT ![at] = d] /\ opp' = [opp EXCEPT ![at] = e]
  /\ NextInit
  /\ UNCHANGED <<guard, shut, used, ec, handle, cloexec, twice, result, childVars>>

Passed ==
  /\ NextInit
  /\ UNCHANGED <<table, guard, own, opp, shut, ec, handle, cloexec, twice, result, childVars>>
  /\ \/ (ec = "error" \/ Nth(at).kind # "limit") /\ used' = used
     \/ ec = "ok" /\ Nth(at).kind = "limit" /\ used' = UsedHandles

LEMMA OpenPipeKinds ==
  ASSUME Posix, OpenPipe
  PROVE  /\ pc = "pipe" /\ UNCHANGED <<callVars, told, sibling>>
         /\ \/ \E d, e \in Fds : PipeOpened(d, e)
            \/ \E r \in {"throw", "empty"} : Leave(r, table) /\ (r = "throw" <=> mode = "throw")
<1>1. CASE TwoFree(table)
  <2>1. PICK d, e \in Fds :
          /\ d # e /\ table[d] = Closed /\ table[e] = Closed
          /\ \A r, w : PipeIn(table, r, w) = [fd |-> <<d, e>>, table |-> [table EXCEPT ![d] = r, ![e] = w]]
    BY <1>1, PipeOpens
  <2>2. PipeOpened(d, e)
    BY <1>1, <2>1 DEF OpenPipe, PipeOpened
  <2> QED
    BY <2>2 DEF OpenPipe
<1>2. CASE ~TwoFree(table)
  <2>1. Leave(IF mode = "throw" THEN "throw" ELSE "empty", table)
    BY <1>2 DEF OpenPipe
  <2> QED
    BY <2>1 DEF OpenPipe
<1> QED
  BY <1>1, <1>2

LEMMA OnSetupKinds ==
  ASSUME Posix, OnSetup
  PROVE  /\ pc = "setup" /\ at \in Inits /\ UNCHANGED <<callVars, told, sibling>>
         /\ \/ \E d, e \in Fds : StreamOpened(d, e)
            \/ Passed
            \/ Leave("throw", table)
            \/ SetError(table) /\ ec = "ok" /\ Nth(at).kind = "bad_setup"
<1>1. CASE ec = "ok" /\ Nth(at).kind \in Asyncs /\ TwoFree(table)
  <2>1. PICK d, e \in Fds :
          /\ d # e /\ table[d] = Closed /\ table[e] = Closed
          /\ \A r, w : PipeIn(table, r, w) = [fd |-> <<d, e>>, table |-> [table EXCEPT ![d] = r, ![e] = w]]
    BY <1>1, PipeOpens
  <2>2. StreamOpened(d, e)
    BY <1>1, <2>1 DEF OnSetup, StreamOpened, Asyncs
  <2> QED
    BY <2>2 DEF OnSetup, Calls
<1>2. CASE ~(ec = "ok" /\ Nth(at).kind \in Asyncs /\ TwoFree(table))
  BY <1>2 DEF OnSetup, Calls, Passed, Asyncs
<1> QED
  BY <1>1, <1>2

LEMMA SetupTyped ==
  ASSUME Posix, TypeOK, OpenPipe \/ SetCloexec \/ OnSetup \/ SetUp \/ ForkFails \/ Fork
  PROVE  TypeOK'
<1>1. CASE OpenPipe
  <2>1. ASSUME NEW r \in {"throw", "empty"}, Leave(r, table) PROVE TypeOK'
    BY <1>1, <2>1, LeaveTyped, OpenPipeKinds DEF TypeOK
  <2>2. ASSUME NEW d \in Fds, NEW e \in Fds, PipeOpened(d, e) PROVE TypeOK'
    <3>1. table' \in [Fds -> Files] /\ guard' \subseteq Fds
      BY <2>2, Typed DEF TypeOK, PipeOpened
    <3> QED
      BY <1>1, <2>2, <3>1, OpenPipeKinds DEF PipeOpened, Goto, TypeOK, Inits, callVars, childVars
  <2> QED
    BY <1>1, <2>1, <2>2, OpenPipeKinds
<1>2. CASE SetCloexec \/ SetUp
  <2>1. cloexec' \in BOOLEAN
    BY <1>2 DEF SetCloexec, SetUp, TypeOK
  <2> QED
    BY <1>2, <2>1 DEF SetCloexec, SetUp, Goto, TypeOK, Inits, callVars, childVars
<1>3. CASE OnSetup
  <2>1. CASE Leave("throw", table)
    BY <1>3, <2>1, LeaveTyped DEF TypeOK, OnSetup
  <2>2. CASE SetError(table)
    BY <1>3, <2>2, SetErrorTyped DEF OnSetup
  <2>3. ASSUME NEW d \in Fds, NEW e \in Fds, StreamOpened(d, e) PROVE TypeOK'
    <3>1. d \in Int /\ e \in Int /\ at \in Int
      BY DEF Fds, Posix, TypeOK
    <3>2. table' \in [Fds -> Files] /\ own' \in [Inits -> Int] /\ opp' \in [Inits -> Int]
      BY <2>3, <3>1, Typed DEF TypeOK, StreamOpened
    <3> QED
      BY <1>3, <2>3, <3>2, OnSetupKinds DEF StreamOpened, NextInit, TypeOK, Inits, callVars, childVars
  <2>4. CASE Passed
    BY <1>3, <2>4, OnSetupKinds DEF Passed, NextInit, TypeOK, Inits, callVars, childVars
  <2> QED
    BY <1>3, <2>1, <2>2, <2>3, <2>4, OnSetupKinds
<1>4. CASE ForkFails
  <2>1. CASE Leave("empty", table)
    BY <1>4, <2>1, LeaveTyped DEF TypeOK, ForkFails
  <2> QED
    BY <1>4, <2>1 DEF ForkFails, Goto, TypeOK, Inits, callVars, childVars
<1>5. CASE Fork
  <2>1. fds' \in [Fds -> Files]
    BY <1>5, Typed DEF Fork, TypeOK
  <2> QED
    BY <1>5, <2>1 DEF Fork, Goto, TypeOK, Inits, callVars
<1> QED
  BY <1>1, <1>2, <1>3, <1>4, <1>5

LEMMA ParentTyped ==
  ASSUME Posix, TypeOK,
         \/ CloseSink \/ ReadError \/ Reap \/ Resume \/ CheckError
         \/ OnSuccess \/ Succeeded \/ OnError \/ Failed
  PROVE  TypeOK'
<1>1. CASE CloseSink
  <2>1. table' \in [Fds -> Files] /\ guard' \subseteq Fds
    BY <1>1, Typed DEF CloseSink, TypeOK
  <2> QED
    BY <1>1, <2>1 DEF CloseSink, Goto, TypeOK, Inits, callVars, childVars
<1>2. CASE ReadError
  <2>1. CASE Leave("throw", table)
    BY <1>2, <2>1, LeaveTyped DEF TypeOK, ReadError
  <2>2. CASE ~Leave("throw", table)
    <3>1. table' \in [Fds -> Files] /\ guard' = {}
      BY <1>2, <2>2, Typed DEF ReadError, TypeOK
    <3> QED
      BY <1>2, <2>2, <3>1 DEF ReadError, Goto, TypeOK, Inits, callVars, childVars
  <2> QED
    BY <2>1, <2>2
<1>3. CASE Reap \/ Resume
  BY <1>3 DEF Reap, Resume, Goto, TypeOK, Inits, callVars, childVars
<1>4. CASE CheckError
  <2>1. CASE Leave("throw", table)
    BY <1>4, <2>1, LeaveTyped DEF TypeOK, CheckError
  <2> QED
    BY <1>4, <2>1 DEF CheckError, Goto, TypeOK, Inits, callVars, childVars
<1>5. CASE OnSuccess
  <2>1. CASE SetError(table)
    BY <1>5, <2>1, SetErrorTyped DEF OnSuccess
  <2>2. CASE ~SetError(table)
    <3>1. table' \in [Fds -> Files] /\ shut' \subseteq Inits
      BY <1>5, <2>2, CloseEndTyped DEF OnSuccess, Calls, TypeOK
    <3> QED
      BY <1>5, <2>2, <3>1 DEF OnSuccess, NextInit, TypeOK, Inits, callVars, childVars
  <2> QED
    BY <2>1, <2>2
<1>6. CASE Succeeded
  <2>1. CASE Leave("child", table)
    BY <1>6, <2>1, LeaveTyped DEF TypeOK, Succeeded
  <2>2. twice' \in BOOLEAN
    BY <1>6, <2>1 DEF Succeeded, TypeOK
  <2> QED
    BY <1>6, <2>1, <2>2 DEF Succeeded, Goto, TypeOK, Inits, callVars, childVars
<1>7. CASE OnError
  <2>1. ASSUME NEW r \in {"crash", "throw"}, Leave(r, table) PROVE TypeOK'
    BY <1>7, <2>1, LeaveTyped DEF TypeOK, OnError
  <2>2. CASE CloseEnd(at) /\ NextInit
    BY <1>7, <2>1, <2>2, CloseEndTyped DEF OnError, Calls, NextInit, TypeOK, Inits, callVars, childVars
  <2> QED
    BY <1>7, <2>1, <2>2 DEF OnError, NextInit, TypeOK, Inits, callVars, childVars
<1>8. CASE Failed
  BY <1>8, LeaveTyped DEF TypeOK, Failed
<1> QED
  BY <1>1, <1>2, <1>3, <1>4, <1>5, <1>6, <1>7, <1>8

LEMMA ChildTyped ==
  ASSUME Posix, TypeOK,
         \/ OnExecSetup \/ Exec \/ ExecFails \/ Exit \/ Killed
         \/ OtherOpens \/ SiblingStarts \/ SiblingEnds \/ UNCHANGED vars
  PROVE  TypeOK'
<1>1. CASE OnExecSetup
  <2>1. Reported \/ UNCHANGED <<told, ec>>
    BY <1>1 DEF OnExecSetup
  <2>2. told' \in BOOLEAN /\ ec' \in {"ok", "error"}
    BY <2>1 DEF Reported, TypeOK
  <2>3. CASE fds' = Bound(step) /\ IsOpen(fds, own[step])
    <3>1. [d \in Fds |-> IF d \in Nth(step).to THEN fds[own[step]] ELSE fds[d]] \in [Fds -> Files]
      BY <2>3 DEF IsOpen, TypeOK
    <3>2. fds' \in [Fds -> Files]
      BY <2>3, <3>1, Typed DEF Bound
    <3> QED
      BY <1>1, <2>2, <3>2 DEF OnExecSetup, TypeOK, Inits, callVars
  <2>4. CASE fds' = fds \/ \E ds : fds' = Without(fds, ds)
    <3>1. fds' \in [Fds -> Files]
      BY <2>4, Typed DEF TypeOK
    <3> QED
      BY <1>1, <2>2, <3>1 DEF OnExecSetup, TypeOK, Inits, callVars
  <2> QED
    BY <1>1, <2>3, <2>4 DEF OnExecSetup
<1>2. CASE Exec \/ ExecFails \/ Exit \/ Killed
  <2>1. fds' \in [Fds -> Files]
    BY <1>2, Typed DEF Exec, ExecFails, Exit, Killed, TypeOK
  <2>2. told' \in BOOLEAN /\ ec' \in {"ok", "error"}
    BY <1>2 DEF Exec, ExecFails, Exit, Killed, Reported, TypeOK, parentVars
  <2> QED
    BY <1>2, <2>1, <2>2 DEF Exec, ExecFails, Exit, Killed, TypeOK, Inits, callVars, parentVars
<1>3. CASE OtherOpens
  <2>1. table' \in [Fds -> Files]
    BY <1>3, LowestIsFree, Typed DEF OtherOpens, TypeOK
  <2> QED
    BY <1>3, <2>1 DEF OtherOpens, TypeOK, Inits, callVars, childVars
<1>4. CASE SiblingStarts \/ SiblingEnds \/ UNCHANGED vars
  BY <1>4 DEF SiblingStarts, SiblingEnds, vars, TypeOK, Inits, callVars, parentVars, childVars
<1> QED
  BY <1>1, <1>2, <1>3, <1>4

LEMMA TypeStep ==
  ASSUME Posix, TypeOK, [Next]_vars
  PROVE  TypeOK'
BY SetupTyped, ParentTyped, ChildTyped DEF Next, Invoke, ChildStep

-------------------------------------------------------------------------------
(***************************************************************************)
(* The places.                                                             *)
(***************************************************************************)
Staged == TypeOK /\ Stage /\ Process

LEMMA LeaveStaged ==
  ASSUME Staged, NEW r, NEW t, Leave(r, t), UNCHANGED <<callVars, told, sibling>>,
         pc \notin {"done", "suspended"},
         r = "child" => pc = "success" /\ ec = "ok"
  PROVE  Stage' /\ Process'
<1>1. /\ pc' = "done" /\ result' = r /\ handle' = "none"
      /\ UNCHANGED <<mode, how, plan, told, ec, twice, cloexec, step, fate>>
      /\ child' = IF handle = "local" /\ r # "child" THEN "reaped" ELSE child
  BY DEF Leave, callVars
<1>2. Stage'
  BY <1>1 DEF Staged, Stage, Launched, HasErrorPipe
<1>3. HandleReaps'
  BY <1>1 DEF Staged, Stage, Process, HandleReaps
<1> QED
  BY <1>1, <1>2, <1>3 DEF Staged, Process, Launched, HasErrorPipe, Inits

LEMMA SetErrorStaged ==
  ASSUME Staged, SetError(table), UNCHANGED <<callVars, told, sibling>>, pc \in {"setup", "success"}
  PROVE  Stage' /\ Process'
<1>1. CASE Leave("throw", table)
  BY <1>1, LeaveStaged
<1>2. CASE ~Leave("throw", table)
  <2>1. UNCHANGED <<mode, how, plan, told, twice, cloexec, step, fate, child, handle, result, shut, pc>>
    BY <1>2 DEF SetError, NextInit, callVars, childVars
  <2>2. HandleReaps'
    BY <2>1 DEF HandleReaps, Staged, Process
  <2>3. result = "none"
    BY DEF Staged, Stage
  <2>4. ec' \in {"ok", "error"} /\ (ec = "error" => ec' = "error")
    BY <1>2 DEF SetError, Staged, TypeOK
  <2> QED
    BY <2>1, <2>2, <2>3, <2>4 DEF Staged, Stage, Process, Launched, HasErrorPipe, Inits
<1> QED
  BY <1>1, <1>2

LEMMA SetupStaged ==
  ASSUME Posix, Staged, OpenPipe \/ SetCloexec \/ OnSetup \/ SetUp \/ ForkFails \/ Fork
  PROVE  Stage' /\ Process'
<1>1. CASE OpenPipe
  <2>1. ASSUME NEW r \in {"throw", "empty"}, Leave(r, table) PROVE Stage' /\ Process'
    BY <1>1, <2>1, LeaveStaged, OpenPipeKinds
  <2>2. ASSUME NEW d \in Fds, NEW e \in Fds, PipeOpened(d, e) PROVE Stage' /\ Process'
    BY <1>1, <2>2, OpenPipeKinds
    DEF PipeOpened, Goto, callVars, childVars, Staged, Stage, Process, Launched, HasErrorPipe, Inits, HandleReaps
  <2> QED
    BY <1>1, <2>1, <2>2, OpenPipeKinds
<1>2. CASE SetCloexec \/ SetUp
  BY <1>2
  DEF SetCloexec, SetUp, Called, Goto, callVars, childVars, Staged, TypeOK, Stage, Process, Launched, HasErrorPipe,
      Inits, HandleReaps
<1>3. CASE OnSetup
  <2>1. CASE Leave("throw", table)
    BY <1>3, <2>1, LeaveStaged, OnSetupKinds
  <2>2. CASE SetError(table)
    BY <1>3, <2>2, SetErrorStaged, OnSetupKinds
  <2>3. CASE Passed \/ \E d, e \in Fds : StreamOpened(d, e)
    <3>1. UNCHANGED <<mode, how, plan, told, twice, cloexec, child, handle, ec, result, shut, pc, step, fate>>
      BY <1>3, <2>3, OnSetupKinds DEF Passed, StreamOpened, NextInit, callVars, childVars
    <3> QED
      BY <1>3, <3>1, OnSetupKinds DEF Staged, Stage, Process, Launched, HasErrorPipe, Inits, HandleReaps
  <2> QED
    BY <1>3, <2>1, <2>2, <2>3, OnSetupKinds
<1>4. CASE ForkFails
  <2>1. CASE Leave("empty", table)
    BY <1>4, <2>1, LeaveStaged DEF ForkFails
  <2> QED
    BY <1>4, <2>1
    DEF ForkFails, Goto, callVars, childVars, Staged, Stage, Process, Launched, HasErrorPipe, Inits, HandleReaps
<1>5. CASE Fork
  BY <1>5 DEF Fork, Goto, callVars, Staged, TypeOK, Stage, Process, Launched, HasErrorPipe, Inits, HandleReaps
<1> QED
  BY <1>1, <1>2, <1>3, <1>4, <1>5

\* The end of the file comes only after the child has left its setup.
LEMMA ParentStaged ==
  ASSUME Staged, ChildEnds,
         \/ CloseSink \/ ReadError \/ Reap \/ Resume \/ CheckError
         \/ OnSuccess \/ Succeeded \/ OnError \/ Failed
  PROVE  Stage' /\ Process'
<1>1. CASE CloseSink \/ Reap \/ Resume
  BY <1>1
  DEF CloseSink, Reap, Resume, Goto, callVars, childVars, Staged, TypeOK, Stage, Process, Launched, HasErrorPipe,
      Inits, HandleReaps
<1>2. CASE ReadError
  <2>1. CASE Leave("throw", table)
    BY <1>2, <2>1, LeaveStaged DEF ReadError
  <2>2. CASE told /\ ~Leave("throw", table)
    BY <1>2, <2>2
    DEF ReadError, Goto, callVars, childVars, Staged, Stage, Process, Launched, HasErrorPipe, Inits, HandleReaps
  <2>3. CASE ~told
    <3>1. /\ pc = "read" /\ pc' = "success" /\ handle' = "local" /\ ~Held(fds, <<"ew", 0>>)
          /\ UNCHANGED <<mode, how, plan, told, ec, twice, cloexec, child, result, shut, step, fate>>
      BY <1>2, <2>3 DEF ReadError, Goto, callVars, childVars
    <3>2. child # "setup"
      BY <3>1 DEF ChildEnds, Reports, Held, Staged, Stage
    <3> QED
      BY <2>3, <3>1, <3>2 DEF Staged, Stage, Process, Launched, HasErrorPipe, Inits, HandleReaps
  <2> QED
    BY <2>1, <2>2, <2>3
<1>3. CASE CheckError
  <2>1. CASE Leave("throw", table)
    BY <1>3, <2>1, LeaveStaged DEF CheckError
  <2> QED
    BY <1>3, <2>1
    DEF CheckError, Goto, callVars, childVars, Staged, TypeOK, Stage, Process, Launched, HasErrorPipe, Inits, HandleReaps
<1>4. CASE OnSuccess
  <2>1. CASE SetError(table)
    BY <1>4, <2>1, SetErrorStaged DEF OnSuccess, Calls
  <2>2. CASE ~SetError(table)
    <3>1. /\ pc = "success"
          /\ UNCHANGED <<mode, how, plan, told, ec, twice, cloexec, child, handle, result, pc, step, fate>>
      BY <1>4, <2>2 DEF OnSuccess, Calls, NextInit, callVars, childVars
    <3> QED
      BY <3>1 DEF Staged, Stage, Process, Launched, HasErrorPipe, Inits, HandleReaps
  <2> QED
    BY <2>1, <2>2
<1>5. CASE Succeeded
  <2>1. CASE ec # "error"
    BY <1>5, <2>1, LeaveStaged DEF Succeeded, Called, Staged, TypeOK
  <2>2. CASE ec = "error"
    BY <1>5, <2>2
    DEF Succeeded, Called, Goto, callVars, childVars, Staged, Stage, Process, Launched, HasErrorPipe, Inits, HandleReaps
  <2> QED
    BY <2>1, <2>2
<1>6. CASE OnError
  <2>1. ASSUME NEW r \in {"crash", "throw"}, Leave(r, table) PROVE Stage' /\ Process'
    BY <1>6, <2>1, LeaveStaged DEF OnError, Calls
  <2>2. CASE ~Leave("crash", table) /\ ~Leave("throw", table)
    <3>1. /\ pc = "error"
          /\ UNCHANGED <<mode, how, plan, told, ec, twice, cloexec, child, handle, result, pc, step, fate>>
      BY <1>6, <2>2 DEF OnError, Calls, NextInit, callVars, childVars
    <3> QED
      BY <3>1 DEF Staged, Stage, Process, Launched, HasErrorPipe, Inits, HandleReaps
  <2> QED
    BY <2>1, <2>2
<1>7. CASE Failed
  BY <1>7, LeaveStaged DEF Failed, Called
<1> QED
  BY <1>1, <1>2, <1>3, <1>4, <1>5, <1>6, <1>7

LEMMA ChildStaged ==
  ASSUME Staged,
         \/ OnExecSetup \/ Exec \/ ExecFails \/ Exit \/ Killed
         \/ OtherOpens \/ SiblingStarts \/ SiblingEnds \/ UNCHANGED vars
  PROVE  Stage' /\ Process'
<1>1. CASE OnExecSetup
  <2>1. /\ child = "setup"
        /\ UNCHANGED <<mode, how, plan, pc, at, handle, twice, cloexec, child, result, shut, fate>>
        /\ Reported \/ UNCHANGED <<told, ec>>
    BY <1>1 DEF OnExecSetup, callVars
  <2>2. /\ ec' # ec => how = "vfork" /\ mode # "ignore" /\ ec' = "error"
        /\ told' # told => HasErrorPipe /\ told' = TRUE
    BY <2>1 DEF Reported, Staged, TypeOK
  <2> QED
    BY <2>1, <2>2 DEF Staged, TypeOK, Stage, Process, Launched, HasErrorPipe, Inits, HandleReaps
<1>2. CASE ExecFails
  <2>1. /\ child = "setup" /\ child' = "exiting" /\ fate' = "failed"
        /\ UNCHANGED <<mode, how, plan, pc, at, handle, twice, cloexec, result, shut, step>>
        /\ Reported
    BY <1>2 DEF ExecFails, callVars
  <2>2. /\ ec' # ec => how = "vfork" /\ mode # "ignore" /\ ec' = "error"
        /\ told' # told => HasErrorPipe /\ told' = TRUE
        /\ told' \/ ec' = "error" \/ mode = "ignore"
    BY <2>1 DEF Reported, Staged, TypeOK, HasErrorPipe
  <2> QED
    BY <2>1, <2>2 DEF Staged, TypeOK, Stage, Process, Launched, HasErrorPipe, Inits, HandleReaps
<1>3. CASE Exec \/ Exit \/ Killed
  BY <1>3
  DEF Exec, Exit, Killed, callVars, parentVars, Staged, TypeOK, Stage, Process, Launched, HasErrorPipe, Inits,
      HandleReaps
<1>4. CASE OtherOpens \/ SiblingStarts \/ SiblingEnds \/ UNCHANGED vars
  <2>1. UNCHANGED <<mode, how, plan, told, ec, twice, cloexec, child, handle, result, pc, at, shut, step, fate>>
    BY <1>4 DEF OtherOpens, SiblingStarts, SiblingEnds, vars, callVars, childVars, parentVars
  <2> QED
    BY <2>1 DEF Staged, Stage, Process, Launched, HasErrorPipe, Inits, HandleReaps
<1> QED
  BY <1>1, <1>2, <1>3, <1>4

LEMMA StagedStep ==
  ASSUME Posix, IInv, [Next]_vars
  PROVE  Stage' /\ Process'
BY SetupStaged, ParentStaged, ChildStaged DEF Next, Invoke, ChildStep, IInv, Staged

-------------------------------------------------------------------------------
(***************************************************************************)
(* The parent's table.  Besides pipe(2), a step only gives up descriptors, *)
(* those of pipe_guard and an end that has been handed to the child, and   *)
(* another thread opens a file where nothing is.                           *)
(***************************************************************************)
EndsStay == UNCHANGED <<mode, how, plan, own, opp>>

GivesUp(d) == table[d] # Closed /\ table'[d] = Closed /\ d \notin guard' /\ d \notin Std

Shrinks ==
  /\ EndsStay
  /\ guard' \subseteq guard /\ (pc' = "success" \/ twice' => guard' = {})
  /\ \A i \in Inits : Keeps(i)' => Keeps(i) /\ (own[i] \in Fds => table'[own[i]] = table[own[i]])
  /\ \A d \in Fds : table'[d] = table[d] \/ GivesUp(d) \/ (table[d] = Closed /\ table'[d] = Other)
  /\ ~twice => \A d \in Fds : table[d] = Other => table'[d] = Other

LEMMA Unchanging ==
  ASSUME Posix, IInv, TypeOK', EndsStay, UNCHANGED <<table, guard>>,
         pc' = "success" \/ twice' => guard = {},
         \A i \in Inits : Keeps(i)' => Keeps(i)
  PROVE  Shrinks
BY DEF Shrinks, EndsStay

LEMMA GuardCloses ==
  ASSUME Posix, IInv, TypeOK', EndsStay, table' = Without(table, guard), guard' = {},
         \A i \in Inits : Keeps(i)' => Keeps(i)
  PROVE  Shrinks
<1>1. \A d \in guard : d \in Fds /\ table[d][1] \in {"er", "ew"}
  BY DEF IInv, EndsOwned, TypeOK
<1>2. \A d \in Fds : table'[d] = IF d \in guard THEN Closed ELSE table[d]
  BY Typed
<1>3. \A d \in guard : d \notin Std /\ table[d] # Other /\ table[d] # Closed
  BY <1>1 DEF IInv, EndsOwned, Other, Closed
<1>4. \A i \in Inits : Keeps(i) /\ own[i] \in Fds => own[i] \notin guard
  BY <1>1 DEF IInv, EndsOwned
<1> QED
  BY <1>2, <1>3, <1>4 DEF Shrinks, GivesUp

LEMMA LeaveShrinks ==
  ASSUME Posix, IInv, TypeOK', NEW r, Leave(r, table), UNCHANGED <<callVars, told, sibling>>
  PROVE  Shrinks
<1>1. \A i \in Inits : ~Keeps(i)'
  BY DEF Keeps, Leave
<1> QED
  BY <1>1, GuardCloses DEF Leave, callVars, EndsStay

LEMMA CloseEndShrinks ==
  ASSUME Posix, IInv, at \in Inits, pc \in {"success", "error"}, CloseEnd(at), NextInit,
         UNCHANGED <<callVars, guard, own, opp, twice>>
  PROVE  Shrinks
<1>1. /\ at \in Nat /\ table \in [Fds -> Files] /\ Inits \subseteq Nat
      /\ own[at] \notin Std
      /\ \A i \in Inits : Keeps(i) /\ own[i] \in Fds => table[own[i]] = <<"own", i>>
      /\ \A d \in guard : table[d][1] \in {"er", "ew"}
      /\ pc = "success" \/ twice => guard = {}
  BY Planned DEF IInv, EndsOwned, TypeOK
<1>2. \A i \in Inits : Keeps(i)' => Keeps(i) /\ i # at
  BY <1>1 DEF Keeps, NextInit
<1>3. \A d \in Fds : table'[d] = table[d] \/ (d = own[at] /\ table'[d] = Closed)
  BY Typed DEF CloseEnd
<1>4. ~twice => Keeps(at)
  BY <1>1 DEF Keeps
<1>5. \A i \in Inits : Keeps(i)' /\ own[i] \in Fds => table'[own[i]] = table[own[i]]
  <2> SUFFICES ASSUME NEW i \in Inits, Keeps(i)', own[i] \in Fds PROVE table'[own[i]] = table[own[i]]
    OBVIOUS
  <2>1. Keeps(at) /\ Keeps(i) /\ i # at
    BY <1>2, <1>4 DEF Keeps
  <2>2. own[i] # own[at]
    BY <1>1, <2>1
  <2> QED
    BY <1>3, <2>2
<1>6. \A d \in guard : d # own[at] \/ d \notin Fds
  BY <1>1, <1>4
<1>7. ~twice /\ own[at] \in Fds => table[own[at]] # Other
  BY <1>1, <1>4 DEF Other
<1>8. UNCHANGED <<mode, how, plan, own, opp, guard, twice, pc>>
  BY DEF callVars, NextInit
<1>9. \A d \in Fds : table'[d] = table[d] \/ GivesUp(d)
  BY <1>1, <1>3, <1>6, <1>8 DEF GivesUp
<1>10. pc' = "success" \/ twice' => guard' = {}
  BY <1>1, <1>8
<1> QED
  BY <1>2, <1>3, <1>5, <1>7, <1>8, <1>9, <1>10 DEF Shrinks, EndsStay

LEMMA SetErrorShrinks ==
  ASSUME Posix, IInv, TypeOK', SetError(table), UNCHANGED <<callVars, told, sibling>>
  PROVE  Shrinks
<1>1. CASE Leave("throw", table)
  BY <1>1, LeaveShrinks
<1>2. CASE ~Leave("throw", table)
  <2>1. EndsStay /\ UNCHANGED <<table, guard, pc, twice>> /\ at' = at + 1
    BY <1>2 DEF SetError, NextInit, callVars, EndsStay
  <2>2. \A i \in Inits : Keeps(i)' => Keeps(i)
    BY <2>1, Planned DEF Keeps, IInv, TypeOK
  <2> QED
    BY <2>1, <2>2, Unchanging DEF IInv, EndsOwned
<1> QED
  BY <1>1, <1>2

LEMMA SetupShrinks ==
  ASSUME Posix, IInv, TypeOK', OpenPipe \/ SetCloexec \/ OnSetup \/ SetUp \/ ForkFails \/ Fork
  PROVE  \/ Shrinks
         \/ OpenPipe /\ \E d, e \in Fds : PipeOpened(d, e)
         \/ OnSetup /\ \E d, e \in Fds : StreamOpened(d, e)
<1>1. CASE OpenPipe
  BY <1>1, OpenPipeKinds, LeaveShrinks
<1>2. CASE OnSetup
  <2>1. CASE Passed
    <3>1. EndsStay /\ UNCHANGED <<table, guard, pc, twice>> /\ at' = at + 1
      BY <1>2, <2>1, OnSetupKinds DEF Passed, NextInit, callVars, EndsStay
    <3>2. \A i \in Inits : Keeps(i)' => Keeps(i)
      BY <3>1, Planned DEF Keeps, IInv, TypeOK
    <3> QED
      BY <3>1, <3>2, Unchanging DEF IInv, EndsOwned
  <2> QED
    BY <1>2, <2>1, OnSetupKinds, LeaveShrinks, SetErrorShrinks
<1>3. CASE SetCloexec \/ SetUp \/ (ForkFails /\ ~Leave("empty", table)) \/ Fork
  <2>1. EndsStay /\ UNCHANGED <<table, guard, twice>> /\ pc \in {"flag", "setup", "fork"}
    BY <1>3 DEF SetCloexec, SetUp, Called, ForkFails, Fork, callVars, EndsStay
  <2>2. \A i \in Inits : Keeps(i)' => Keeps(i)
    BY <2>1 DEF Keeps
  <2>3. twice' = FALSE
    BY <2>1 DEF IInv, Stage
  <2>4. pc' = "success" => guard = {}
    <3>1. pc' = "success" => ~HasErrorPipe
      BY <1>3 DEF SetCloexec, SetUp, ForkFails, Fork, Goto, HasErrorPipe
    <3>2. ~HasErrorPipe => guard = {}
      BY DEF IInv, EndsOwned, TypeOK
    <3> QED
      BY <3>1, <3>2
  <2> QED
    BY <2>1, <2>2, <2>3, <2>4, Unchanging
<1>4. CASE ForkFails /\ Leave("empty", table)
  BY <1>4, LeaveShrinks DEF ForkFails
<1> QED
  BY <1>1, <1>2, <1>3, <1>4

LEMMA ParentShrinks ==
  ASSUME Posix, IInv, TypeOK',
         \/ CloseSink \/ ReadError \/ Reap \/ Resume \/ CheckError
         \/ OnSuccess \/ Succeeded \/ OnError \/ Failed
  PROVE  Shrinks
<1>1. CASE CloseSink
  <2>1. /\ EndsStay /\ pc = "close" /\ pc' = "read" /\ twice' = twice
        /\ \A d \in Fds : table'[d] = IF table[d] = <<"ew", 0>> THEN Closed ELSE table[d]
        /\ guard' = {d \in guard : table[d] # <<"ew", 0>>}
    BY <1>1 DEF CloseSink, Goto, callVars, EndsStay
  <2>2. ~twice
    BY <2>1 DEF IInv, Stage
  <2>3. \A i \in Inits : Keeps(i)' => Keeps(i)
    BY <2>1, <2>2 DEF Keeps
  <2>4. \A d \in Fds : table'[d] = table[d] \/ GivesUp(d)
    BY <2>1 DEF GivesUp, IInv, EndsOwned, Closed
  <2>5. \A i \in Inits : Keeps(i) /\ own[i] \in Fds => table'[own[i]] = table[own[i]]
    BY <2>1 DEF IInv, EndsOwned
  <2>6. <<"ew", 0>> # Other
    BY DEF Other
  <2> QED
    BY <2>1, <2>2, <2>3, <2>4, <2>5, <2>6 DEF Shrinks
<1>2. CASE ReadError
  <2>1. CASE Leave("throw", table)
    BY <1>2, <2>1, LeaveShrinks DEF ReadError
  <2>2. CASE ~Leave("throw", table)
    <3>1. EndsStay /\ table' = Without(table, guard) /\ guard' = {} /\ pc = "read"
      BY <1>2, <2>2 DEF ReadError, callVars, EndsStay
    <3>2. \A i \in Inits : Keeps(i)
      BY <3>1 DEF Keeps, IInv, Stage
    <3> QED
      BY <3>1, <3>2, GuardCloses
  <2> QED
    BY <2>1, <2>2
<1>3. CASE Reap \/ Resume \/ (CheckError /\ ~Leave("throw", table))
  <2>1. /\ EndsStay /\ UNCHANGED <<table, guard, twice>> /\ pc \in {"reap", "suspended", "resumed"}
        /\ pc' = "success" => pc = "resumed"
    BY <1>3 DEF Reap, Resume, CheckError, Goto, callVars, EndsStay
  <2>2. ~twice /\ (pc = "resumed" => ~HasErrorPipe)
    BY <2>1 DEF IInv, Stage, HasErrorPipe
  <2>3. ~HasErrorPipe => guard = {}
    BY DEF IInv, EndsOwned, TypeOK
  <2>4. \A i \in Inits : Keeps(i)
    BY <2>1, <2>2 DEF Keeps
  <2> QED
    BY <2>1, <2>2, <2>3, <2>4, Unchanging
<1>4. CASE CheckError /\ Leave("throw", table)
  BY <1>4, LeaveShrinks DEF CheckError
<1>5. CASE OnSuccess
  <2>1. CASE CloseEnd(at) /\ NextInit /\ UNCHANGED <<guard, own, opp, twice>>
    BY <1>5, <2>1, CloseEndShrinks DEF OnSuccess, Calls
  <2>2. CASE SetError(table)
    BY <1>5, <2>2, SetErrorShrinks DEF OnSuccess
  <2>3. CASE NextInit /\ UNCHANGED <<table, guard, own, opp, twice>>
    <3>1. EndsStay /\ UNCHANGED <<table, guard, pc, twice>> /\ at' = at + 1
      BY <1>5, <2>3 DEF OnSuccess, NextInit, callVars, EndsStay
    <3>2. \A i \in Inits : Keeps(i)' => Keeps(i)
      BY <3>1, Planned DEF Keeps, IInv, TypeOK
    <3> QED
      BY <3>1, <3>2, Unchanging DEF IInv, EndsOwned
  <2> QED
    BY <1>5, <2>1, <2>2, <2>3 DEF OnSuccess
<1>6. CASE Succeeded
  <2>1. CASE Leave("child", table)
    BY <1>6, <2>1, LeaveShrinks DEF Succeeded
  <2>2. CASE ~Leave("child", table)
    <3>1. /\ EndsStay /\ UNCHANGED <<table, guard>> /\ twice' = TRUE /\ pc = "success"
      BY <1>6, <2>2 DEF Succeeded, Called, callVars, EndsStay
    <3>2. \A i \in Inits : ~Keeps(i)'
      BY <3>1 DEF Keeps
    <3> QED
      BY <3>1, <3>2, Unchanging DEF IInv, EndsOwned
  <2> QED
    BY <2>1, <2>2
<1>7. CASE OnError
  <2>1. CASE CloseEnd(at) /\ NextInit /\ UNCHANGED <<guard, own, opp, twice>>
    BY <1>7, <2>1, CloseEndShrinks DEF OnError, Calls
  <2>2. ASSUME NEW r, Leave(r, table) PROVE Shrinks
    BY <1>7, <2>2, LeaveShrinks DEF OnError
  <2>3. CASE NextInit /\ UNCHANGED <<table, guard, own, opp, twice>>
    <3>1. EndsStay /\ UNCHANGED <<table, guard, pc, twice>> /\ at' = at + 1
      BY <1>7, <2>3 DEF OnError, NextInit, callVars, EndsStay
    <3>2. \A i \in Inits : Keeps(i)' => Keeps(i)
      BY <3>1, Planned DEF Keeps, IInv, TypeOK
    <3> QED
      BY <3>1, <3>2, Unchanging DEF IInv, EndsOwned
  <2> QED
    BY <1>7, <2>1, <2>2, <2>3 DEF OnError
<1>8. CASE Failed
  BY <1>8, LeaveShrinks DEF Failed
<1> QED
  BY <1>1, <1>2, <1>3, <1>4, <1>5, <1>6, <1>7, <1>8

LEMMA ChildShrinks ==
  ASSUME Posix, IInv, TypeOK',
         \/ OnExecSetup \/ Exec \/ ExecFails \/ Exit \/ Killed
         \/ OtherOpens \/ SiblingStarts \/ SiblingEnds \/ UNCHANGED vars
  PROVE  Shrinks
<1>1. EndsStay /\ UNCHANGED <<pc, at, guard, twice>>
  BY DEF OnExecSetup, Exec, ExecFails, Exit, Killed, OtherOpens, SiblingStarts, SiblingEnds, vars, callVars,
         parentVars, childVars, EndsStay
<1>2. \A i \in Inits : Keeps(i)' <=> Keeps(i)
  BY <1>1 DEF Keeps
<1>3. CASE OtherOpens
  <2>1. /\ Lowest(table) \in Fds /\ table[Lowest(table)] = Closed
        /\ table' = [table EXCEPT ![Lowest(table)] = Other]
    BY <1>3, LowestIsFree DEF OtherOpens
  <2>2. \A d \in Fds : table'[d] = table[d] \/ (table[d] = Closed /\ table'[d] = Other)
    BY <2>1 DEF IInv, TypeOK
  <2>3. \A i \in Inits : Keeps(i) /\ own[i] \in Fds => table[own[i]] # Closed
    BY DEF IInv, EndsOwned, Closed
  <2> QED
    BY <1>1, <1>2, <2>2, <2>3 DEF Shrinks, IInv, EndsOwned
<1>4. CASE ~OtherOpens
  <2>1. table' = table
    BY <1>4 DEF OnExecSetup, Exec, ExecFails, Exit, Killed, SiblingStarts, SiblingEnds, vars, parentVars
  <2> QED
    BY <1>1, <1>2, <2>1, Unchanging DEF IInv, EndsOwned
<1> QED
  BY <1>3, <1>4

LEMMA TableKinds ==
  ASSUME Posix, IInv, TypeOK', [Next]_vars
  PROVE  \/ Shrinks
         \/ OpenPipe /\ \E d, e \in Fds : PipeOpened(d, e)
         \/ OnSetup /\ \E d, e \in Fds : StreamOpened(d, e)
BY SetupShrinks, ParentShrinks, ChildShrinks DEF Next, Invoke, ChildStep

LEMMA OwnedStep ==
  ASSUME Posix, IInv, TypeOK', [Next]_vars
  PROVE  EndsOwned'
<1>1. CASE Shrinks
  <2>1. \A d \in Fds : table'[d] # table[d] => d \notin Std /\ d \notin guard' /\ table'[d][1] \in {"none", "other"}
    BY <1>1 DEF Shrinks, GivesUp, IInv, EndsOwned, Closed, Other
  <2>2. \A d \in Std : d \in Fds
    BY DEF Posix
  <2>3. guard \subseteq Fds
    BY DEF IInv, TypeOK
  <2> QED
    BY <1>1, <2>1, <2>2, <2>3 DEF Shrinks, EndsStay, IInv, EndsOwned, Inits, Nth, HasErrorPipe
<1>2. ASSUME NEW d \in Fds, NEW e \in Fds, OpenPipe, PipeOpened(d, e) PROVE EndsOwned'
  <2>1. /\ \A x \in Fds : table'[x] = IF x = e THEN <<"ew", 0>> ELSE IF x = d THEN <<"er", 0>> ELSE table[x]
        /\ table[d] = Closed /\ table[e] = Closed /\ guard' = {d, e}
        /\ EndsStay /\ UNCHANGED twice /\ pc = "pipe" /\ pc' = "flag"
    BY <1>2, OpenPipeKinds DEF PipeOpened, Goto, callVars, EndsStay, IInv, TypeOK
  <2>2. HasErrorPipe /\ ~twice
    BY <2>1 DEF IInv, Stage
  <2>3. \A x \in Fds : x \in {d, e} => x \notin Std
    BY <2>1 DEF IInv, EndsOwned, Closed
  <2>4. \A i \in Inits : Keeps(i) /\ (own[i] \in Fds => own[i] \notin {d, e})
    BY <2>1, <2>2 DEF Keeps, IInv, EndsOwned, Closed
  <2>5. \A x \in Std : x \in Fds
    BY DEF Posix
  <2>6. \A x \in Fds : table'[x] = table[x] \/ (table'[x][1] \in {"er", "ew"} /\ table'[x][2] = 0)
    BY <2>1
  <2>7. \A x \in {d, e} : table'[x][1] \in {"er", "ew"}
    BY <2>1
  <2>8. /\ \A x \in Std : table'[x] = <<"std", x>>
        /\ \A i \in Inits : own[i] \in Fds => table'[own[i]] = <<"own", i>>
    BY <2>1, <2>3, <2>4, <2>5 DEF IInv, EndsOwned
  <2>9. \A x \in Fds : table'[x][1] = "own" => table'[x][2] \in Inits /\ x = own[table'[x][2]]
    BY <2>6 DEF IInv, EndsOwned
  <2>10. \A x \in Fds : table'[x][1] = "opp" =>
           table'[x][2] \in Inits /\ x = opp[table'[x][2]] /\ Nth(table'[x][2]).kind \in Pipers
    BY <2>6 DEF IInv, EndsOwned
  <2>11. \A x \in Fds : table'[x][1] \in {"er", "ew"} => table'[x][2] = 0
    BY <2>6 DEF IInv, EndsOwned
  <2> QED
    BY <2>1, <2>2, <2>7, <2>8, <2>9, <2>10, <2>11 DEF EndsStay, IInv, EndsOwned, Inits, Nth, HasErrorPipe
<1>3. ASSUME NEW d \in Fds, NEW e \in Fds, OnSetup, StreamOpened(d, e) PROVE EndsOwned'
  <2>1. /\ \A x \in Fds : table'[x] = IF x = e THEN <<"opp", at>> ELSE IF x = d THEN <<"own", at>> ELSE table[x]
        /\ table[d] = Closed /\ table[e] = Closed /\ d # e
        /\ at \in Inits /\ own'[at] = d /\ opp'[at] = e
        /\ \A i \in Inits \ {at} : own'[i] = own[i] /\ opp'[i] = opp[i]
        /\ UNCHANGED <<mode, how, plan, guard, twice, pc>> /\ pc = "setup"
    BY <1>3, OnSetupKinds DEF StreamOpened, NextInit, callVars, IInv, TypeOK
  <2>2. ~twice /\ Nth(at).kind \in Asyncs /\ at \in Nat
    BY <1>3, <2>1 DEF IInv, Stage, StreamOpened, TypeOK
  <2>3. own[at] = -1 /\ opp[at] = -1 /\ -1 \notin Fds
    BY <2>1, <2>2 DEF IInv, BeforeFork, Fds
  <2>4. \A x \in Fds : x \in {d, e} => x \notin Std /\ x \notin guard
    BY <2>1 DEF IInv, EndsOwned, Closed
  <2>5. \A i \in Inits : Keeps(i) /\ (own[i] \in Fds => own[i] \notin {d, e})
    BY <2>1, <2>2 DEF Keeps, IInv, EndsOwned, Closed
  <2>6. Std \subseteq Fds /\ guard \subseteq Fds
    BY DEF Posix, IInv, TypeOK
  <2>7. \A i \in Inits : own'[i] \notin Std /\ opp'[i] \notin Std
    BY <2>1, <2>4 DEF IInv, EndsOwned
  <2>8. \A x \in Fds : table'[x][1] = "own" => table'[x][2] \in Inits /\ x = own'[table'[x][2]]
    <3> SUFFICES ASSUME NEW x \in Fds, table'[x][1] = "own"
                 PROVE  table'[x][2] \in Inits /\ x = own'[table'[x][2]]
      OBVIOUS
    <3>1. CASE x = d
      BY <2>1, <3>1
    <3>2. CASE x # d
      <4>1. table'[x] = table[x]
        BY <2>1, <3>2
      <4>2. table[x][2] \in Inits /\ x = own[table[x][2]]
        BY <4>1 DEF IInv, EndsOwned
      <4> QED
        BY <2>1, <2>3, <4>1, <4>2
    <3> QED
      BY <3>1, <3>2
  <2>9. \A x \in Fds : table'[x][1] = "opp" =>
          table'[x][2] \in Inits /\ x = opp'[table'[x][2]] /\ Nth(table'[x][2]).kind \in Pipers
    <3> SUFFICES ASSUME NEW x \in Fds, table'[x][1] = "opp"
                 PROVE  table'[x][2] \in Inits /\ x = opp'[table'[x][2]] /\ Nth(table'[x][2]).kind \in Pipers
      OBVIOUS
    <3>1. CASE x = e
      BY <2>1, <2>2, <3>1 DEF Pipers
    <3>2. CASE x # e
      <4>1. table'[x] = table[x]
        BY <2>1, <3>2
      <4>2. table[x][2] \in Inits /\ x = opp[table[x][2]] /\ Nth(table[x][2]).kind \in Pipers
        BY <4>1 DEF IInv, EndsOwned
      <4> QED
        BY <2>1, <2>3, <4>1, <4>2
    <3> QED
      BY <3>1, <3>2
  <2>10. \A i \in Inits : own'[i] \in Fds => table'[own'[i]] = <<"own", i>>
    <3> SUFFICES ASSUME NEW i \in Inits, own'[i] \in Fds PROVE table'[own'[i]] = <<"own", i>>
      OBVIOUS
    <3>1. CASE i = at
      BY <2>1, <3>1
    <3>2. CASE i # at
      <4>1. table[own[i]] = <<"own", i>> /\ own'[i] = own[i] /\ own[i] \in Fds
        BY <2>1, <2>5, <3>2 DEF IInv, EndsOwned
      <4> QED
        BY <2>1, <2>5, <4>1
    <3> QED
      BY <3>1, <3>2
  <2>11. /\ \A x \in Std : table'[x] = <<"std", x>>
         /\ \A x \in guard : table'[x] = table[x]
         /\ \A x \in Fds : table'[x][1] \in {"er", "ew"} => table'[x] = table[x]
    BY <2>1, <2>4, <2>6 DEF IInv, EndsOwned
  <2> QED
    BY <2>1, <2>2, <2>7, <2>8, <2>9, <2>10, <2>11 DEF IInv, EndsOwned, Inits, Nth, HasErrorPipe
<1> QED
  BY <1>1, <1>2, <1>3, TableKinds

(***************************************************************************)
(* OthersKept: closing by number never hits the file of another thread     *)
(* (the close calls of pipe_guard, of CloseSink, of on_success and of      *)
(* on_error), unless on_error runs after on_success.                       *)
(***************************************************************************)
LEMMA OthersStep ==
  ASSUME Posix, IInv, TypeOK', [Next]_vars, Held(table, Other)
  PROVE  Held(table', Other) \/ twice
<1>1. PICK x \in Fds : table[x] = Other
  BY DEF Held
<1>2. CASE Shrinks
  BY <1>1, <1>2 DEF Shrinks, Held
<1>3. ASSUME NEW d \in Fds, NEW e \in Fds, PipeOpened(d, e) \/ StreamOpened(d, e) PROVE Held(table', Other)
  <2>1. x \notin {d, e}
    BY <1>1, <1>3 DEF PipeOpened, StreamOpened, Other, Closed
  <2>2. table'[x] = table[x]
    BY <1>3, <2>1 DEF PipeOpened, StreamOpened, IInv, TypeOK
  <2> QED
    BY <1>1, <2>2 DEF Held
<1> QED
  BY <1>2, <1>3, TableKinds

LEMMA BeforeForkStep ==
  ASSUME Posix, IInv, TypeOK', [Next]_vars
  PROVE  BeforeFork'
<1> DEFINE Early == {"pipe", "flag", "setup", "fork"}
<1>1. ASSUME UNCHANGED <<mode, how, plan, opp, own>>, pc' \in Early => pc \in Early /\ pc # "pipe",
             pc' # "pipe", pc' \in {"flag", "setup"} => pc \in {"flag", "setup"} /\ at =< at',
             pc' \in Early => \A d \in Fds : table'[d] = table[d] \/ table[d] = Closed
      PROVE  BeforeFork'
  <2>1. pc' \in Early => \A i \in Inits : opp[i] \in Fds => table'[opp[i]] = <<"opp", i>>
    BY <1>1 DEF IInv, BeforeFork, Closed
  <2>2. pc' \in Early /\ HasErrorPipe => \E d \in Fds : table'[d] = <<"ew", 0>>
    BY <1>1 DEF IInv, BeforeFork, Closed
  <2>3. pc' \in {"flag", "setup"} =>
          \A i \in Inits : at' =< i /\ Nth(i).kind \in Asyncs => own[i] = -1 /\ opp[i] = -1
    BY <1>1, Planned DEF IInv, BeforeFork, TypeOK
  <2> QED
    BY <1>1, <2>1, <2>2, <2>3 DEF BeforeFork, Inits, Nth, HasErrorPipe
<1>2. ASSUME NEW d \in Fds, NEW e \in Fds, OpenPipe, PipeOpened(d, e) PROVE BeforeFork'
  <2>1. /\ \A x \in Fds : table'[x] = IF x = e THEN <<"ew", 0>> ELSE IF x = d THEN <<"er", 0>> ELSE table[x]
        /\ table[d] = Closed /\ table[e] = Closed
        /\ UNCHANGED <<mode, how, plan, own, opp>> /\ pc = "pipe" /\ pc' = "flag" /\ at' = 1
    BY <1>2, OpenPipeKinds DEF PipeOpened, Goto, callVars, IInv, TypeOK
  <2>2. at = 1
    BY <2>1 DEF IInv, Stage
  <2>3. \A i \in Inits : opp[i] \in Fds => table'[opp[i]] = <<"opp", i>>
    BY <2>1 DEF IInv, BeforeFork, Closed
  <2> QED
    BY <2>1, <2>2, <2>3 DEF IInv, BeforeFork, Inits, Nth, HasErrorPipe
<1>3. ASSUME NEW d \in Fds, NEW e \in Fds, OnSetup, StreamOpened(d, e) PROVE BeforeFork'
  <2>1. /\ \A x \in Fds : table'[x] = IF x = e THEN <<"opp", at>> ELSE IF x = d THEN <<"own", at>> ELSE table[x]
        /\ table[d] = Closed /\ table[e] = Closed
        /\ at \in Inits /\ own'[at] = d /\ opp'[at] = e
        /\ \A i \in Inits \ {at} : own'[i] = own[i] /\ opp'[i] = opp[i]
        /\ UNCHANGED <<mode, how, plan, pc>> /\ pc = "setup" /\ at' = at + 1
    BY <1>3, OnSetupKinds DEF StreamOpened, NextInit, callVars, IInv, TypeOK
  <2>2. \A i \in Inits : at' =< i => at =< i /\ i # at
    BY <2>1, Planned DEF IInv, TypeOK
  <2>3. \A i \in Inits : opp'[i] \in Fds => table'[opp'[i]] = <<"opp", i>>
    BY <2>1 DEF IInv, BeforeFork, Closed
  <2>4. HasErrorPipe => \E x \in Fds : table'[x] = <<"ew", 0>>
    BY <2>1 DEF IInv, BeforeFork, Closed
  <2> QED
    BY <2>1, <2>2, <2>3, <2>4 DEF IInv, BeforeFork, Inits, Nth, HasErrorPipe
<1>4. CASE Shrinks /\ pc' \in Early
  <2>1. \/ OpenPipe \/ SetCloexec \/ OnSetup \/ SetUp
        \/ UNCHANGED <<pc, at>> /\ \A d \in Fds : table'[d] = table[d] \/ table[d] = Closed
    <3>1. CASE UNCHANGED vars \/ OtherOpens \/ SiblingStarts \/ SiblingEnds \/ Exit \/ Killed \/ ChildStep
      BY <3>1, LowestIsFree
      DEF vars, OtherOpens, SiblingStarts, SiblingEnds, Exit, Killed, ChildStep, OnExecSetup, Exec, ExecFails,
          parentVars, IInv, TypeOK
    <3>2. CASE Invoke
      BY <1>4, <3>2
      DEF Invoke, ForkFails, Fork, CloseSink, ReadError, Reap, Resume, CheckError, OnSuccess, Succeeded, OnError,
          Failed, Goto, NextInit, Calls, Called, Leave, SetError
    <3> QED
      BY <3>1, <3>2 DEF Next
  <2>2. CASE OpenPipe
    <3>1. PICK d \in Fds, e \in Fds : PipeOpened(d, e)
      BY <1>4, <2>2, OpenPipeKinds DEF Leave
    <3> QED
      BY <1>2, <2>2, <3>1
  <2>3. CASE SetCloexec \/ SetUp
    <3>1. /\ UNCHANGED <<mode, how, plan, opp, own, table>> /\ pc' \in {"setup", "fork"}
          /\ pc \in {"flag", "setup"}
          /\ pc' = "setup" => pc = "flag" /\ at' = 1
      BY <1>4, <2>3 DEF SetCloexec, SetUp, Called, Goto, callVars
    <3>2. pc = "flag" => at = 1
      BY DEF IInv, Stage
    <3>3. pc' \in {"flag", "setup"} => pc \in {"flag", "setup"} /\ at =< at'
      BY <3>1, <3>2
    <3> QED
      BY <1>1, <3>1, <3>3
  <2>4. CASE OnSetup
    <3>1. CASE \E d, e \in Fds : StreamOpened(d, e)
      BY <1>3, <2>4, <3>1
    <3>2. CASE ~\E d, e \in Fds : StreamOpened(d, e)
      <4>1. UNCHANGED <<mode, how, plan, opp, own, table, pc>> /\ pc = "setup" /\ at' = at + 1
        BY <1>4, <2>4, <3>2, OnSetupKinds DEF Passed, SetError, Leave, NextInit, callVars
      <4>2. at =< at'
        BY <4>1 DEF IInv, TypeOK
      <4> QED
        BY <1>1, <4>1, <4>2
    <3> QED
      BY <3>1, <3>2
  <2>5. CASE UNCHANGED <<pc, at>> /\ \A d \in Fds : table'[d] = table[d] \/ table[d] = Closed
    <3>1. UNCHANGED <<mode, how, plan, opp, own>>
      BY <1>4 DEF Shrinks, EndsStay
    <3>2. \A i \in Inits : opp[i] \in Fds => (pc' \in Early => table'[opp[i]] = <<"opp", i>>)
      BY <2>5 DEF IInv, BeforeFork, Closed
    <3>3. pc' \in {"flag", "setup", "fork"} /\ HasErrorPipe => \E d \in Fds : table'[d] = <<"ew", 0>>
      BY <2>5 DEF IInv, BeforeFork, Closed
    <3> QED
      BY <2>5, <3>1, <3>2, <3>3 DEF IInv, BeforeFork, Inits, Nth, HasErrorPipe
  <2> QED
    BY <2>1, <2>2, <2>3, <2>4, <2>5
<1>5. CASE pc' \notin Early
  BY <1>5 DEF BeforeFork
<1> QED
  BY <1>2, <1>3, <1>4, <1>5, TableKinds

-------------------------------------------------------------------------------
(***************************************************************************)
(* The ends that on_success and on_error close.                            *)
(***************************************************************************)
Closes ==
  /\ at \in Inits /\ CloseEnd(at) /\ NextInit
  /\ UNCHANGED <<plan, twice, result, ec, pc>>

Keeping == UNCHANGED shut /\ \A i \in Inits : Handed(i)' => Handed(i)

LEMMA LeaveKeeps ==
  ASSUME IInv, NEW r, NEW t, Leave(r, t), UNCHANGED <<callVars, told, sibling>>,
         r # "child", r = "empty" => ec = "ok" \/ \A i \in Inits : Nth(i).kind \in Pipers => Handed(i)
  PROVE  Keeping
BY DEF Leave, callVars, Keeping, Handed, Nth

LEMMA AllHanded ==
  ASSUME Posix, IInv, at \notin Inits, pc \in {"success", "error"}
  PROVE  \A i \in Inits : Nth(i).kind \in Pipers => Handed(i)
<1>1. at \in Nat \ {0} /\ TypeOK
  BY DEF IInv, TypeOK
<1>2. \A i \in Inits : i < at
  BY <1>1, Planned
<1> QED
  BY <1>2 DEF Handed

LEMMA NextKeeps ==
  ASSUME Posix, IInv, NextInit, Nth(at).kind \notin Pipers \/ pc \notin {"success", "error"},
         UNCHANGED <<plan, shut, twice, result>>, ec' = ec \/ result = "none"
  PROVE  Keeping
<1>1. \A i \in Inits : i \in Nat /\ at \in Nat
  BY Planned DEF IInv, TypeOK
<1>2. \A i \in Inits : i < at' /\ Nth(i).kind \in Pipers /\ pc \in {"success", "error"} => i < at
  BY <1>1 DEF NextInit
<1> QED
  BY <1>2 DEF NextInit, Keeping, Handed, Nth

LEMMA GotoKeeps ==
  ASSUME Posix, IInv, NEW p, Goto(p), UNCHANGED <<plan, shut, twice, result, ec>>
  PROVE  Keeping
<1>1. \A i \in Inits : ~(i < at')
  BY Planned DEF Goto, IInv, TypeOK
<1> QED
  BY <1>1 DEF Keeping, Handed, Nth

LEMMA SetErrorKeeps ==
  ASSUME Posix, IInv, SetError(table), Nth(at).kind \notin Pipers, pc # "done",
         UNCHANGED <<callVars, told, sibling>>
  PROVE  Keeping
<1>1. CASE Leave("throw", table)
  BY <1>1, LeaveKeeps
<1>2. CASE ~Leave("throw", table)
  <2>1. result = "none"
    BY DEF IInv, Stage
  <2> QED
    BY <1>2, <2>1, NextKeeps DEF SetError, callVars
<1> QED
  BY <1>1, <1>2

LEMMA GivenKinds ==
  ASSUME Posix, IInv, [Next]_vars
  PROVE  \/ Closes \/ Keeping
         \/ /\ Leave("child", table) /\ plan' = plan
            /\ \A i \in Inits : Nth(i).kind \in Pipers => Handed(i)
<1>1. CASE OpenPipe
  <2>1. ec = "ok"
    BY <1>1 DEF OpenPipe, IInv, Stage
  <2>2. ASSUME NEW r \in {"throw", "empty"}, Leave(r, table) PROVE Keeping
    BY <1>1, <2>1, <2>2, LeaveKeeps DEF OpenPipe
  <2> QED
    BY <1>1, <2>2, OpenPipeKinds, GotoKeeps DEF PipeOpened, callVars
<1>2. CASE SetCloexec \/ SetUp \/ Fork \/ CloseSink \/ Reap \/ Resume
  <2>1. \E p : Goto(p) /\ UNCHANGED <<plan, shut, twice, result, ec>>
    BY <1>2 DEF SetCloexec, SetUp, Fork, CloseSink, Reap, Resume, callVars
  <2> QED
    BY <2>1, GotoKeeps
<1>3. CASE OnSetup
  <2>1. CASE Passed \/ \E d, e \in Fds : StreamOpened(d, e)
    BY <1>3, <2>1, OnSetupKinds, NextKeeps DEF Passed, StreamOpened, callVars
  <2>2. CASE Leave("throw", table)
    BY <1>3, <2>2, LeaveKeeps DEF OnSetup
  <2>3. CASE SetError(table)
    <3>1. Nth(at).kind \notin Pipers \/ Passed \/ Leave("throw", table) \/ \E d, e \in Fds : StreamOpened(d, e)
      BY <1>3, OnSetupKinds DEF Pipers, Takers, Asyncs
    <3> QED
      BY <1>3, <2>1, <2>2, <2>3, <3>1, SetErrorKeeps DEF OnSetup, Calls
  <2> QED
    BY <1>3, <2>1, <2>2, <2>3, OnSetupKinds
<1>4. CASE ForkFails
  <2>1. ec = "ok"
    BY <1>4 DEF ForkFails, IInv, Stage
  <2>2. CASE Leave("empty", table)
    BY <1>4, <2>1, <2>2, LeaveKeeps DEF ForkFails
  <2>3. CASE ~Leave("empty", table)
    <3>1. Goto("error") /\ UNCHANGED <<plan, shut, twice, result>> /\ pc # "done"
      BY <1>4, <2>3 DEF ForkFails, callVars
    <3>2. \A i \in Inits : ~(i < at')
      BY <3>1, Planned DEF Goto, IInv, TypeOK
    <3>3. result = "none"
      BY <3>1 DEF IInv, Stage
    <3> QED
      BY <3>1, <3>2, <3>3 DEF Keeping, Handed, Nth
  <2> QED
    BY <2>2, <2>3
<1>5. CASE ReadError
  <2>1. CASE Leave("throw", table)
    BY <1>5, <2>1, LeaveKeeps DEF ReadError
  <2>2. CASE ~Leave("throw", table)
    <3>1. (Goto("reap") \/ Goto("success")) /\ UNCHANGED <<plan, shut, twice, result>> /\ pc = "read"
      BY <1>5, <2>2 DEF ReadError, callVars
    <3>2. \A i \in Inits : ~(i < at')
      BY <3>1, Planned DEF Goto, IInv, TypeOK
    <3>3. result = "none"
      BY <3>1 DEF IInv, Stage
    <3> QED
      BY <3>1, <3>2, <3>3 DEF Keeping, Handed, Nth
  <2> QED
    BY <2>1, <2>2
<1>6. CASE CheckError
  <2>1. CASE Leave("throw", table)
    BY <1>6, <2>1, LeaveKeeps DEF CheckError
  <2>2. CASE ~Leave("throw", table)
    <3>1. \E p : Goto(p) /\ UNCHANGED <<plan, shut, twice, result, ec>>
      BY <1>6, <2>2 DEF CheckError, callVars
    <3> QED
      BY <3>1, GotoKeeps
  <2> QED
    BY <2>1, <2>2
<1>7. CASE OnSuccess
  <2>1. CASE CloseEnd(at)
    BY <1>7, <2>1, NextKeeps, SetErrorKeeps
    DEF OnSuccess, Calls, Closes, NextInit, callVars, Pipers, Takers, Asyncs
  <2>2. CASE ~CloseEnd(at)
    BY <1>7, <2>2, NextKeeps, SetErrorKeeps DEF OnSuccess, Calls, callVars, Pipers, Takers, Asyncs
  <2> QED
    BY <2>1, <2>2
<1>8. CASE Succeeded
  <2>1. \A i \in Inits : Nth(i).kind \in Pipers => Handed(i)
    BY <1>8, AllHanded DEF Succeeded, Called
  <2>2. CASE ec = "error"
    <3>1. UNCHANGED <<plan, shut>>
      BY <1>8, <2>2 DEF Succeeded, callVars
    <3> QED
      BY <2>1, <3>1 DEF Keeping, Handed, Nth
  <2>3. CASE ec # "error"
    BY <1>8, <2>1, <2>3 DEF Succeeded, callVars
  <2> QED
    BY <2>2, <2>3
<1>9. CASE OnError
  <2>1. CASE CloseEnd(at) /\ NextInit /\ UNCHANGED <<twice, result, ec>>
    BY <1>9, <2>1 DEF OnError, Calls, Closes, NextInit, callVars
  <2>2. ASSUME NEW r \in {"crash", "throw"}, Leave(r, table) PROVE Keeping
    BY <1>9, <2>2, LeaveKeeps DEF OnError
  <2>3. CASE Nth(at).kind \notin Pipers /\ NextInit /\ UNCHANGED <<shut, twice, result, ec>>
    BY <1>9, <2>3, NextKeeps DEF OnError, callVars
  <2> QED
    BY <1>9, <2>1, <2>2, <2>3 DEF OnError, Calls
<1>10. CASE Failed
  <2>1. \A i \in Inits : Nth(i).kind \in Pipers => Handed(i)
    BY <1>10, AllHanded DEF Failed, Called
  <2> QED
    BY <1>10, <2>1, LeaveKeeps DEF Failed
<1>11. CASE OnExecSetup \/ ExecFails
  <2>1. /\ child = "setup" /\ UNCHANGED <<plan, shut, pc, at, twice, result>>
        /\ ec' = ec \/ how = "vfork"
    BY <1>11 DEF OnExecSetup, ExecFails, Reported, callVars
  <2>2. ec' = ec \/ result = "none"
    BY <2>1 DEF IInv, Stage, Process
  <2> QED
    BY <2>1, <2>2 DEF Keeping, Handed, Nth
<1>12. CASE Exec \/ Exit \/ Killed \/ OtherOpens \/ SiblingStarts \/ SiblingEnds \/ UNCHANGED vars
  <2>1. UNCHANGED <<plan, shut, pc, at, twice, result, ec>>
    BY <1>12 DEF Exec, Exit, Killed, OtherOpens, SiblingStarts, SiblingEnds, vars, callVars, parentVars
  <2> QED
    BY <2>1 DEF Keeping, Handed, Nth
<1> QED
  BY <1>1, <1>2, <1>3, <1>4, <1>5, <1>6, <1>7, <1>8, <1>9, <1>10, <1>11, <1>12 DEF Next, Invoke, ChildStep

LEMMA GivenUpStep ==
  ASSUME Posix, IInv, TypeOK', [Next]_vars
  PROVE  GivenUp'
<1>1. CASE Shrinks
  <2>1. plan' = plan
    BY <1>1 DEF Shrinks, EndsStay
  <2>2. \A d \in Fds : \A i \in Inits : table'[d] = <<"own", i>> => table[d] = <<"own", i>>
    BY <1>1 DEF Shrinks, GivesUp, Closed, Other
  <2>3. CASE Keeping
    BY <2>1, <2>2, <2>3 DEF Keeping, IInv, GivenUp, Inits
  <2>4. CASE Closes
    <3>1. \A d \in Fds : table'[d] # <<"own", at>>
      <4>1. CASE at \in shut
        BY <2>2, <2>4, <4>1 DEF Closes, IInv, GivenUp
      <4>2. CASE at \notin shut
        <5>1. \A d \in Fds : table[d] = <<"own", at>> => d = own[at]
          BY DEF IInv, EndsOwned
        <5>2. table' = Without(table, {own[at]})
          BY <2>4, <4>2 DEF Closes, CloseEnd
        <5>3. \A d \in Fds : d = own[at] => table'[d] = Closed
          BY <5>2 DEF Without
        <5> QED
          BY <2>2, <2>4, <5>1, <5>3 DEF Closed, Closes
      <4> QED
        BY <4>1, <4>2
    <3>2. \A i \in Inits : i \in shut' => i \in shut \/ i = at
      BY <2>4 DEF Closes, CloseEnd
    <3>3. \A i \in Inits : Handed(i)' => Handed(i) \/ i = at
      <4>1. \A i \in Inits : i \in Nat /\ at \in Nat
        BY Planned DEF IInv, TypeOK
      <4>2. \A i \in Inits : i < at' => i < at \/ i = at
        BY <2>4, <4>1 DEF Closes, NextInit
      <4> QED
        BY <2>4, <4>2 DEF Closes, Handed, Nth
    <3> QED
      BY <2>1, <2>2, <3>1, <3>2, <3>3 DEF IInv, GivenUp, Inits
  <2>5. CASE Leave("child", table) /\ \A i \in Inits : Nth(i).kind \in Pipers => Handed(i)
    <3>1. \A i \in Inits : Handed(i)' => Handed(i)
      BY <2>1, <2>5 DEF Handed, Nth
    <3> QED
      BY <2>1, <2>2, <2>5, <3>1 DEF Leave, IInv, GivenUp, Inits
  <2> QED
    BY <2>3, <2>4, <2>5, GivenKinds
<1>2. ASSUME NEW d \in Fds, NEW e \in Fds, (OpenPipe /\ PipeOpened(d, e)) \/ (OnSetup /\ StreamOpened(d, e))
      PROVE  GivenUp'
  <2>1. pc' \in {"flag", "setup"} /\ pc \in {"pipe", "setup"} /\ UNCHANGED <<shut, twice, result>>
    BY <1>2, OpenPipeKinds, OnSetupKinds DEF PipeOpened, StreamOpened, Goto, NextInit
  <2>2. shut = {} /\ ~twice /\ result = "none"
    BY <2>1 DEF IInv, Stage
  <2> QED
    BY <2>1, <2>2 DEF GivenUp, Handed
<1> QED
  BY <1>1, <1>2, TableKinds

-------------------------------------------------------------------------------
(***************************************************************************)
(* limit_handles_ spares what the initializers before and after it need.   *)
(***************************************************************************)
LEMMA UsedSpares ==
  ASSUME Posix, TypeOK, used' = UsedHandles, plan' = plan
  PROVE  Spares' /\ \A d \in Fds : table[d] = <<"ew", 0>> => d \in used'
<1>1. ASSUME NEW i \in Inits, Nth(i).kind \in Binders \ {"future"} PROVE Nth(i).to \subseteq UsedHandles
  <2>1. Nth(i).to \subseteq UsedBy(i)
    BY <1>1 DEF UsedBy, Binders, Pipers, Takers, Asyncs
  <2>2. UsedBy(i) \subseteq UNION {UsedBy(j) : j \in Inits}
    BY Zenon
  <2> QED
    BY <2>1, <2>2 DEF UsedHandles
<1>2. \A d \in Fds : table[d] = <<"ew", 0>> => d \in UsedHandles
  BY DEF UsedHandles
<1> QED
  BY <1>1, <1>2 DEF Spares, Inits, Nth

\* A step of the launching thread before fork.
LEMMA EarlyKinds ==
  ASSUME Posix, IInv, [Next]_vars, pc' \in {"setup", "fork"}
  PROVE  \/ SetCloexec \/ SetUp
         \/ OnSetup /\ pc' = pc
         \/ UNCHANGED <<pc, at, ec, used, plan>> /\ (UNCHANGED table \/ OtherOpens)
<1>1. CASE ~Invoke
  <2>1. pc' = pc /\ UNCHANGED <<at, used, plan>> /\ (UNCHANGED table \/ OtherOpens)
    BY <1>1
    DEF Next, ChildStep, OnExecSetup, Exec, ExecFails, Exit, Killed, OtherOpens, SiblingStarts, SiblingEnds, vars,
        callVars, parentVars
  <2>2. child = "none"
    BY <2>1 DEF IInv, Stage
  <2>3. ec' = ec
    BY <1>1, <2>2
    DEF Next, ChildStep, OnExecSetup, Exec, ExecFails, Exit, Killed, OtherOpens, SiblingStarts, SiblingEnds, vars,
        parentVars
  <2> QED
    BY <2>1, <2>3
<1>2. CASE Invoke
  <2>1. ASSUME OpenPipe PROVE FALSE
    BY <2>1, OpenPipeKinds DEF PipeOpened, Leave, Goto
  <2>2. ASSUME ForkFails \/ Fork \/ CloseSink \/ ReadError \/ Reap \/ Resume \/ CheckError PROVE FALSE
    BY <2>2 DEF ForkFails, Fork, CloseSink, ReadError, Reap, Resume, CheckError, Goto, Leave
  <2>3. ASSUME OnSuccess \/ Succeeded \/ OnError \/ Failed PROVE FALSE
    BY <2>3 DEF OnSuccess, Succeeded, OnError, Failed, Goto, NextInit, Calls, Called, Leave, SetError
  <2>4. OnSetup => pc' = pc
    BY OnSetupKinds DEF StreamOpened, Passed, SetError, Leave, NextInit
  <2> QED
    BY <1>2, <2>1, <2>2, <2>3, <2>4 DEF Invoke
<1> QED
  BY <1>1, <1>2

\* Once there is a child.
LEMMA LateKinds ==
  ASSUME Posix, IInv, [Next]_vars, child' # "none" \/ child # "none"
  PROVE  /\ UNCHANGED <<callVars, own, opp, used, cloexec>>
         /\ pc' \notin {"pipe", "flag", "setup", "fork"}
         /\ child = "none" => Fork
<1>1. CASE child # "none"
  <2>1. pc \notin {"pipe", "flag", "setup", "fork"}
    BY <1>1 DEF IInv, Stage
  <2>2. CASE Invoke
    BY <1>1, <2>1, <2>2
    DEF Invoke, OpenPipe, SetCloexec, OnSetup, SetUp, ForkFails, Fork, CloseSink, ReadError, Reap, Resume,
        CheckError, OnSuccess, Succeeded, OnError, Failed, Goto, NextInit, Calls, Called, Leave, SetError
  <2>3. CASE ~Invoke
    BY <1>1, <2>1, <2>3
    DEF Next, ChildStep, OnExecSetup, Exec, ExecFails, Exit, Killed, OtherOpens, SiblingStarts, SiblingEnds, vars,
        parentVars
  <2> QED
    BY <1>1, <2>2, <2>3
<1>2. CASE child = "none"
  <2>1. child' # "none"
    BY <1>2
  <2>2. CASE Fork
    BY <2>2 DEF Fork, Goto
  <2>3. ASSUME ~Fork PROVE FALSE
    <3>1. CASE Invoke
      <4>1. handle = "none"
        BY <1>2 DEF IInv, Process, TypeOK
      <4>2. child' = child \/ Reap
        BY <2>3, <3>1, <4>1
        DEF Invoke, OpenPipe, SetCloexec, OnSetup, SetUp, ForkFails, CloseSink, ReadError, Resume,
            CheckError, OnSuccess, Succeeded, OnError, Failed, Leave, SetError, childVars
      <4> QED
        BY <1>2, <2>1, <4>2 DEF Reap
    <3>2. CASE ~Invoke
      BY <1>2, <2>1, <3>2
      DEF Next, ChildStep, OnExecSetup, Exec, ExecFails, Exit, Killed, OtherOpens, SiblingStarts, SiblingEnds, vars,
          childVars
    <3> QED
      BY <3>1, <3>2
  <2> QED
    BY <1>2, <2>2, <2>3
<1> QED
  BY <1>1, <1>2

LEMMA SparingStep ==
  ASSUME Posix, IInv, TypeOK', [Next]_vars
  PROVE  Sparing'
<1>1. CASE child' # "none"
  <2>1. UNCHANGED <<plan, used>> /\ pc' \notin {"setup", "fork"} /\ (child = "none" => Fork)
    BY <1>1, LateKinds DEF callVars
  <2>2. Limited' => Spares
    <3>1. CASE child # "none"
      <4>1. pc # "setup"
        BY <3>1 DEF IInv, Stage
      <4> QED
        BY <2>1, <3>1, <4>1 DEF IInv, Sparing, Limited, Inits, Nth
    <3>2. CASE Fork
      <4>1. pc = "fork" /\ ec = "ok"
        BY <3>2 DEF Fork, IInv, Stage
      <4> QED
        BY <2>1, <4>1 DEF IInv, Sparing, Limited, Inits, Nth
    <3> QED
      BY <2>1, <3>1, <3>2
  <2> QED
    BY <2>1, <2>2 DEF Sparing, Spares, Inits, Nth
<1>2. CASE child' = "none" /\ pc' \notin {"setup", "fork"}
  BY <1>2 DEF Sparing
<1>3. CASE child' = "none" /\ pc' \in {"setup", "fork"}
  <2> SUFFICES ASSUME ec' = "ok", Limited'
               PROVE  Spares' /\ \A d \in Fds : table'[d] = <<"ew", 0>> => d \in used'
    BY <1>3 DEF Sparing
  <2>1. ASSUME UNCHANGED <<used, plan>>, ec = "ok", Limited, pc \in {"setup", "fork"},
               \A d \in Fds : table'[d] = <<"ew", 0>> => table[d] = <<"ew", 0>>
        PROVE  Spares' /\ \A d \in Fds : table'[d] = <<"ew", 0>> => d \in used'
    BY <2>1 DEF IInv, Sparing, Spares, Inits, Nth
  <2>2. at \in Nat \ {0} /\ \A i \in Inits : i \in Nat \ {0}
    BY Planned DEF IInv, TypeOK
  <2>3. ASSUME SetCloexec PROVE FALSE
    <3>1. pc' = "setup" /\ at' = 1 /\ plan' = plan
      BY <2>3 DEF SetCloexec, Goto, callVars
    <3> QED
      BY <2>2, <3>1 DEF Limited, Inits, Nth
  <2>4. CASE SetUp
    <3>1. UNCHANGED <<used, plan, table, ec>> /\ pc = "setup" /\ at \notin Inits
      BY <2>4 DEF SetUp, Called, callVars
    <3>2. \A l \in Inits : l < at
      BY <2>2, <3>1, Planned DEF IInv
    <3>3. Limited
      BY <3>1, <3>2 DEF Limited, Inits, Nth
    <3> QED
      BY <2>1, <3>1, <3>3
  <2>5. CASE OnSetup /\ pc' = pc
    <3>1. pc = "setup" /\ at \in Inits /\ plan' = plan
      BY <2>5, OnSetupKinds DEF callVars
    <3>2. ec = "ok" /\ at' = at + 1
      BY <2>5, <3>1, OnSetupKinds DEF StreamOpened, Passed, SetError, Leave, NextInit
    <3>3. Nth(at).kind # "limit" => Limited
      <4>1. \A l \in Inits : l < at' => l < at \/ l = at
        BY <2>2, <3>2
      <4> QED
        BY <2>5, <3>1, <4>1 DEF Limited, Inits, Nth
    <3>4. ASSUME NEW d \in Fds, NEW e \in Fds, StreamOpened(d, e)
          PROVE  Spares' /\ \A x \in Fds : table'[x] = <<"ew", 0>> => x \in used'
      <4>1. \A x \in Fds : table'[x] = <<"ew", 0>> => table[x] = <<"ew", 0>>
        BY <3>4 DEF StreamOpened, IInv, TypeOK
      <4>2. UNCHANGED used /\ Nth(at).kind # "limit"
        BY <3>4 DEF StreamOpened, Asyncs
      <4> QED
        BY <2>1, <3>1, <3>2, <3>3, <4>1, <4>2
    <3>5. CASE Passed
      <4>1. UNCHANGED table
        BY <3>5 DEF Passed
      <4>2. CASE used' = used /\ Nth(at).kind # "limit"
        BY <2>1, <3>1, <3>2, <3>3, <4>1, <4>2
      <4>3. CASE used' = UsedHandles
        BY <3>1, <4>1, <4>3, UsedSpares DEF IInv
      <4> QED
        BY <3>2, <3>5, <4>2, <4>3 DEF Passed
    <3>6. CASE SetError(table) /\ Nth(at).kind = "bad_setup"
      <4>1. UNCHANGED <<used, table>>
        BY <2>5, <3>1, <3>6 DEF SetError, Leave
      <4> QED
        BY <2>1, <3>1, <3>2, <3>3, <3>6, <4>1
    <3>7. ASSUME Leave("throw", table) PROVE FALSE
      BY <2>5, <3>1, <3>7 DEF Leave
    <3> QED
      BY <2>5, <3>4, <3>5, <3>6, <3>7, OnSetupKinds
  <2>6. CASE UNCHANGED <<pc, at, ec, used, plan>> /\ (UNCHANGED table \/ OtherOpens)
    <3>1. Limited
      BY <2>6 DEF Limited, Inits, Nth
    <3>2. \A d \in Fds : table'[d] = <<"ew", 0>> => table[d] = <<"ew", 0>>
      BY <2>6 DEF OtherOpens, Other, IInv, TypeOK
    <3> QED
      BY <1>3, <2>1, <2>6, <3>1, <3>2
  <2> QED
    BY <1>3, <2>3, <2>4, <2>5, <2>6, EarlyKinds
<1> QED
  BY <1>1, <1>2, <1>3

-------------------------------------------------------------------------------
(***************************************************************************)
(* The child's descriptors.                                                *)
(***************************************************************************)
LEMMA FilePairs ==
  ASSUME NEW f \in Files
  PROVE  f = <<f[1], f[2]>>
BY DEF Files

\* dup2 and the close calls of on_exec_setup touch the targets and the two ends.
LEMMA BoundKinds ==
  ASSUME Posix, IInv, child = "setup", step \in Inits, Nth(step).kind \in Binders, IsOpen(fds, own[step])
  PROVE  \A d \in Fds :
           /\ d \in Nth(step).to => Bound(step)[d] = <<"own", step>>
           /\ d \notin Nth(step).to =>
                Bound(step)[d] = IF Nth(step).kind \in Pipers /\ d \in {own[step], opp[step]}
                                 THEN Closed ELSE fds[d]
<1> DEFINE dup == [d \in Fds |-> IF d \in Nth(step).to THEN fds[own[step]] ELSE fds[d]]
           rest == IF Nth(step).kind \in Pipers
                   THEN {opp[step]} \cup (IF Nth(step).kind \in Asyncs /\ Nth(step).to # {0}
                                          THEN {own[step]} ELSE {own[step]} \ Spared(Nth(step).to))
                   ELSE {}
<1>1. Bound(step) = Without(dup, rest)
  BY DEF Bound
<1>2. own[step] \in Fds /\ fds[own[step]] = <<"own", step>>
  <2>1. own[step] \in Fds /\ fds[own[step]] # Closed /\ step \in Nat
    BY Planned DEF IsOpen, IInv, TypeOK
  <2> QED
    BY <2>1 DEF IInv, ChildEnds
<1>3. Nth(step).to \subseteq Std /\ own[step] \notin Std /\ opp[step] \notin Std
  BY Planned DEF IInv, EndsOwned
<1>4. Spared(Nth(step).to) \subseteq Std
  BY <1>3 DEF Spared, Std
<1>5. rest = IF Nth(step).kind \in Pipers THEN {own[step], opp[step]} ELSE {}
  BY <1>3, <1>4
<1>6. \A d \in Fds : Bound(step)[d] = IF d \in rest THEN Closed ELSE dup[d]
  BY <1>1 DEF Without
<1> HIDE DEF rest
<1> QED
  BY <1>2, <1>3, <1>5, <1>6

LEMMA ExecSetupKinds ==
  ASSUME Posix, IInv, OnExecSetup
  PROVE  /\ child = "setup" /\ child' = "setup" /\ step \in Inits /\ step' = step + 1
         /\ UNCHANGED <<callVars, pc, own, opp, used, cloexec, result>>
         /\ \/ /\ Nth(step).kind \in Binders /\ IsOpen(fds, own[step])
               /\ fds' = Bound(step)
               /\ UNCHANGED <<told, ec>>
            \/ /\ Nth(step).kind \in Binders => ~IsOpen(fds, own[step]) /\ Reported
               /\ \E shed \in SUBSET Fds :
                    /\ fds' = Without(fds, shed)
                    /\ Nth(step).kind \in Pipers => shed = {opp[step]} \cap Fds
                    /\ Nth(step).kind = "limit" => shed \subseteq Fds \ used
                    /\ Nth(step).kind \notin Pipers \cup {"limit"} => shed \subseteq Nth(step).to
               /\ Reported \/ UNCHANGED <<told, ec>>
<1>1. child = "setup" /\ child' = "setup" /\ step \in Inits /\ step' = step + 1
      /\ UNCHANGED <<callVars, pc, own, opp, used, cloexec, result>>
  BY DEF OnExecSetup
<1>2. fds = Without(fds, {}) /\ \A s : Without(fds, s) = Without(fds, s \cap Fds)
  BY DEF Without, IInv, TypeOK
<1>3. CASE Nth(step).kind \in Binders /\ IsOpen(fds, own[step])
  BY <1>1, <1>3 DEF OnExecSetup, Binders, Closers, Pipers, Takers, Asyncs
<1>4. CASE Nth(step).kind \in Binders /\ ~IsOpen(fds, own[step])
  <2>1. Reported /\ fds' = IF Nth(step).kind \in Pipers THEN Without(fds, {opp[step]}) ELSE fds
    BY <1>4 DEF OnExecSetup, Binders, Closers, Pipers, Takers, Asyncs
  <2>2. CASE Nth(step).kind \in Pipers
    <3>1. fds' = Without(fds, {opp[step]} \cap Fds) /\ {opp[step]} \cap Fds \in SUBSET Fds
      BY <1>2, <2>1, <2>2
    <3> QED
      BY <1>1, <1>4, <2>1, <2>2, <3>1 DEF Pipers, Takers, Asyncs
  <2>3. CASE Nth(step).kind \notin Pipers
    <3>1. fds' = Without(fds, {}) /\ {} \in SUBSET Fds
      BY <1>2, <2>1, <2>3
    <3> QED
      BY <1>1, <1>4, <2>1, <2>3, <3>1 DEF Binders
  <2> QED
    BY <2>2, <2>3
<1>5. CASE Nth(step).kind \in Closers
  <2>1. fds' = Without(fds, Nth(step).to) /\ (Reported \/ UNCHANGED <<told, ec>>)
    BY <1>5 DEF OnExecSetup, Binders, Closers, Pipers, Takers, Asyncs
  <2>2. fds' = Without(fds, Nth(step).to \cap Fds)
    BY <1>2, <2>1
  <2> QED
    BY <1>1, <1>5, <2>1, <2>2 DEF Binders, Closers, Pipers, Takers, Asyncs
<1>6. CASE Nth(step).kind = "limit"
  <2>1. /\ Reported \/ UNCHANGED <<told, ec>>
        /\ \E shed \in SUBSET (Fds \ used) : fds' = Without(fds, shed)
    BY <1>6 DEF OnExecSetup, Binders, Closers, Pipers, Takers, Asyncs
  <2> QED
    BY <1>1, <1>6, <2>1 DEF Binders, Pipers, Takers, Asyncs
<1>7. CASE Nth(step).kind \notin Binders \cup Closers \cup {"limit"}
  <2>1. fds' = fds /\ (Reported \/ UNCHANGED <<told, ec>>)
    BY <1>7 DEF OnExecSetup, Binders, Closers, Pipers, Takers, Asyncs
  <2>2. fds' = Without(fds, {}) /\ {} \in SUBSET Fds
    BY <1>2, <2>1
  <2> QED
    BY <1>1, <1>7, <2>1, <2>2 DEF Binders
<1> QED
  BY <1>3, <1>4, <1>5, <1>6, <1>7

LEMMA ChildKinds ==
  ASSUME Posix, IInv, [Next]_vars, child' \in {"setup", "running"}
  PROVE  Fork \/ OnExecSetup \/ Exec \/ (UNCHANGED <<child, step, fds>> /\ child # "none")
<1>1. CASE Invoke
  <2>1. child # "none" \/ Fork
    BY LateKinds
  <2>2. ~Fork => UNCHANGED <<child, step, fds>>
    BY <1>1
    DEF Invoke, OpenPipe, SetCloexec, OnSetup, SetUp, ForkFails, CloseSink, ReadError, Reap, Resume,
        CheckError, OnSuccess, Succeeded, OnError, Failed, Leave, SetError, childVars
  <2> QED
    BY <2>1, <2>2
<1>2. CASE ~Invoke
  BY <1>2, LateKinds
  DEF Next, ChildStep, ExecFails, Exit, Killed, OtherOpens, SiblingStarts, SiblingEnds, vars, childVars, Invoke
<1> QED
  BY <1>1, <1>2

LEMMA ForkEnds ==
  ASSUME Posix, IInv, TypeOK', Fork
  PROVE  ChildEnds'
<1>1. /\ pc = "fork" /\ pc' # "setup" /\ child' = "setup" /\ step' = 1
      /\ \A d \in Fds : fds'[d] = IF table[d] = <<"er", 0>> THEN Closed ELSE table[d]
      /\ UNCHANGED <<mode, how, plan, own, opp, used, cloexec>>
  BY DEF Fork, Goto, callVars
<1>2. ec = "ok" /\ ~twice /\ (HasErrorPipe => cloexec)
  BY <1>1 DEF IInv, Stage, Process
<1>3. ASSUME NEW d \in Fds PROVE Inherited(d)'
  <2>1. table[d] = <<table[d][1], table[d][2]>>
    BY FilePairs DEF IInv, TypeOK
  <2>2. fds'[d][1] # "er"
    BY <1>1, <2>1 DEF IInv, EndsOwned, Closed
  <2>3. fds'[d] = table[d] \/ fds'[d] = Closed
    BY <1>1
  <2>4. \A i \in Inits : 1 =< i /\ ~(i < 1)
    BY Planned DEF IInv
  <2>5. fds'[d][1] = "ew" => fds'[d][2] = 0 /\ cloexec
    BY <1>2, <2>3 DEF IInv, EndsOwned, Closed
  <2>6. fds'[d][1] = "opp" =>
          fds'[d][2] \in Inits /\ d = opp[fds'[d][2]] /\ Nth(fds'[d][2]).kind \in Pipers
    BY <2>3 DEF IInv, EndsOwned, Closed
  <2>7. fds'[d][1] = "own" => fds'[d][2] \in Inits /\ d = own[fds'[d][2]]
    BY <2>3 DEF IInv, EndsOwned, Closed
  <2> QED
    BY <1>1, <2>2, <2>4, <2>5, <2>6, <2>7 DEF Inherited, Inits, Nth
<1>4. \A i \in Inits : own[i] \in Fds => fds'[own[i]] = <<"own", i>>
  BY <1>1, <1>2 DEF IInv, EndsOwned, Keeps
<1>5. HasErrorPipe => Reports'
  <2> SUFFICES ASSUME HasErrorPipe PROVE Reports'
    OBVIOUS
  <2>1. PICK e \in Fds : table[e] = <<"ew", 0>>
    BY <1>1 DEF IInv, BeforeFork
  <2>2. e \notin Std
    BY <2>1 DEF IInv, EndsOwned
  <2>3. \A i \in Inits : e # own[i] /\ e # opp[i]
    BY <1>1, <1>2, <2>1 DEF IInv, EndsOwned, BeforeFork, Keeps
  <2>4. Limited' => e \in used
    BY <1>1, <1>2, <2>1 DEF IInv, Sparing, Limited, Inits, Nth
  <2>5. fds'[e] = <<"ew", 0>>
    BY <1>1, <2>1
  <2> QED
    BY <1>1, <2>2, <2>3, <2>4, <2>5 DEF Reports, Inits
<1> QED
  BY <1>1, <1>3, <1>4, <1>5 DEF ChildEnds, Inits, HasErrorPipe

LEMMA ExecSetupEnds ==
  ASSUME Posix, IInv, TypeOK', OnExecSetup
  PROVE  ChildEnds'
<1>1. /\ child = "setup" /\ child' = "setup" /\ step \in Inits /\ step' = step + 1
      /\ UNCHANGED <<mode, how, plan, pc, own, opp, used, cloexec>>
  BY ExecSetupKinds DEF callVars
<1>2. step \in Nat /\ (\A i \in Inits : i \in Nat) /\ Nth(step).to \subseteq Std
  BY <1>1, Planned DEF IInv, TypeOK
<1>3. \A d \in Fds :
        \/ d \in Nth(step).to /\ fds'[d] = <<"own", step>>
        \/ fds'[d] = Closed
        \/ fds'[d] = fds[d] /\ (Nth(step).kind \in Pipers => d # opp[step] /\ (d = own[step] => fds[d] = Closed))
  <2>1. CASE Nth(step).kind \in Binders /\ IsOpen(fds, own[step]) /\ fds' = Bound(step)
    BY <1>1, <2>1, BoundKinds
  <2>2. CASE ~(Nth(step).kind \in Binders /\ IsOpen(fds, own[step]) /\ fds' = Bound(step))
    <3>1. PICK shed \in SUBSET Fds :
            /\ fds' = Without(fds, shed)
            /\ Nth(step).kind \in Pipers => shed = {opp[step]} \cap Fds /\ ~IsOpen(fds, own[step])
      BY <2>2, ExecSetupKinds DEF Binders
    <3>2. \A d \in Fds : fds'[d] = IF d \in shed THEN Closed ELSE fds[d]
      BY <3>1 DEF Without
    <3> QED
      BY <3>1, <3>2 DEF IsOpen
  <2> QED
    BY <2>1, <2>2
<1>4. ASSUME NEW d \in Fds PROVE Inherited(d)'
  <2>1. Inherited(d)
    BY <1>1 DEF IInv, ChildEnds
  <2>2. CASE d \in Nth(step).to /\ fds'[d] = <<"own", step>>
    BY <1>1, <1>2, <2>2 DEF Inherited, Inits, Nth
  <2>3. CASE fds'[d] = Closed
    BY <2>3 DEF Inherited, Closed
  <2>4. CASE fds'[d] = fds[d] /\ (Nth(step).kind \in Pipers => d # opp[step] /\ (d = own[step] => fds[d] = Closed))
    <3>1. fds[d][1] = "opp" => step + 1 =< fds[d][2]
      <4>1. fds[d][1] = "opp" => fds[d][2] # step
        BY <2>1, <2>4 DEF Inherited
      <4> QED
        BY <1>2, <2>1, <4>1 DEF Inherited
    <3>2. fds[d][1] = "own" /\ fds[d][2] < step + 1 /\ Nth(fds[d][2]).kind \in Pipers => d \in Nth(fds[d][2]).to
      <4>1. fds[d][1] = "own" /\ Nth(fds[d][2]).kind \in Pipers => fds[d][2] # step
        BY <1>2, <2>1, <2>4 DEF Inherited, Closed
      <4> QED
        BY <1>2, <2>1, <4>1 DEF Inherited
    <3>3. fds[d][1] = "own" /\ step + 1 =< fds[d][2] => d = own[fds[d][2]]
      BY <1>2, <2>1 DEF Inherited
    <3> QED
      BY <1>1, <2>1, <2>4, <3>1, <3>2, <3>3 DEF Inherited, Inits, Nth
  <2> QED
    BY <1>3, <2>2, <2>3, <2>4
<1>5. ASSUME NEW i \in Inits, step + 1 =< i, own[i] \in Fds PROVE fds'[own[i]] \in {<<"own", i>>, Closed}
  <2>1. fds[own[i]] \in {<<"own", i>>, Closed}
    <3>1. ChildEnds
      BY DEF IInv
    <3>2. child = "setup" /\ step =< i
      BY <1>1, <1>2, <1>5
    <3> QED
      BY <1>5, <3>1, <3>2 DEF ChildEnds
  <2>2. own[i] \notin Nth(step).to
    BY <1>2 DEF IInv, EndsOwned
  <2> QED
    BY <1>3, <1>5, <2>1, <2>2
<1>6. HasErrorPipe => Reports'
  <2> SUFFICES ASSUME HasErrorPipe PROVE Reports'
    OBVIOUS
  <2>1. PICK e \in Fds \ Std :
          /\ fds[e] = <<"ew", 0>>
          /\ \A i \in Inits : e # own[i] /\ e # opp[i]
          /\ Limited => e \in used
    BY <1>1 DEF IInv, ChildEnds, Reports
  <2>2. pc # "setup"
    BY <1>1 DEF IInv, Stage
  <2>3. fds'[e] = fds[e]
    <3>1. CASE Nth(step).kind \in Binders /\ IsOpen(fds, own[step]) /\ fds' = Bound(step)
      BY <1>1, <1>2, <2>1, <3>1, BoundKinds
    <3>2. CASE ~(Nth(step).kind \in Binders /\ IsOpen(fds, own[step]) /\ fds' = Bound(step))
      <4>1. PICK shed \in SUBSET Fds :
              /\ fds' = Without(fds, shed)
              /\ Nth(step).kind \in Pipers => shed = {opp[step]} \cap Fds
              /\ Nth(step).kind = "limit" => shed \subseteq Fds \ used
              /\ Nth(step).kind \notin Pipers \cup {"limit"} => shed \subseteq Nth(step).to
        BY <3>2, ExecSetupKinds
      <4>2. e \notin shed
        <5>1. CASE Nth(step).kind \in Pipers
          BY <1>1, <2>1, <4>1, <5>1
        <5>2. CASE Nth(step).kind = "limit"
          BY <1>1, <2>1, <2>2, <4>1, <5>2 DEF Limited
        <5>3. CASE Nth(step).kind \notin Pipers \cup {"limit"}
          BY <1>2, <2>1, <4>1, <5>3
        <5> QED
          BY <5>1, <5>2, <5>3
      <4> QED
        BY <4>1, <4>2 DEF Without
    <3> QED
      BY <3>1, <3>2
  <2>4. Limited' => Limited
    BY <1>1, <2>2 DEF Limited, Inits, Nth
  <2> QED
    BY <1>1, <2>1, <2>3, <2>4 DEF Reports, Inits
<1> QED
  BY <1>1, <1>4, <1>5, <1>6 DEF ChildEnds, Inits, HasErrorPipe

LEMMA ChildEndsStep ==
  ASSUME Posix, IInv, TypeOK', [Next]_vars
  PROVE  ChildEnds'
<1>1. CASE child' \notin {"setup", "running"}
  BY <1>1 DEF ChildEnds
<1>2. CASE Exec
  <2>1. /\ child = "setup" /\ child' = "running"
        /\ \A d \in Fds : fds'[d] = IF fds[d] = <<"ew", 0>> /\ cloexec THEN Closed ELSE fds[d]
        /\ UNCHANGED <<plan, own, opp, step, cloexec>>
    BY <1>2 DEF Exec, callVars, parentVars
  <2>2. ASSUME NEW d \in Fds PROVE Inherited(d)'
    <3>1. Inherited(d) /\ fds[d] = <<fds[d][1], fds[d][2]>>
      BY <2>1, FilePairs DEF IInv, ChildEnds, TypeOK
    <3>2. fds'[d][1] # "ew" /\ (fds'[d] = fds[d] \/ fds'[d] = Closed)
      BY <2>1, <3>1 DEF Inherited, Closed
    <3> QED
      BY <2>1, <3>1, <3>2 DEF Inherited, Closed, Inits, Nth
  <2> QED
    BY <2>1, <2>2 DEF ChildEnds
<1>3. CASE UNCHANGED <<child, step, fds>> /\ child # "none"
  <2>1. UNCHANGED <<mode, how, plan, own, opp, used, cloexec>> /\ pc' # "setup"
    BY <1>3, LateKinds DEF callVars
  <2>2. pc # "setup"
    BY <1>3 DEF IInv, Stage
  <2>3. (\A d \in Fds : Inherited(d)) => \A d \in Fds : Inherited(d)'
    BY <1>3, <2>1 DEF Inherited, Inits, Nth
  <2>4. Limited' => Limited
    BY <2>1, <2>2 DEF Limited, Inits, Nth
  <2>5. Reports => Reports'
    BY <1>3, <2>1, <2>4 DEF Reports, Inits
  <2> QED
    BY <1>3, <2>1, <2>3, <2>5 DEF IInv, ChildEnds, Inits, HasErrorPipe
<1> QED
  BY <1>1, <1>2, <1>3, ForkEnds, ExecSetupEnds, ChildKinds

-------------------------------------------------------------------------------
(***************************************************************************)
(* The invariant holds.                                                    *)
(***************************************************************************)
LEMMA InvStep ==
  ASSUME Posix, IInv, [Next]_vars
  PROVE  IInv'
<1>1. TypeOK'
  BY TypeStep DEF IInv
<1> QED
  BY <1>1, StagedStep, OwnedStep, BeforeForkStep, GivenUpStep, SparingStep, ChildEndsStep DEF IInv

LEMMA InitInv ==
  ASSUME Posix, Init
  PROVE  IInv
<1>1. plan \in Plans /\ Inits = 1..Len(plan) /\ Len(plan) \in Nat /\ \A i \in Inits : i \in Nat \ {0}
  BY DEF Init, Posix, Inits
<1>2. \A i \in Inits :
        /\ own[i] = IF Nth(i).kind \in Takers \cup {"file"} THEN 2 * i + 1 ELSE -1
        /\ opp[i] = IF Nth(i).kind \in Takers THEN 2 * i + 2 ELSE -1
  BY DEF Init
<1>3. \A d \in Fds :
       table[d] = IF d \in Std THEN <<"std", d>>
                  ELSE IF \E i \in Inits : d = own[i] THEN <<"own", CHOOSE i \in Inits : d = own[i]>>
                  ELSE IF \E i \in Inits : d = opp[i] THEN <<"opp", CHOOSE i \in Inits : d = opp[i]>>
                  ELSE Closed
  BY DEF Init
<1>4. /\ pc = IF HasErrorPipe THEN "pipe" ELSE "setup"
      /\ at = 1 /\ guard = {} /\ shut = {} /\ ec = "ok" /\ handle = "none" /\ child = "none"
      /\ step = 1 /\ told = FALSE /\ fate = "none" /\ twice = FALSE /\ result = "none"
      /\ sibling = "none"
  BY DEF Init
<1>5. Std = 0..2 /\ Std \subseteq Fds /\ \A d \in Fds : d \in Nat /\ d # -1
  BY DEF Posix, Fds, Std
<1>6. \A i \in Inits : /\ own[i] \in Int /\ opp[i] \in Int
                       /\ own[i] \notin Std /\ opp[i] \notin Std
                       /\ own[i] \in Fds => own[i] = 2 * i + 1
                       /\ opp[i] \in Fds => opp[i] = 2 * i + 2 /\ Nth(i).kind \in Takers
  BY <1>1, <1>2, <1>5
<1>7. ASSUME NEW i \in Inits, own[i] \in Fds PROVE table[own[i]] = <<"own", i>>
  <2>1. \A j \in Inits : own[i] = own[j] => i = j
    BY <1>1, <1>6, <1>7
  <2>2. (CHOOSE j \in Inits : own[i] = own[j]) = i
    BY <2>1
  <2> QED
    BY <1>3, <1>6, <1>7, <2>2
<1>8. ASSUME NEW i \in Inits, opp[i] \in Fds PROVE table[opp[i]] = <<"opp", i>>
  <2>1. \A j \in Inits : opp[i] # own[j]
    <3> SUFFICES ASSUME NEW j \in Inits, opp[i] = own[j] PROVE FALSE
      OBVIOUS
    <3>1. 2 * i + 2 = 2 * j + 1 /\ i \in Int /\ j \in Int
      BY <1>1, <1>6, <1>8
    <3> QED
      BY <3>1
  <2>2. \A j \in Inits : opp[i] = opp[j] => i = j
    BY <1>1, <1>6, <1>8
  <2>3. (CHOOSE j \in Inits : opp[i] = opp[j]) = i
    BY <2>2
  <2> QED
    BY <1>3, <1>6, <1>8, <2>1, <2>3
<1>9. ASSUME NEW d \in Fds
      PROVE  \/ d \in Std /\ table[d] = <<"std", d>>
             \/ d \notin Std /\ \E i \in Inits : d = own[i] /\ table[d] = <<"own", i>>
             \/ d \notin Std /\ \E i \in Inits : d = opp[i] /\ table[d] = <<"opp", i>>
             \/ d \notin Std /\ table[d] = Closed
  BY <1>3, <1>7, <1>8
<1>10. TypeOK
  <2>1. \A d \in Fds : table[d] \in Files
    <3> SUFFICES ASSUME NEW d \in Fds PROVE table[d] \in Files
      OBVIOUS
    <3>1. d \in Int /\ \A i \in Inits : i \in Int
      BY <1>1, <1>5
    <3>2. /\ \A n \in Int : <<"std", n>> \in Files /\ <<"own", n>> \in Files /\ <<"opp", n>> \in Files
          /\ Closed \in Files
      BY Typed
    <3> QED
      BY <1>9, <3>1, <3>2
  <2>2. table \in [Fds -> Files]
    <3>1. table = [d \in Fds |-> table[d]]
      BY Zenon DEF Init
    <3> QED
      BY <2>1, <3>1
  <2>3. own \in [Inits -> Int] /\ opp \in [Inits -> Int]
    BY <1>6 DEF Init
  <2>4. fds \in [Fds -> Files] /\ cloexec \in BOOLEAN
    <3>1. fds = [d \in Fds |-> Closed] /\ cloexec = FALSE
      BY Zenon DEF Init
    <3> QED
      BY <3>1, Typed
  <2>5. mode \in {"throw", "code", "ignore"} /\ how \in {"fork", "vfork"}
    BY DEF Init, Posix
  <2>6. plan \in Plans
    BY <1>1
  <2>7. told \in BOOLEAN /\ twice \in BOOLEAN /\ shut \subseteq Inits /\ guard \subseteq Fds
    BY <1>4
  <2>8. pc \in {"pipe", "setup"} /\ at \in Nat \ {0} /\ step \in Nat \ {0}
    BY <1>4
  <2>9. /\ ec = "ok" /\ handle = "none" /\ child = "none" /\ fate = "none" /\ sibling = "none"
        /\ result = "none"
    BY <1>4
  <2> QED
    BY <2>2, <2>3, <2>4, <2>5, <2>6, <2>7, <2>8, <2>9 DEF TypeOK
<1>11. Stage /\ Process
  BY <1>4 DEF Stage, Process, Launched, HandleReaps
<1>12. EndsOwned
  <2>1. \A d \in Fds : table[d][1] = "own" => table[d][2] \in Inits /\ d = own[table[d][2]]
    BY <1>9 DEF Closed
  <2>2. \A d \in Fds : table[d][1] = "opp" =>
          table[d][2] \in Inits /\ d = opp[table[d][2]] /\ Nth(table[d][2]).kind \in Pipers
    BY <1>6, <1>9 DEF Closed, Pipers
  <2>3. \A d \in Fds : table[d][1] \notin {"er", "ew"}
    BY <1>9 DEF Closed
  <2> QED
    BY <1>4, <1>5, <1>6, <1>7, <1>9, <2>1, <2>2, <2>3 DEF EndsOwned
<1>13. BeforeFork
  BY <1>2, <1>4, <1>8 DEF BeforeFork, Asyncs, Takers
<1>14. GivenUp /\ ChildEnds
  BY <1>4 DEF GivenUp, Handed, ChildEnds
<1>15. Sparing
  <2>1. \A l \in Inits : ~(l < at)
    BY <1>1, <1>4
  <2> QED
    BY <1>4, <2>1 DEF Sparing, Limited
<1> QED
  BY <1>10, <1>11, <1>12, <1>13, <1>14, <1>15 DEF IInv

\* The inductive invariant holds in every state of a launch.
LEMMA Invariance ==
  ASSUME Posix
  PROVE  Spec => []IInv
<1>1. Init => IInv
  BY InitInv
<1>2. IInv /\ [Next]_vars => IInv'
  BY InvStep
<1> QED
  BY <1>1, <1>2, PTL DEF Spec

-------------------------------------------------------------------------------
(***************************************************************************)
(* The streams of the program.                                             *)
(***************************************************************************)
LEMMA ErrorsStay ==
  ASSUME TypeOK, [Next]_vars
  PROVE  (told => told') /\ (ec = "error" => ec' = "error")
<1>1. CASE Invoke
  BY <1>1
  DEF Invoke, OpenPipe, SetCloexec, OnSetup, SetUp, ForkFails, Fork, CloseSink, ReadError, Reap, Resume,
      CheckError, OnSuccess, Succeeded, OnError, Failed, Leave, SetError
<1>2. CASE OnExecSetup \/ ExecFails
  <2>1. Reported \/ UNCHANGED <<told, ec>>
    BY <1>2 DEF OnExecSetup, ExecFails
  <2> QED
    BY <2>1 DEF Reported, TypeOK
<1>3. CASE Exec \/ Exit \/ Killed \/ OtherOpens \/ SiblingStarts \/ SiblingEnds \/ UNCHANGED vars
  BY <1>3 DEF Exec, Exit, Killed, OtherOpens, SiblingStarts, SiblingEnds, vars, parentVars
<1> QED
  BY <1>1, <1>2, <1>3 DEF Next, ChildStep

LEMMA StreamsStep ==
  ASSUME Posix, FuturesLast, IInv, TypeOK', Streams, [Next]_vars
  PROVE  Streams'
<1> SUFFICES ASSUME child' \in {"setup", "running"}, ~told', ec' = "ok", mode' # "ignore"
             PROVE  \A i \in Inits' : i < step' /\ Nth(i)'.kind \in Binders =>
                      \A d \in Nth(i)'.to :
                        \/ fds'[d] = <<"own", i>>
                        \/ \E j \in Inits' : i < j /\ j < step' /\ d \in Nth(j)'.to
  BY DEF Streams
<1>1. UNCHANGED <<mode, how, plan, own, opp, used, cloexec>> /\ (child = "none" => Fork)
  BY LateKinds DEF callVars
<1>2. ~told /\ ec = "ok"
  BY ErrorsStay DEF IInv, TypeOK
<1>3. /\ Std \subseteq Fds /\ step \in Nat
      /\ \A i \in Inits : i \in Nat \ {0} /\ Nth(i).to \subseteq Std /\ own[i] \notin Std /\ opp[i] \notin Std
  BY Planned DEF Posix, IInv, TypeOK, EndsOwned
<1> SUFFICES ASSUME NEW i \in Inits, i < step', Nth(i).kind \in Binders, NEW d \in Nth(i).to
             PROVE  \/ fds'[d] = <<"own", i>>
                    \/ \E j \in Inits : i < j /\ j < step' /\ d \in Nth(j).to
  BY <1>1 DEF Inits, Nth
<1>4. d \in Fds /\ d \in Std
  BY <1>3
<1>5. ASSUME Fork PROVE FALSE
  BY <1>3, <1>5 DEF Fork
<1>6. ASSUME i < step, child \in {"setup", "running"}
      PROVE  fds[d] = <<"own", i>> \/ \E j \in Inits : i < j /\ j < step /\ d \in Nth(j).to
  BY <1>1, <1>2, <1>6 DEF Streams
<1>7. CASE OnExecSetup
  <2>1. child = "setup" /\ step \in Inits /\ step' = step + 1
    BY <1>7, ExecSetupKinds
  <2>2. ~Reported
    <3>1. how # "vfork" => HasErrorPipe
      BY <1>1 DEF HasErrorPipe, IInv, TypeOK
    <3> QED
      BY <1>1, <3>1 DEF Reported
  <2>3. i = step \/ i < step
    BY <1>3, <2>1
  <2>4. CASE Nth(step).kind \in Binders
    <3>1. fds' = Bound(step) /\ IsOpen(fds, own[step])
      BY <1>7, <2>2, <2>4, ExecSetupKinds
    <3>2. CASE i = step
      BY <1>4, <2>1, <2>4, <3>1, <3>2, BoundKinds
    <3>3. CASE i < step /\ d \in Nth(step).to
      BY <1>3, <2>1, <3>3
    <3>4. CASE i < step /\ d \notin Nth(step).to
      <4>1. fds'[d] = fds[d]
        BY <1>3, <1>4, <2>1, <2>4, <3>1, <3>4, BoundKinds
      <4>2. \A j \in Inits : j < step => j < step'
        BY <1>3, <2>1
      <4> QED
        BY <1>6, <2>1, <3>4, <4>1, <4>2
    <3> QED
      BY <2>3, <3>2, <3>3, <3>4
  <2>5. CASE Nth(step).kind \notin Binders
    <3>1. i < step
      BY <2>3, <2>5
    <3>2. PICK shed \in SUBSET Fds :
            /\ fds' = Without(fds, shed)
            /\ Nth(step).kind = "limit" => shed \subseteq Fds \ used
            /\ Nth(step).kind # "limit" => shed \subseteq Nth(step).to
      BY <1>7, <2>5, ExecSetupKinds DEF Binders
    <3>3. CASE d \in Nth(step).to
      BY <1>3, <2>1, <3>1, <3>3
    <3>4. CASE d \notin Nth(step).to
      <4>1. d \notin shed
        <5>1. CASE Nth(step).kind = "limit"
          <6>1. pc # "setup"
            BY <2>1 DEF IInv, Stage
          <6>2. Limited
            BY <2>1, <5>1, <6>1 DEF Limited
          <6>3. Nth(i).kind # "future"
            <7>1. plan \in Plans
              BY DEF IInv, TypeOK
            <7>2. Nth(i).kind = "future" => step < i
              BY <2>1, <5>1, <7>1 DEF FuturesLast, Inits, Nth
            <7> QED
              BY <1>3, <3>1, <7>2
          <6>4. Nth(i).to \subseteq used
            BY <2>1, <6>2, <6>3 DEF IInv, Sparing, Spares
          <6> QED
            BY <3>2, <5>1, <6>4
        <5>2. CASE Nth(step).kind # "limit"
          BY <3>2, <3>4, <5>2
        <5> QED
          BY <5>1, <5>2
      <4>2. fds'[d] = fds[d]
        BY <1>4, <3>2, <4>1 DEF Without
      <4>3. \A j \in Inits : j < step => j < step'
        BY <1>3, <2>1
      <4> QED
        BY <1>6, <2>1, <3>1, <4>2, <4>3
    <3> QED
      BY <3>3, <3>4
  <2> QED
    BY <2>4, <2>5
<1>8. CASE Exec
  <2>1. child = "setup" /\ step' = step
        /\ fds'[d] = IF fds[d] = <<"ew", 0>> /\ cloexec THEN Closed ELSE fds[d]
    BY <1>4, <1>8 DEF Exec
  <2> QED
    BY <1>6, <2>1
<1>9. CASE UNCHANGED <<child, step, fds>>
  BY <1>6, <1>9
<1> QED
  BY <1>5, <1>7, <1>8, <1>9, ChildKinds

LEMMA StreamsTrue ==
  ASSUME Posix, FuturesLast
  PROVE  Spec => []Streams
<1>1. Init => Streams
  BY DEF Init, Streams
<1>2. IInv /\ IInv' /\ Streams /\ [Next]_vars => Streams'
  BY StreamsStep DEF IInv
<1> QED
  BY <1>1, <1>2, Invariance, PTL DEF Spec

-------------------------------------------------------------------------------
(***************************************************************************)
(* The theorems.                                                           *)
(***************************************************************************)
\* The variables of a launch have their types, whatever the initializers, their
\* number and their order.
THEOREM TypeCorrect ==
  ASSUME Posix
  PROVE  Spec => []TypeOK
<1>1. IInv => TypeOK
  BY DEF IInv
<1> QED
  BY <1>1, Invariance, PTL

\* No step of a launch closes the file another thread opened meanwhile: pipe_guard,
\* p[1] = -1 after close, on_success and on_error close only what they own, unless
\* on_error runs after on_success.
THEOREM OthersKeptHolds ==
  ASSUME Posix
  PROVE  Spec => OthersKept
<1>1. IInv /\ IInv' /\ [Next]_vars => [Held(table, Other) => Held(table', Other) \/ twice]_vars
  BY OthersStep DEF IInv
<1> QED
  BY <1>1, Invariance, PTL DEF Spec, OthersKept

\* A launch leaves nothing behind.  No program keeps a copy of an end of a pipe that is
\* not its stream: the close calls of every on_exec_setup and FD_CLOEXEC leave only the
\* targets; the parent gives up the child's ends in on_success or on_error; and an
\* exception or an error that ends invoke while it has a child object terminates and
\* reaps the process, always so with vfork.
THEOREM NothingLeftHolds ==
  ASSUME Posix
  PROVE  Spec => []NothingLeft
<1>1. IInv => NothingLeft
  <2> SUFFICES ASSUME IInv PROVE EndsClosed /\ HandleReaps
    BY DEF NothingLeft
  <2>1. ParentKeepsNoEnds
    BY DEF IInv, GivenUp, Handed, ParentKeepsNoEnds, Held
  <2>2. ASSUME child = "running" PROVE ChildKeepsNoEnds
    <3>1. step \in Nat \ {0} /\ step \notin Inits /\ Inits = 1..Len(plan) /\ Len(plan) \in Nat
          /\ \A i \in Inits : i \in Nat \ {0}
      BY <2>2, Planned DEF IInv, Process, TypeOK
    <3>2. \A i \in Inits : i < step /\ ~(step =< i)
      BY <3>1
    <3>3. \A d \in Fds : Inherited(d)
      BY <2>2 DEF IInv, ChildEnds
    <3>4. ASSUME NEW d \in Fds
          PROVE  /\ fds[d][1] \notin {"opp", "er", "ew"}
                 /\ fds[d][1] = "own" /\ Nth(fds[d][2]).kind \in Pipers => d \in Nth(fds[d][2]).to
      BY <2>2, <3>2, <3>3 DEF Inherited
    <3> QED
      BY <3>4 DEF ChildKeepsNoEnds
  <2>3. HandleReaps
    BY DEF IInv, Process
  <2> QED
    BY <2>1, <2>2, <2>3 DEF EndsClosed, ChildKeepsNoEnds
<1> QED
  BY <1>1, Invariance, PTL

\* A child object from a launch whose errors are not ignored stands for a program
\* with every stream it was promised, or one a signal ended: set_error of the child
\* reaches the parent through the error pipe, which limit_handles spares, or the
\* shared _ec.  No async_out_future may come before limit_handles.
THEOREM SuccessTruthfulHolds ==
  ASSUME Posix, FuturesLast
  PROVE  Spec => []SuccessTruthful
<1>1. IInv /\ Streams => SuccessTruthful
  <2> SUFFICES ASSUME IInv, Streams, result = "child", mode # "ignore" PROVE SuccessTruthful
    BY DEF SuccessTruthful
  <2>1. ~told /\ child \in Launched /\ ec = "ok"
    BY DEF IInv, Stage
  <2>2. fate \in {"ran", "killed"}
    BY <2>1 DEF IInv, Process, TypeOK
  <2>3. ASSUME child = "running" PROVE HasStreams
    <3>1. step \in Nat \ {0} /\ step \notin Inits /\ Inits = 1..Len(plan) /\ Len(plan) \in Nat
          /\ \A i \in Inits : i \in Nat \ {0}
      BY <2>3, Planned DEF IInv, Process, TypeOK
    <3>2. \A i \in Inits : i < step
      BY <3>1
    <3>3. \A i \in Inits : Nth(i).kind \in Binders =>
            \A d \in Nth(i).to :
              \/ fds[d] = <<"own", i>>
              \/ \E j \in Inits : i < j /\ j < step /\ d \in Nth(j).to
      BY <2>1, <2>3, <3>2 DEF Streams
    <3> QED
      BY <3>1, <3>3 DEF HasStreams
  <2> QED
    BY <2>1, <2>2, <2>3 DEF SuccessTruthful
<1> QED
  BY <1>1, Invariance, StreamsTrue, PTL

-------------------------------------------------------------------------------
(***************************************************************************)
(* Two free numbers are enough for a pipe.                                 *)
(***************************************************************************)
LEMMA TwoMembers ==
  ASSUME NEW S, IsFiniteSet(S), Cardinality(S) >= 2
  PROVE  S # {} /\ \A x \in S : S \ {x} # {}
<1>1. S # {}
  BY FS_EmptySet
<1>2. ASSUME NEW x \in S, S \ {x} = {} PROVE FALSE
  <2>1. S = {x}
    BY <1>2
  <2> QED
    BY <2>1, FS_Singleton
<1> QED
  BY <1>1, <1>2

-------------------------------------------------------------------------------
(***************************************************************************)
(* The inductive invariant is OneOwner with the types.  It is split by     *)
(* what the program has risked: Apart as long as it shared no handles,     *)
(* Complete as long as it did nothing that the classes do not support.     *)
(***************************************************************************)
Handles == [Slots -> Numbers \cup {-1}]

HandleTypeOK ==
  /\ alive \subseteq Objects /\ open \subseteq Numbers
  /\ has \in [Objects -> Handles]

Apart ==
  /\ \A o \in Objects : Owned(o) \subseteq open /\ (Owned(o) # {} => o \in alive)
  /\ \A o, p \in Objects : o # p => Owned(o) \cap Owned(p) = {}
  /\ \A o \in Objects : has[o]["source"] = has[o]["sink"] => Owned(o) = {}

Complete == open \subseteq UNION {Owned(o) : o \in Objects}

HandleInv == HandleTypeOK /\ ("sharing" \notin risks => Apart) /\ (risks = {} => Complete)

LEMMA Decided == HandleInv => OneOwner
BY DEF HandleInv, Apart, Complete, OneOwner

LEMMA EverySlot ==
  ASSUME NEW f
  PROVE  NewFds(f) = {f["source"], f["sink"]} \ {-1}
BY DEF NewFds, Slots

LEMMA OwnedIs ==
  ASSUME NEW o
  PROVE  Owned(o) = NewFds(has[o]) /\ Owned(o)' = NewFds(has'[o])
BY DEF Owned, NewFds

LEMMA NoHandles == None \in Handles /\ NewFds(None) = {}
<1>1. None \in Handles
  BY DEF None, Handles
<1>2. NewFds(None) = {}
  BY DEF None, NewFds
<1> QED
  BY <1>1, <1>2

\* Only o changes: it keeps some of its handles, gets those in fresh, closes those in closing.
LEMMA TakeKeeps ==
  ASSUME HandleInv, "sharing" \notin risks, NEW o \in Objects, NEW f \in Handles,
         NEW fresh \in SUBSET FreeFds, NEW closing \in SUBSET Owned(o),
         Take(o, f, fresh, closing),
         NewFds(f) \subseteq (Owned(o) \ closing) \cup fresh,
         f["source"] = f["sink"] => NewFds(f) = {},
         alive' \subseteq Objects, alive \ {o} \subseteq alive',
         NewFds(f) # {} => o \in alive',
         risks' = {} => /\ risks = {}
                        /\ Owned(o) \ closing \subseteq NewFds(f) /\ fresh \subseteq NewFds(f)
  PROVE  HandleInv'
<1>1. HandleTypeOK /\ Apart
  BY DEF HandleInv
<1>2. HandleTypeOK'
  BY <1>1 DEF Take, HandleTypeOK, FreeFds
<1>3. /\ Owned(o)' = NewFds(f) /\ has'[o] = f
      /\ \A q \in Objects \ {o} : Owned(q)' = Owned(q) /\ has'[q] = has[q]
  BY <1>1, OwnedIs DEF Take, HandleTypeOK
<1>4. open' = (open \ closing) \cup fresh /\ fresh \cap open = {}
  BY DEF Take, FreeFds
<1>5. ASSUME NEW q \in Objects PROVE Owned(q)' \subseteq open' /\ (Owned(q)' # {} => q \in alive')
  <2>1. CASE q = o
    BY <1>1, <1>3, <1>4, <2>1 DEF Apart
  <2>2. CASE q # o
    <3>1. Owned(q) \subseteq open /\ Owned(q) \cap closing = {} /\ (Owned(q) # {} => q \in alive)
      BY <1>1, <2>2 DEF Apart
    <3> QED
      BY <1>3, <1>4, <2>2, <3>1
  <2> QED
    BY <2>1, <2>2
<1>6. ASSUME NEW q \in Objects \ {o} PROVE Owned(o)' \cap Owned(q)' = {}
  <2>1. Owned(q) \subseteq open /\ Owned(q) \cap Owned(o) = {}
    BY <1>1 DEF Apart
  <2> QED
    BY <1>3, <1>4, <2>1
<1>7. Apart'
  BY <1>1, <1>3, <1>5, <1>6 DEF Apart
<1>8. ASSUME risks' = {} PROVE Complete'
  <2>1. open \subseteq UNION {Owned(q) : q \in Objects}
    BY <1>8 DEF HandleInv, Complete
  <2>2. ASSUME NEW x \in open' PROVE \E q \in Objects : x \in Owned(q)'
    <3>1. CASE x \in fresh \/ x \in Owned(o)
      BY <1>1, <1>3, <1>4, <1>8, <2>2, <3>1
    <3>2. CASE x \in open /\ x \notin Owned(o)
      BY <1>3, <2>1, <3>2
    <3> QED
      BY <1>4, <2>2, <3>1, <3>2
  <2> QED
    BY <2>2 DEF Complete
<1> QED
  BY <1>2, <1>7, <1>8 DEF HandleInv

\* Handles change their owner, but for those that are closed.
LEMMA MoveKeeps ==
  ASSUME HandleInv, "sharing" \notin risks, NEW o \in Objects, NEW p \in Objects, o # p,
         NEW closing \in SUBSET Owned(o), MoveTo(o, p, closing),
         alive' \subseteq Objects, alive \subseteq alive', o \in alive',
         risks' = {} => risks = {} /\ Owned(o) \subseteq closing
  PROVE  HandleInv'
<1>1. HandleTypeOK /\ Apart
  BY DEF HandleInv
<1>2. HandleTypeOK'
  BY <1>1, NoHandles DEF MoveTo, HandleTypeOK
<1>3. /\ has'[o] = has[p] /\ has'[p] = None
      /\ Owned(o)' = Owned(p) /\ Owned(p)' = {}
      /\ \A q \in Objects \ {o, p} : Owned(q)' = Owned(q) /\ has'[q] = has[q]
  BY <1>1, OwnedIs, NoHandles DEF MoveTo, HandleTypeOK
<1>4. open' = open \ closing
  BY DEF MoveTo
<1>5. \A q \in Objects \ {o} : Owned(q) \subseteq open' /\ Owned(q) \cap Owned(o) = {}
  BY <1>1, <1>4 DEF Apart
<1>6. Apart'
  <2>1. \A q \in Objects : Owned(q)' \subseteq open' /\ (Owned(q)' # {} => q \in alive')
    BY <1>1, <1>3, <1>5 DEF Apart
  <2>2. \A q, r \in Objects : q # r => Owned(q)' \cap Owned(r)' = {}
    BY <1>1, <1>3 DEF Apart
  <2>3. \A q \in Objects : has'[q]["source"] = has'[q]["sink"] => Owned(q)' = {}
    BY <1>1, <1>3 DEF Apart
  <2> QED
    BY <2>1, <2>2, <2>3 DEF Apart
<1>7. ASSUME risks' = {} PROVE Complete'
  BY <1>3, <1>4, <1>7 DEF HandleInv, Complete
<1> QED
  BY <1>2, <1>6, <1>7 DEF HandleInv

\* A failure leaves open descriptors that nobody owns.
LEMMA FailedKeeps ==
  ASSUME HandleInv, NEW left \in SUBSET Numbers, Throws(left)
  PROVE  HandleInv'
<1>1. HandleTypeOK' /\ "exception" \in risks'
  BY DEF Throws, Risk, HandleInv, HandleTypeOK
<1>2. Apart => Apart'
  BY DEF Throws, Apart, Owned
<1> QED
  BY <1>1, <1>2 DEF HandleInv, Throws, Risk

\* Nothing is claimed of a program that shares.
LEMMA SharingKeeps ==
  ASSUME HandleInv, HandleTypeOK', Risk({"sharing"})
  PROVE  HandleInv'
BY DEF HandleInv, Risk

-------------------------------------------------------------------------------
(***************************************************************************)
(* Duplicates are fresh and differ.                                        *)
(***************************************************************************)
LEMMA FreshCopies ==
  ASSUME MaxOpen \in Nat, NEW p, NEW f \in Copies(p)
  PROVE  /\ f \in Handles /\ NewFds(f) \subseteq FreeFds
         /\ f["source"] = f["sink"] => NewFds(f) = {}
<1>1. /\ f \in [Slots -> FreeFds \cup {-1}]
      /\ f["sink"] # -1 => f["sink"] = LeastOf(FreeFds \ {f["source"]})
  BY DEF Copies
<1>2. FreeFds \subseteq Numbers /\ Numbers \subseteq Nat
  BY DEF FreeFds, Numbers
<1>3. f \in Handles
  BY <1>1, <1>2 DEF Handles
<1>4. NewFds(f) \subseteq FreeFds
  BY <1>1 DEF NewFds
<1>5. ASSUME f["source"] = f["sink"] PROVE f["sink"] = -1
  <2> DEFINE S == FreeFds \ {f["source"]}
  <2> SUFFICES ASSUME f["sink"] # -1 PROVE FALSE
    OBVIOUS
  <2>1. f["sink"] = LeastOf(S) /\ f["sink"] \in Numbers
    BY <1>1, <1>2 DEF Slots
  <2>2. CASE S = {}
    <3>1. f["sink"] = 0
      BY <2>1, <2>2 DEF LeastOf
    <3> QED
      BY <2>1, <3>1 DEF Numbers
  <2>3. CASE S # {}
    <3>1. Min(S) \in S
      BY <1>2, <2>3, MinIsMember
    <3> QED
      BY <1>5, <2>1, <2>3, <3>1 DEF LeastOf
  <2> QED
    BY <2>2, <2>3
<1> QED
  BY <1>3, <1>4, <1>5, EverySlot

\* Where nothing is to be copied nothing fails.
LEMMA NoneToCopy ==
  ASSUME NEW p, \A s \in Slots : has[p][s] = -1
  PROVE  None \in Copies(p)
BY DEF None, Copies, Slots

LEMMA DuplicateKeeps ==
  ASSUME MaxOpen \in Nat, HandleInv, "sharing" \notin risks, NEW o \in Objects \ alive, NEW p,
         Duplicate(o, p)
  PROVE  HandleInv'
<1>1. Owned(o) = {} /\ alive \subseteq Objects
  BY DEF HandleInv, Apart, HandleTypeOK
<1>2. ASSUME NEW f \in Copies(p), Take(o, f, NewFds(f), {}), alive' = alive \cup {o}, risks' = risks
      PROVE  HandleInv'
  BY <1>1, <1>2, FreshCopies, TakeKeeps
<1>3. CASE Throws(Dupped)
  BY <1>3, FailedKeeps DEF Dupped, FreeFds
<1> QED
  BY <1>2, <1>3 DEF Duplicate

-------------------------------------------------------------------------------
(***************************************************************************)
(* The steps.                                                              *)
(***************************************************************************)
LEMMA ConstructStep ==
  ASSUME MaxOpen \in Nat, HandleInv, "sharing" \notin risks, NEW o \in Objects, Construct(o)
  PROVE  HandleInv'
<1>1. o \notin alive /\ Owned(o) = {} /\ alive \subseteq Objects
  BY DEF HandleInv, Apart, HandleTypeOK, Construct
<1>2. FreeFds \subseteq Numbers /\ Numbers \subseteq Nat /\ IsFiniteSet(FreeFds)
  <2>1. FreeFds \subseteq Numbers /\ Numbers \subseteq Nat
    BY DEF FreeFds, Numbers
  <2>2. IsFiniteSet(Numbers)
    BY FS_Interval DEF Numbers
  <2> QED
    BY <2>1, <2>2, FS_Subset
<1>3. CASE Throws(FreeFds)
  BY <1>2, <1>3, FailedKeeps
<1>4. CASE Cardinality(FreeFds) >= 2
  <2> DEFINE r == Min(FreeFds)
             w == Min(FreeFds \ {r})
             f == [s \in Slots |-> IF s = "source" THEN r ELSE w]
  <2>1. r \in FreeFds
    BY <1>2, <1>4, TwoMembers, MinIsMember
  <2>2. w \in FreeFds \ {r}
    <3>1. FreeFds \ {r} # {} /\ FreeFds \ {r} \subseteq Nat
      BY <1>2, <1>4, <2>1, TwoMembers
    <3> QED
      BY <3>1, MinIsMember
  <2>3. CASE Take(o, f, {r, w}, {}) /\ alive' = alive \cup {o} /\ risks' = risks
    <3> HIDE DEF r, w
    <3>1. f["source"] = r /\ f["sink"] = w /\ f \in Handles
      BY <1>2, <2>1, <2>2 DEF Slots, Handles
    <3> HIDE DEF f
    <3>2. NewFds(f) = {r, w}
      BY <1>2, <2>1, <2>2, <3>1, EverySlot
    <3>3. r # w
      BY <2>2
    <3> QED
      BY <1>1, <2>1, <2>2, <2>3, <3>1, <3>2, <3>3, TakeKeeps
  <2> QED
    BY <1>3, <1>4, <2>3 DEF Construct
<1> QED
  BY <1>3, <1>4 DEF Construct

LEMMA NewObjectStep ==
  ASSUME MaxOpen \in Nat, HandleInv, "sharing" \notin risks, NEW o \in Objects, NEW p \in Objects,
         Copy(o, p) \/ Convert(o, p) \/ Move(o, p)
  PROVE  HandleInv'
<1>1. CASE Copy(o, p) \/ Convert(o, p)
  BY <1>1, DuplicateKeeps DEF Copy, Convert
<1>2. CASE Move(o, p)
  <2>1. o # p /\ Owned(o) = {} /\ alive \subseteq Objects
    BY <1>2 DEF Move, HandleInv, Apart, HandleTypeOK
  <2> QED
    BY <1>2, <2>1, MoveKeeps DEF Move
<1> QED
  BY <1>1, <1>2

LEMMA AdoptStep ==
  ASSUME HandleInv, "sharing" \notin risks, NEW o \in Objects, NEW p \in Objects, Adopt(o, p)
  PROVE  HandleInv'
<1>1. HandleTypeOK'
  <2>1. HandleTypeOK /\ has[p] \in Handles
    BY DEF HandleInv, HandleTypeOK
  <2> QED
    BY <2>1 DEF Adopt, Take, HandleTypeOK
<1> QED
  BY <1>1, SharingKeeps DEF Adopt

LEMMA MoveAssignStep ==
  ASSUME HandleInv, "sharing" \notin risks, NEW o \in Objects, NEW p \in Objects, MoveAssign(o, p)
  PROVE  HandleInv'
<1>1. /\ o # p /\ o \in alive /\ p \in alive /\ alive' = alive
      /\ HandleTypeOK /\ Apart /\ alive \subseteq Objects
  BY DEF MoveAssign, Both, HandleInv, HandleTypeOK
<1>2. CASE MoveTo(o, p, {}) /\ Risk(Overwrites(o, None))
  <2>1. risks' = {} => risks = {} /\ Owned(o) = {}
    BY <1>2, NoHandles DEF Risk, Overwrites
  <2> QED
    BY <1>1, <1>2, <2>1, MoveKeeps
<1>3. CASE MoveTo(o, p, Owned(o)) /\ UNCHANGED risks
  BY <1>1, <1>3, MoveKeeps
<1>4. CASE has' = [has EXCEPT ![o] = has[p], ![p] = has[o]] /\ UNCHANGED <<open, risks>>
  <2>1. /\ HandleTypeOK' /\ has'[o] = has[p] /\ has'[p] = has[o]
        /\ Owned(o)' = Owned(p) /\ Owned(p)' = Owned(o)
        /\ \A q \in Objects \ {o, p} : Owned(q)' = Owned(q) /\ has'[q] = has[q]
    BY <1>1, <1>4, OwnedIs DEF HandleTypeOK
  <2>2. \A q \in Objects : Owned(q)' \subseteq open' /\ (Owned(q)' # {} => q \in alive')
    BY <1>1, <1>4, <2>1 DEF Apart
  <2>3. \A q, r \in Objects : q # r => Owned(q)' \cap Owned(r)' = {}
    BY <1>1, <2>1 DEF Apart
  <2>4. \A q \in Objects : has'[q]["source"] = has'[q]["sink"] => Owned(q)' = {}
    BY <1>1, <2>1 DEF Apart
  <2>5. Apart'
    BY <2>2, <2>3, <2>4 DEF Apart
  <2>6. Complete => Complete'
    BY <1>4, <2>1 DEF Complete
  <2> QED
    BY <1>4, <2>1, <2>5, <2>6 DEF HandleInv
<1> QED
  BY <1>2, <1>3, <1>4 DEF MoveAssign

LEMMA CopyAssignBasicStep ==
  ASSUME MaxOpen \in Nat, HandleInv, "sharing" \notin risks, NEW o \in alive, NEW p,
         UNCHANGED alive, CopyAssignBasic(o, p)
  PROVE  HandleInv'
<1>1. /\ HandleTypeOK /\ Apart /\ o \in Objects /\ alive \subseteq Objects /\ has[o] \in Handles
      /\ Owned(o) = NewFds(has[o]) /\ Owned(o) \subseteq open
  BY OwnedIs DEF HandleInv, HandleTypeOK, Apart
<1>2. FreeFds \cap open = {} /\ FreeFds \subseteq Numbers /\ Numbers \subseteq Nat
  BY DEF FreeFds, Numbers
<1>3. ASSUME NEW f \in Copies(p), NEW g,
             g = [s \in Slots |-> IF f[s] = -1 /\ system = "posix" THEN has[o][s] ELSE f[s]],
             Take(o, g, NewFds(f), {}), Risk(Overwrites(o, g))
      PROVE  HandleInv'
  <2>1. /\ f \in Handles /\ NewFds(f) \subseteq FreeFds
        /\ f["source"] = f["sink"] => NewFds(f) = {}
    BY FreshCopies
  <2>2. /\ g \in Handles
        /\ g["source"] \in {f["source"], has[o]["source"]} /\ (f["source"] # -1 => g["source"] = f["source"])
        /\ g["sink"] \in {f["sink"], has[o]["sink"]} /\ (f["sink"] # -1 => g["sink"] = f["sink"])
    BY <1>1, <1>3, <2>1 DEF Handles, Slots
  <2>3. NewFds(f) \subseteq NewFds(g) /\ NewFds(g) \subseteq Owned(o) \cup NewFds(f)
    BY <1>1, <2>2, EverySlot
  <2>4. g["source"] = g["sink"] => NewFds(g) = {}
    <3>1. NewFds(f) \cap NewFds(has[o]) = {}
      BY <1>1, <1>2, <2>1
    <3>2. has[o]["source"] = has[o]["sink"] => NewFds(has[o]) = {}
      BY <1>1 DEF Apart
    <3> QED
      BY <2>1, <2>2, <3>1, <3>2, EverySlot
  <2>5. risks' = {} => risks = {} /\ Owned(o) \subseteq NewFds(g)
    BY <1>3 DEF Risk, Overwrites
  <2> QED
    BY <1>1, <1>3, <2>1, <2>2, <2>3, <2>4, <2>5, TakeKeeps
<1>4. ASSUME NEW f \in Handles, f["source"] = f["sink"] => NewFds(f) = {},
             NewFds(f) \subseteq Owned(o) \cup FreeFds,
             Take(o, f, Dupped, {}), Risk({"exception"})
      PROVE  HandleInv'
  <2>1. risks' # {}
    BY <1>4 DEF Risk
  <2> QED
    BY <1>1, <1>4, <2>1, TakeKeeps DEF Dupped
<1>5. ASSUME NEW first \in Slots PROVE
        /\ [has[o] EXCEPT ![first] = -1] \in Handles
        /\ NewFds([has[o] EXCEPT ![first] = -1]) \subseteq Owned(o)
        /\ [has[o] EXCEPT ![first] = -1]["source"] = [has[o] EXCEPT ![first] = -1]["sink"]
             => NewFds([has[o] EXCEPT ![first] = -1]) = {}
  BY <1>1, <1>5, EverySlot DEF Handles, Slots
<1>6. ASSUME NEW f, f = [s \in Slots |-> IF s = "source" THEN Min(FreeFds) ELSE -1], FreeFds # {}
      PROVE  f \in Handles /\ NewFds(f) \subseteq FreeFds /\ f["source"] # f["sink"]
  <2>1. Min(FreeFds) \in FreeFds
    BY <1>2, <1>6, MinIsMember
  <2>2. f["source"] = Min(FreeFds) /\ f["sink"] = -1
    BY <1>6 DEF Slots
  <2>3. f \in Handles
    BY <1>2, <1>6, <2>1 DEF Handles
  <2> QED
    BY <1>2, <2>1, <2>2, <2>3, EverySlot
<1>7. CASE DupFails(p) /\ Dupped = {}
  <2> DEFINE First(s) == has[p][s] # -1 /\ (s = "sink" => has[p]["source"] = -1)
             first == CHOOSE s \in Slots : First(s)
  <2>1. \E s \in Slots : has[p][s] # -1
    BY <1>7, NoneToCopy DEF DupFails
  <2>2. \E s \in Slots : First(s)
    BY <2>1 DEF Slots
  <2>3. first \in Slots
    BY <2>2
  <2> QED
    BY <1>3, <1>4, <1>5, <1>7, <2>3 DEF CopyAssignBasic
<1>8. CASE DupFails(p) /\ Dupped # {}
  BY <1>3, <1>4, <1>6, <1>8 DEF CopyAssignBasic, Dupped
<1> QED
  BY <1>3, <1>7, <1>8 DEF CopyAssignBasic

LEMMA CopyAssignAsyncStep ==
  ASSUME MaxOpen \in Nat, HandleInv, "sharing" \notin risks, NEW o \in alive, NEW p,
         UNCHANGED alive, CopyAssignAsync(o, p)
  PROVE  HandleInv'
<1>1. /\ HandleTypeOK /\ Apart /\ o \in Objects /\ alive \subseteq Objects /\ has[o] \in Handles
      /\ Owned(o) = NewFds(has[o]) /\ Owned(o) \subseteq open
  BY OwnedIs DEF HandleInv, HandleTypeOK, Apart
<1>2. FreeFds \cap open = {}
  BY DEF FreeFds
<1>3. ASSUME NEW f \in Copies(p), Take(o, f, NewFds(f), Owned(o)), UNCHANGED risks PROVE HandleInv'
  BY <1>1, <1>3, FreshCopies, TakeKeeps
<1>4. ASSUME NEW f \in Copies(p), NEW taken \in SUBSET Slots,
             \A s \in taken : has[o][s] = -1 /\ f[s] # -1 /\ has[o]["source"] = -1 /\ f["source"] # -1,
             Take(o, [s \in Slots |-> IF s \in taken THEN f[s] ELSE has[o][s]], NewFds(f), {}),
             Risk(IF taken = Slots THEN {} ELSE {"exception"})
      PROVE  HandleInv'
  <2> DEFINE g == [s \in Slots |-> IF s \in taken THEN f[s] ELSE has[o][s]]
  <2>1. /\ f \in Handles /\ NewFds(f) \subseteq FreeFds
        /\ f["source"] = f["sink"] => NewFds(f) = {}
    BY FreshCopies
  <2>2. /\ g \in Handles
        /\ g["source"] \in {f["source"], has[o]["source"]}
        /\ g["sink"] \in {f["sink"], has[o]["sink"]}
        /\ taken = Slots => g["source"] = f["source"] /\ g["sink"] = f["sink"] /\ Owned(o) = {}
    BY <1>1, <1>4, <2>1, EverySlot DEF Handles, Slots
  <2>3. NewFds(g) \subseteq Owned(o) \cup NewFds(f) /\ (taken = Slots => NewFds(g) = NewFds(f))
    BY <1>1, <2>2, EverySlot
  <2>4. g["source"] = g["sink"] => NewFds(g) = {}
    <3>1. NewFds(f) \cap NewFds(has[o]) = {}
      BY <1>1, <1>2, <2>1
    <3>2. has[o]["source"] = has[o]["sink"] => NewFds(has[o]) = {}
      BY <1>1 DEF Apart
    <3> QED
      BY <2>1, <2>2, <3>1, <3>2, EverySlot
  <2>5. risks' = {} => risks = {} /\ taken = Slots
    BY <1>4 DEF Risk
  <2> QED
    BY <1>1, <1>4, <2>1, <2>2, <2>3, <2>4, <2>5, TakeKeeps
<1>5. CASE Take(o, has[o], Dupped, {}) /\ Risk({"exception"})
  <2>1. risks' # {}
    BY <1>5 DEF Risk
  <2> QED
    BY <1>1, <1>5, <2>1, TakeKeeps DEF Dupped, Apart
<1> QED
  BY <1>3, <1>4, <1>5 DEF CopyAssignAsync

LEMMA CloseStep ==
  ASSUME HandleInv, "sharing" \notin risks, NEW o \in Objects, Close(o) \/ Destroy(o)
  PROVE  HandleInv'
<1>1. alive \subseteq Objects
  BY DEF HandleInv, HandleTypeOK
<1>2. alive' \subseteq Objects /\ alive \ {o} \subseteq alive'
  BY <1>1 DEF Close, Destroy
<1> QED
  BY <1>2, NoHandles, TakeKeeps DEF Close, Destroy

LEMMA EndStep ==
  ASSUME HandleInv, "sharing" \notin risks, NEW o \in Objects, NEW s \in Slots,
         GiveAway(o, s) \/ Release(o, s)
  PROVE  HandleInv'
<1>1. HandleTypeOK /\ Apart /\ has[o] \in Handles /\ alive \subseteq Objects /\ o \in alive
  BY DEF HandleInv, HandleTypeOK, GiveAway, Release
<1>2. CASE Take(o, [has[o] EXCEPT ![s] = -1], {}, {has[o][s]}) /\ has[o][s] # -1
           /\ UNCHANGED <<alive, risks>>
  <2> DEFINE f == [has[o] EXCEPT ![s] = -1]
  <2>1. f \in Handles /\ has[o][s] \in Owned(o)
    BY <1>1, <1>2 DEF Handles, Owned
  <2>2. NewFds(f) = Owned(o) \ {has[o][s]} /\ (f["source"] = f["sink"] => NewFds(f) = {})
    <3>1. has[o]["source"] = has[o]["sink"] => has[o][s] = -1
      BY <1>1, <2>1 DEF Apart
    <3> QED
      BY <1>1, <1>2, <3>1, OwnedIs, EverySlot DEF Handles, Slots
  <2>3. Take(o, f, {}, {has[o][s]}) /\ alive' = alive /\ risks' = risks
    BY <1>2
  <2> HIDE DEF f
  <2> QED
    BY <1>1, <2>1, <2>2, <2>3, TakeKeeps
<1>3. CASE Take(o, has[o], {}, {has[o][s]}) /\ Risk({"sharing"}) /\ UNCHANGED alive
  <2>1. HandleTypeOK'
    BY <1>1, <1>3 DEF Take, HandleTypeOK
  <2> QED
    BY <1>3, <2>1, SharingKeeps
<1> QED
  BY <1>2, <1>3 DEF GiveAway, Release

(***************************************************************************)
(* Whatever the program does with its pipes, every handle an object has is *)
(* open and no other object's, until the program shares handles itself;    *)
(* and no descriptor is left without an owner until it overwrites handles  *)
(* or a duplication fails.                                                 *)
(***************************************************************************)
THEOREM OneOwnerHolds ==
  ASSUME MaxOpen \in Nat
  PROVE  HandleSpec => []OneOwner
<1>1. HandleInit => HandleInv
  <2> SUFFICES ASSUME HandleInit PROVE HandleInv
    OBVIOUS
  <2>1. /\ \A o \in Objects : has[o] = None
        /\ HandleTypeOK
    BY NoHandles DEF HandleInit, HandleTypeOK
  <2>2. \A o \in Objects : Owned(o) = {}
    BY <2>1, NoHandles, OwnedIs
  <2> QED
    BY <2>1, <2>2 DEF HandleInit, HandleInv, Apart, Complete
<1>2. HandleInv /\ [HandleNext]_handleVars => HandleInv'
  <2> SUFFICES ASSUME HandleInv, [HandleNext]_handleVars PROVE HandleInv'
    OBVIOUS
  <2>1. CASE UNCHANGED handleVars
    <3>1. UNCHANGED <<alive, has, open, risks>>
      BY <2>1 DEF handleVars
    <3>2. HandleTypeOK' = HandleTypeOK /\ Apart' = Apart /\ Complete' = Complete
      BY <3>1 DEF HandleTypeOK, Apart, Complete, Owned
    <3> QED
      BY <3>1, <3>2 DEF HandleInv
  <2> SUFFICES ASSUME HandleNext PROVE HandleInv'
    BY <2>1
  <2>2. "sharing" \notin risks
    BY DEF HandleNext
  <2>3. ASSUME NEW o \in Objects, NEW p \in Objects, CopyAssign(o, p) PROVE HandleInv'
    <3>1. o \in alive /\ UNCHANGED alive
      BY <2>3 DEF CopyAssign, Both
    <3> QED
      BY <2>2, <2>3, <3>1, CopyAssignBasicStep, CopyAssignAsyncStep DEF CopyAssign
  <2> QED
    BY <2>2, <2>3, ConstructStep, NewObjectStep, AdoptStep, MoveAssignStep, CloseStep, EndStep
    DEF HandleNext
<1> QED
  BY <1>1, <1>2, Decided, PTL DEF HandleSpec

-------------------------------------------------------------------------------
(***************************************************************************)
(* The inductive invariant.  The characters are numbered, so they are what *)
(* their places say: first those that were got, then those in the get      *)
(* area, those in the pipe, and those of the put area that write(2) has    *)
(* not transferred yet.                                                    *)
(***************************************************************************)
Chars == Seq(Nat)

StreamTypeOK ==
  /\ put \in Chars /\ count \in Nat /\ wrote \in Nat
  /\ writer \in {"open", "put", "flush", "close", "closed"}
  /\ pipe \in Chars
  /\ area \in [0..Back -> Nat] /\ gptr \in Nat /\ egptr \in Nat
  /\ reader \in {"open", "underflow", "end", "gone"}
  /\ got \in Chars

AreasFit ==
  /\ Len(put) <= WriteSize /\ wrote <= Len(put)
  /\ gptr <= egptr /\ egptr <= Back

Numbered ==
  /\ \A i \in 1..Len(got) : got[i] = i
  /\ \A x \in gptr..(egptr - 1) : area[x] = Len(got) + 1 + (x - gptr)
  /\ \A i \in 1..Len(pipe) : pipe[i] = Len(got) + (egptr - gptr) + i
  /\ \A i \in (wrote + 1)..Len(put) :
       put[i] = Len(got) + (egptr - gptr) + Len(pipe) + (i - wrote)
  /\ count = Len(got) + (egptr - gptr) + Len(pipe) + (Len(put) - wrote)

Phases ==
  /\ ~Writing => wrote = 0
  /\ writer = "put" => count < MaxPut /\ Len(put) = WriteSize
  /\ writer = "closed" /\ reader # "gone" => put = <<>>
  /\ reader = "underflow" => gptr = egptr

StreamInv == StreamTypeOK /\ AreasFit /\ Numbered /\ Phases

\* What the code gives the constants: areas of at least one character, and a get area
\* that starts inside the vector.
Sizes == /\ WriteSize \in Nat \ {0} /\ ReadSize \in Nat \ {0}
         /\ FirstGet \in 0..Back /\ NextGet \in 0..Back

\* Nobody interrupts the last write(2), that of close.
Uninterrupted == "close" \notin Interrupts

(***************************************************************************)
(* What is appended, and what is left when the first characters leave.     *)
(***************************************************************************)
LEMMA Appended ==
  ASSUME NEW s \in Chars, NEW c \in Nat
  PROVE  /\ Append(s, c) \in Chars /\ Len(s) \in Nat /\ Len(Append(s, c)) = Len(s) + 1
         /\ Append(s, c)[Len(s) + 1] = c
         /\ \A i \in 1..Len(s) : Append(s, c)[i] = s[i]
BY DEF Chars

LEMMA Suffix ==
  ASSUME NEW s \in Chars, NEW n \in 0..Len(s)
  PROVE  /\ SubSeq(s, n + 1, Len(s)) \in Chars
         /\ Len(SubSeq(s, n + 1, Len(s))) = Len(s) - n
         /\ \A i \in 1..(Len(s) - n) : SubSeq(s, n + 1, Len(s))[i] = s[n + i]
<1> DEFINE m == Len(s)
           t == SubSeq(s, n + 1, m)
<1>1. m \in Nat /\ n \in Nat /\ n <= m /\ \A i \in (n + 1)..m : s[i] \in Nat
  BY DEF Chars
<1>2. /\ t \in Seq(Nat)
      /\ Len(t) = IF n + 1 <= m THEN m - (n + 1) + 1 ELSE 0
      /\ \A i \in 1..(m - (n + 1) + 1) : t[i] = s[(n + 1) + i - 1]
  BY <1>1, SubSeqProperties
<1> HIDE DEF t, m
<1>3. Len(t) = m - n
  BY <1>1, <1>2
<1>4. ASSUME NEW i \in 1..(m - n) PROVE t[i] = s[n + i]
  <2>1. i \in 1..(m - (n + 1) + 1) /\ (n + 1) + i - 1 = n + i
    BY <1>1
  <2> QED
    BY <1>2, <2>1
<1> QED
  BY <1>2, <1>3, <1>4 DEF t, m, Chars

LEMMA StreamInitInv == Sizes /\ StreamInit => StreamInv
<1> SUFFICES ASSUME Sizes, StreamInit PROVE StreamInv
  OBVIOUS
<1>1. <<>> \in Chars /\ Len(<<>>) = 0
  BY EmptySeq DEF Chars
<1>2. Back \in Nat /\ gptr \in Nat /\ gptr = egptr /\ egptr <= Back
  BY DEF Sizes, StreamInit, Back
<1>3. StreamTypeOK
  BY <1>1, <1>2 DEF StreamInit, StreamTypeOK
<1>4. AreasFit
  BY <1>1, <1>2 DEF StreamInit, AreasFit, Sizes
<1>5. Numbered
  BY <1>1, <1>2 DEF StreamInit, Numbered
<1>6. Phases
  BY DEF StreamInit, Phases, Writing
<1> QED
  BY <1>3, <1>4, <1>5, <1>6 DEF StreamInv

LEMMA PutInv == Sizes /\ StreamInv /\ Put => StreamInv'
<1> SUFFICES ASSUME Sizes, StreamInv, Put PROVE StreamInv'
  OBVIOUS
<1> USE DEF StreamInv
<1>1. CASE Len(put) < WriteSize
  <2>1. /\ put' = Append(put, count + 1) /\ count' = count + 1
        /\ UNCHANGED <<writer, wrote, pipe, area, gptr, egptr, reader, got>>
        /\ writer = "open"
    BY <1>1 DEF Put, readerVars
  <2>2. /\ Len(put) \in Nat /\ Len(put') = Len(put) + 1 /\ put' \in Chars
        /\ \A i \in 1..Len(put) : put'[i] = put[i]
        /\ put'[Len(put) + 1] = count + 1
    BY <2>1 DEF StreamTypeOK, Chars
  <2>3. StreamTypeOK'
    BY <2>1, <2>2 DEF StreamTypeOK
  <2>4. AreasFit'
    BY <1>1, <2>1, <2>2 DEF StreamTypeOK, AreasFit, Sizes, Back
  <2>5. Numbered'
    BY <2>1, <2>2 DEF StreamTypeOK, AreasFit, Numbered, Chars
  <2>6. Phases'
    BY <2>1 DEF Phases, Writing
  <2> QED
    BY <2>3, <2>4, <2>5, <2>6
<1>2. CASE ~(Len(put) < WriteSize)
  <2>1. /\ writer' = "put" /\ writer = "open" /\ count < MaxPut
        /\ UNCHANGED <<put, count, wrote, pipe, area, gptr, egptr, reader, got>>
    BY <1>2 DEF Put, readerVars
  <2>2. Len(put) = WriteSize
    BY <1>2 DEF StreamTypeOK, AreasFit, Chars, Sizes
  <2> QED
    BY <2>1, <2>2 DEF StreamTypeOK, AreasFit, Numbered, Phases, Writing, Back
<1> QED
  BY <1>1, <1>2

LEMMA FlushInv == StreamInv /\ Flush => StreamInv'
BY DEF StreamInv, StreamTypeOK, AreasFit, Numbered, Phases, Writing, Back, Flush, readerVars

LEMMA CloseInv == StreamInv /\ CloseStream => StreamInv'
BY DEF StreamInv, StreamTypeOK, AreasFit, Numbered, Phases, Writing, Back, CloseStream, readerVars

LEMMA WriteFailsInv == StreamInv /\ WriteFails => StreamInv'
BY DEF StreamInv, StreamTypeOK, AreasFit, Numbered, Phases, Writing, Back, WriteFails, readerVars

LEMMA EndOfFileInv == StreamInv /\ EndOfFile => StreamInv'
BY DEF StreamInv, StreamTypeOK, AreasFit, Numbered, Phases, Writing, Back, EndOfFile, writerVars

LEMMA ReaderClosesInv == StreamInv /\ ReaderCloses => StreamInv'
BY DEF StreamInv, StreamTypeOK, AreasFit, Numbered, Phases, Writing, Back, ReaderCloses, writerVars

\* A character moves from the put area to the pipe.
LEMMA TransferInv == StreamInv /\ Transfer => StreamInv'
<1> SUFFICES ASSUME StreamInv, Transfer PROVE StreamInv'
  OBVIOUS
<1> USE DEF StreamInv
<1>1. /\ pipe' = Append(pipe, put[wrote + 1]) /\ wrote' = wrote + 1
      /\ UNCHANGED <<put, count, writer, area, gptr, egptr, reader, got>>
      /\ Writing /\ wrote < Len(put)
  BY DEF Transfer, readerVars
<1>2. wrote + 1 \in 1..Len(put) /\ put[wrote + 1] \in Nat
  BY <1>1 DEF StreamTypeOK, Chars
<1>3. /\ Len(pipe) \in Nat /\ Len(pipe') = Len(pipe) + 1 /\ pipe' \in Chars
      /\ \A i \in 1..Len(pipe) : pipe'[i] = pipe[i]
      /\ pipe'[Len(pipe) + 1] = put[wrote + 1]
  BY <1>1, <1>2 DEF StreamTypeOK, Chars
<1>4. StreamTypeOK'
  BY <1>1, <1>3 DEF StreamTypeOK
<1>5. AreasFit'
  BY <1>1 DEF StreamTypeOK, AreasFit, Chars, Back
<1>6. Numbered'
  <2>1. /\ \A i \in 1..Len(got) : got'[i] = i
        /\ \A x \in gptr..(egptr - 1) : area'[x] = Len(got') + 1 + (x - gptr')
    BY <1>1 DEF Numbered
  <2>2. put[wrote + 1] = Len(got) + (egptr - gptr) + Len(pipe) + 1
    BY <1>2 DEF StreamTypeOK, Numbered, Chars
  <2>3. \A i \in 1..Len(pipe') : pipe'[i] = Len(got') + (egptr' - gptr') + i
    <3> SUFFICES ASSUME NEW i \in 1..Len(pipe') PROVE pipe'[i] = Len(got) + (egptr - gptr) + i
      BY <1>1
    <3> DEFINE here == Len(got) + (egptr - gptr)
    <3>0. here \in Int
      BY DEF StreamTypeOK, Chars
    <3>1. CASE i \in 1..Len(pipe)
      BY <1>3, <3>1 DEF Numbered
    <3>2. CASE i = Len(pipe) + 1
      <4>1. put[wrote + 1] = here + Len(pipe) + 1
        BY <2>2
      <4> HIDE DEF here
      <4> QED
        BY <1>3, <3>0, <3>2, <4>1 DEF here
    <3> QED
      BY <1>3, <3>1, <3>2
  <2>4. ASSUME NEW i \in (wrote' + 1)..Len(put')
        PROVE  put'[i] = Len(got') + (egptr' - gptr') + Len(pipe') + (i - wrote')
    <3>1. i \in (wrote + 1)..Len(put)
      BY <1>1 DEF StreamTypeOK, Chars
    <3>2. put[i] = Len(got) + (egptr - gptr) + Len(pipe) + (i - wrote)
      BY <3>1 DEF Numbered
    <3> QED
      BY <1>1, <1>3, <3>1, <3>2 DEF StreamTypeOK, Chars
  <2>5. count' = Len(got') + (egptr' - gptr') + Len(pipe') + (Len(put') - wrote')
    BY <1>1, <1>3 DEF StreamTypeOK, Numbered, Chars
  <2> QED
    BY <1>1, <2>1, <2>3, <2>4, <2>5 DEF Numbered
<1>7. Phases'
  BY <1>1 DEF Phases, Writing
<1> QED
  BY <1>4, <1>5, <1>6, <1>7

\* What is left of the put area moves to its front.
LEMMA WrittenInv ==
  ASSUME Sizes, Uninterrupted, StreamInv, WriteReturns
  PROVE  StreamInv'
<1> USE DEF StreamInv
<1>1. Writing /\ Written /\ (wrote = Len(put) \/ (wrote > 0 /\ (writer # "close" \/ reader = "gone")))
  BY DEF WriteReturns, Uninterrupted
<1>2. /\ wrote' = 0 /\ UNCHANGED <<pipe, area, gptr, egptr, reader, got>>
      /\ writer' = IF writer = "close" THEN "closed" ELSE "open"
  BY <1>1 DEF Written, readerVars
<1> DEFINE n == Len(put)
<1>3. n \in Nat /\ wrote \in 0..n
  BY DEF StreamTypeOK, AreasFit, Chars
<1>4. Rest \in Chars /\ Len(Rest) = n - wrote /\ \A i \in 1..(n - wrote) : Rest[i] = put[wrote + i]
  BY <1>3, Suffix DEF Rest, StreamTypeOK
<1> DEFINE before == Len(got) + (egptr - gptr) + Len(pipe)
<1>5. before \in Nat /\ count = before + (n - wrote)
  BY DEF StreamTypeOK, AreasFit, Numbered, Chars
<1>6. \A i \in 1..(n - wrote) : Rest[i] = before + i
  BY <1>3, <1>4 DEF Numbered
<1>7. \/ put' = Rest /\ count' = count
      \/ writer = "put" /\ put' = Append(Rest, count + 1) /\ count' = count + 1
  BY <1>1 DEF Written
<1>7a. n - wrote \in Nat /\ count + 1 \in Nat
  BY <1>3 DEF StreamTypeOK
<1>7b. /\ Append(Rest, count + 1) \in Chars
       /\ Len(Append(Rest, count + 1)) = (n - wrote) + 1
       /\ Append(Rest, count + 1)[(n - wrote) + 1] = count + 1
       /\ \A i \in 1..(n - wrote) : Append(Rest, count + 1)[i] = Rest[i]
  <2>1. Rest \in Chars /\ count + 1 \in Nat /\ Len(Rest) = n - wrote
    BY <1>4, <1>7a
  <2>2. /\ Append(Rest, count + 1) \in Chars
        /\ Len(Append(Rest, count + 1)) = Len(Rest) + 1
        /\ Append(Rest, count + 1)[Len(Rest) + 1] = count + 1
        /\ \A i \in 1..Len(Rest) : Append(Rest, count + 1)[i] = Rest[i]
    BY <2>1, Appended
  <2> HIDE DEF n
  <2> QED
    BY ONLY <2>1, <2>2, Zenon
<1> DEFINE k == n - wrote
<1> HIDE DEF before, k
<1>8. put' \in Chars /\ count' \in Nat /\ count' = before + Len(put')
  <2>1. k \in Nat /\ Len(Rest) = k /\ Len(Append(Rest, count + 1)) = k + 1 /\ count = before + k
    BY <1>4, <1>5, <1>7a, <1>7b DEF k
  <2>2. count + 1 = before + (k + 1)
    BY <1>5, <2>1
  <2> QED
    <3>1. CASE put' = Rest /\ count' = count
      BY <1>4, <1>5, <2>1, <3>1
    <3>2. CASE put' = Append(Rest, count + 1) /\ count' = count + 1
      BY <1>7a, <1>7b, <2>1, <2>2, <3>2
    <3> QED
      BY <1>7, <3>1, <3>2
<1>9. \A i \in 1..Len(put') : put'[i] = before + i
  <2>1. CASE put' = Rest
    BY <1>4, <1>6, <2>1
  <2>2. CASE put' = Append(Rest, count + 1)
    <3>1. k \in Nat /\ Len(put') = k + 1 /\ put'[k + 1] = count + 1 /\ count = before + k
      BY <1>5, <1>7a, <1>7b, <2>2 DEF k
    <3>2. \A i \in 1..k : put'[i] = before + i
      BY <1>6, <1>7b, <2>2 DEF k
    <3>3. \A i \in 1..(k + 1) : i \in 1..k \/ i = k + 1
      BY <3>1
    <3>4. count + 1 = before + (k + 1)
      BY <1>5, <3>1
    <3> QED
      BY <3>1, <3>2, <3>3, <3>4
  <2> QED
    BY <1>7, <2>1, <2>2
<1>10. StreamTypeOK'
  BY <1>2, <1>8 DEF StreamTypeOK
<1>11. AreasFit'
  <2>1. Len(put') <= WriteSize
    <3>1. CASE put' = Rest
      BY <1>3, <1>4, <3>1 DEF AreasFit, Sizes
    <3>2. CASE writer = "put" /\ put' = Append(Rest, count + 1)
      <4>1. n = WriteSize /\ wrote >= 1
        BY <1>1, <1>3, <3>2 DEF Phases, Sizes
      <4> QED
        BY <1>3, <1>4, <3>2, <4>1 DEF Chars, Sizes
    <3> QED
      BY <1>7, <3>1, <3>2
  <2> QED
    BY <1>2, <1>8, <2>1 DEF AreasFit, Chars, Back
<1>12. Numbered'
  <2>1. /\ \A i \in 1..Len(got') : got'[i] = i
        /\ \A x \in gptr'..(egptr' - 1) : area'[x] = Len(got') + 1 + (x - gptr')
        /\ \A i \in 1..Len(pipe') : pipe'[i] = Len(got') + (egptr' - gptr') + i
    BY <1>2 DEF Numbered
  <2>2. Len(put') \in Nat
    BY <1>8 DEF Chars
  <2>3. \A i \in (wrote' + 1)..Len(put') : put'[i] = before + (i - wrote')
    BY <1>2, <1>9, <2>2
  <2>4. count' = before + (Len(put') - wrote')
    BY <1>2, <1>8, <2>2
  <2>5. before = Len(got') + (egptr' - gptr') + Len(pipe')
    BY <1>2 DEF before
  <2> QED
    BY <2>1, <2>3, <2>4, <2>5 DEF Numbered
<1>13. Phases'
  <2>1. ASSUME writer' = "closed", reader' # "gone" PROVE put' = <<>>
    <3>1. writer = "close" /\ wrote = n
      BY <1>1, <1>2, <2>1 DEF Writing
    <3>2. put' = Rest /\ Len(Rest) = 0
      BY <1>3, <1>4, <1>7, <3>1
    <3> QED
      BY <1>4, <3>2, EmptySeq DEF Chars
  <2> QED
    BY <1>2, <2>1 DEF Phases, Writing
<1> QED
  BY <1>10, <1>11, <1>12, <1>13

\* A character moves from the get area to the program, or the get area starts again.
LEMMA GetInv == Sizes /\ StreamInv /\ Get => StreamInv'
<1> SUFFICES ASSUME Sizes, StreamInv, Get PROVE StreamInv'
  OBVIOUS
<1> USE DEF StreamInv
<1>1. UNCHANGED <<put, count, writer, wrote, pipe, area>> /\ reader = "open"
  BY DEF Get, writerVars
<1>2. CASE gptr < egptr
  <2>1. got' = Append(got, area[gptr]) /\ gptr' = gptr + 1 /\ UNCHANGED <<reader, egptr>>
    BY <1>2 DEF Get
  <2>2. area[gptr] = Len(got) + 1 /\ area[gptr] \in Nat
    BY <1>2 DEF StreamTypeOK, Numbered, AreasFit, Back, Sizes, Chars
  <2>3. /\ got' \in Chars /\ Len(got') = Len(got) + 1 /\ got'[Len(got) + 1] = Len(got) + 1
        /\ \A i \in 1..Len(got) : got'[i] = got[i]
    BY <2>1, <2>2 DEF StreamTypeOK, Chars
  <2>4. StreamTypeOK'
    BY <1>1, <2>1, <2>3 DEF StreamTypeOK
  <2>5. AreasFit'
    BY <1>1, <1>2, <2>1 DEF StreamTypeOK, AreasFit, Back
  <2>6. Numbered'
    <3> DEFINE here == Len(got) + (egptr - gptr)
    <3>1. Len(got) \in Nat /\ here \in Nat /\ Len(got') + (egptr' - gptr') = here
      BY <2>1, <2>3 DEF StreamTypeOK, AreasFit, Chars
    <3>2. \A i \in 1..Len(got') : got'[i] = i
      BY <2>3, <3>1 DEF Numbered
    <3>3. \A x \in gptr'..(egptr' - 1) : area'[x] = Len(got') + 1 + (x - gptr')
      BY <1>1, <2>1, <2>3, <3>1 DEF StreamTypeOK, Numbered
    <3>4. /\ \A i \in 1..Len(pipe) : pipe[i] = here + i
          /\ \A i \in (wrote + 1)..Len(put) : put[i] = here + Len(pipe) + (i - wrote)
          /\ count = here + Len(pipe) + (Len(put) - wrote)
      BY DEF Numbered
    <3> HIDE DEF here
    <3> QED
      BY <1>1, <3>1, <3>2, <3>3, <3>4 DEF Numbered
  <2>7. Phases'
    BY <1>1, <2>1 DEF Phases, Writing
  <2> QED
    BY <2>4, <2>5, <2>6, <2>7
<1>3. CASE ~(gptr < egptr)
  <2>1. /\ reader' = "underflow" /\ UNCHANGED got
        /\ gptr' = (IF egptr = Back THEN NextGet ELSE gptr)
        /\ egptr' = (IF egptr = Back THEN NextGet ELSE egptr)
    BY <1>3 DEF Get
  <2>2. gptr = egptr /\ gptr' = egptr' /\ egptr' \in Nat /\ egptr' <= Back /\ egptr \in Nat
    BY <1>3, <2>1 DEF StreamTypeOK, AreasFit, Sizes, Back
  <2>3. StreamTypeOK' /\ AreasFit'
    BY <1>1, <2>1, <2>2 DEF StreamTypeOK, AreasFit, Back
  <2>4. Numbered'
    <3>0. \A k \in Nat : k - k = 0 /\ \A x \in k..(k - 1) : FALSE
      OBVIOUS
    <3>1. egptr - gptr = 0 /\ egptr' - gptr' = 0
      BY <2>2, <3>0
    <3>2. ASSUME NEW x \in gptr'..(egptr' - 1) PROVE FALSE
      BY <2>2, <3>0, <3>2
    <3> QED
      BY <1>1, <2>1, <3>1, <3>2 DEF Numbered
  <2>5. Phases'
    BY <1>1, <2>1, <2>2 DEF Phases, Writing
  <2> QED
    BY <2>3, <2>4, <2>5
<1> QED
  BY <1>2, <1>3

\* Characters move from the pipe to the get area.
LEMMA ReadReturnsInv == Sizes /\ StreamInv /\ ReadReturns => StreamInv'
<1> SUFFICES ASSUME Sizes, StreamInv, ReadReturns PROVE StreamInv'
  OBVIOUS
<1> USE DEF StreamInv
<1> DEFINE room == Back - egptr
           n    == IF Len(pipe) < room THEN Len(pipe) ELSE room
           m    == Len(pipe)
<1>1. /\ area' = [x \in 0..Back |-> IF x \in egptr..(egptr + n - 1) THEN pipe[x - egptr + 1] ELSE area[x]]
      /\ egptr' = egptr + n /\ pipe' = SubSeq(pipe, n + 1, Len(pipe))
      /\ reader = "underflow" /\ reader' = "open"
      /\ UNCHANGED <<put, count, writer, wrote, gptr, got>>
  BY DEF ReadReturns, writerVars
<1>2. Back \in Nat /\ m \in Nat /\ n \in 0..m /\ egptr + n <= Back /\ gptr = egptr
  BY <1>1 DEF StreamTypeOK, AreasFit, Phases, Sizes, Back, Chars
<1> DEFINE here == Len(got)
<1>3. /\ here \in Nat /\ egptr \in Nat /\ Len(put) \in Nat /\ wrote \in Nat
      /\ \A i \in 1..m : pipe[i] = here + i
      /\ \A i \in (wrote + 1)..Len(put) : put[i] = here + m + (i - wrote)
      /\ count = here + m + (Len(put) - wrote)
  <2>1. egptr - gptr = 0 /\ here \in Nat /\ here + 0 = here /\ egptr \in Nat /\ wrote \in Nat /\ Len(put) \in Nat
    BY <1>2 DEF StreamTypeOK, Chars
  <2> QED
    BY <2>1 DEF Numbered
<1> HIDE DEF n, room
<1>4. pipe' \in Chars /\ Len(pipe') = m - n /\ \A i \in 1..(m - n) : pipe'[i] = pipe[n + i]
  BY <1>1, <1>2, Suffix DEF StreamTypeOK
<1>5. area' \in [0..Back -> Nat]
  <2>1. ASSUME NEW x \in 0..Back, x \in egptr..(egptr + n - 1) PROVE pipe[x - egptr + 1] \in Nat
    <3>1. x - egptr + 1 \in 1..m
      BY <1>2, <1>3, <2>1
    <3> QED
      BY <3>1, <1>3
  <2> QED
    BY <1>1, <2>1 DEF StreamTypeOK
<1>6. StreamTypeOK'
  BY <1>1, <1>2, <1>3, <1>4, <1>5 DEF StreamTypeOK, Back
<1>7. AreasFit'
  BY <1>1, <1>2, <1>3 DEF AreasFit, Back
<1>8. Numbered'
  <2>1. \A i \in 1..Len(got') : got'[i] = i
    BY <1>1 DEF Numbered
  <2>2. ASSUME NEW x \in gptr'..(egptr' - 1) PROVE area'[x] = Len(got') + 1 + (x - gptr')
    <3>1. x \in egptr..(egptr + n - 1) /\ x \in 0..Back /\ x - egptr + 1 \in 1..m
      BY <1>1, <1>2, <1>3
    <3>2. area'[x] = pipe[x - egptr + 1]
      BY <1>1, <3>1
    <3>3. pipe[x - egptr + 1] = here + (x - egptr + 1)
      BY <1>3, <3>1
    <3> QED
      BY <1>1, <1>2, <1>3, <3>1, <3>2, <3>3
  <2>3. egptr' - gptr' = n
    BY <1>1, <1>2, <1>3
  <2>4. \A i \in 1..(m - n) : pipe'[i] = here + n + i
    <3> SUFFICES ASSUME NEW i \in 1..(m - n) PROVE pipe'[i] = here + n + i
      OBVIOUS
    <3>1. n + i \in 1..m
      BY <1>2
    <3>2. pipe[n + i] = here + (n + i)
      BY <1>3, <3>1
    <3> QED
      BY <1>2, <1>3, <1>4, <3>2
  <2>5. here + n + (m - n) = here + m
    BY <1>2, <1>3
  <2> QED
    <3>1. /\ Len(got') = here /\ Len(pipe') = m - n /\ put' = put /\ wrote' = wrote /\ count' = count
      BY <1>1, <1>4
    <3>2. \A i \in 1..Len(pipe') : pipe'[i] = Len(got') + (egptr' - gptr') + i
      BY <2>3, <2>4, <3>1
    <3>3. Len(got') + (egptr' - gptr') + Len(pipe') = here + m
      BY <2>3, <2>5, <3>1
    <3>4. \A i \in (wrote' + 1)..Len(put') :
            put'[i] = Len(got') + (egptr' - gptr') + Len(pipe') + (i - wrote')
      BY <1>3, <3>1, <3>3
    <3>5. count' = Len(got') + (egptr' - gptr') + Len(pipe') + (Len(put') - wrote')
      BY <1>3, <3>1, <3>3
    <3> QED
      BY <2>1, <2>2, <3>2, <3>4, <3>5 DEF Numbered
<1>9. Phases'
  BY <1>1 DEF Phases, Writing
<1> QED
  BY <1>6, <1>7, <1>8, <1>9

-------------------------------------------------------------------------------
(***************************************************************************)
(* Every reachable state satisfies the invariant.  The areas are never     *)
(* exceeded: no character is put behind _write or read from behind what    *)
(* underflow has read (basic_pipebuf: overflow, underflow).                *)
(***************************************************************************)
LEMMA StepInv ==
  ASSUME Sizes, Uninterrupted, StreamInv, [StreamNext]_streamVars
  PROVE  StreamInv'
<1>1. CASE Put
  BY <1>1, PutInv
<1>2. CASE Flush
  BY <1>2, FlushInv
<1>3. CASE CloseStream
  BY <1>3, CloseInv
<1>4. CASE WriterStep
  BY <1>4, TransferInv, WrittenInv, WriteFailsInv DEF WriterStep
<1>5. CASE ReaderStep
  BY <1>5, GetInv, ReadReturnsInv, EndOfFileInv DEF ReaderStep
<1>6. CASE ReaderCloses
  BY <1>6, ReaderClosesInv
<1>7. CASE UNCHANGED streamVars
  BY <1>7 DEF streamVars, writerVars, readerVars, StreamInv, StreamTypeOK, AreasFit, Numbered, Phases, Writing, Back
<1> QED
  BY <1>1, <1>2, <1>3, <1>4, <1>5, <1>6, <1>7 DEF StreamNext

(***************************************************************************)
(* The areas fit: no more is put than the put area holds and no more       *)
(* written than was put, and gptr and egptr stay in order inside the get   *)
(* area, for any sizes (basic_pipebuf: overflow, sync, underflow).         *)
(***************************************************************************)
THEOREM AreasFitHolds ==
  ASSUME Sizes, Uninterrupted
  PROVE  StreamSpec => []AreasFit
<1>1. StreamInit => StreamInv
  BY StreamInitInv
<1>2. StreamInv /\ [StreamNext]_streamVars => StreamInv'
  BY StepInv
<1>3. StreamInv => AreasFit
  BY DEF StreamInv
<1> QED
  BY <1>1, <1>2, <1>3, PTL DEF StreamSpec

-------------------------------------------------------------------------------
(***************************************************************************)
(* The refinement, step by step.  Only five steps are seen from outside.   *)
(***************************************************************************)
\* The characters the stream has accepted.
Accepted == [x \in 1..count |-> x]

LEMMA AcceptedIsSeq ==
  ASSUME NEW n \in Nat
  PROVE  /\ [x \in 1..n |-> x] \in Chars /\ Len([x \in 1..n |-> x]) = n
         /\ [x \in 1..(n + 1) |-> x] = Append([x \in 1..n |-> x], n + 1)
<1> DEFINE s == [x \in 1..n |-> x]
           t == [x \in 1..(n + 1) |-> x]
<1>1. s \in Chars
  BY IsASeq DEF Chars
<1>2. DOMAIN s = 1..n
  OBVIOUS
<1>3. Len(s) = n
  BY <1>1, <1>2, LenProperties DEF Chars
<1>4. t \in Chars
  BY IsASeq DEF Chars
<1>5. Len(t) = n + 1
  <2>1. DOMAIN t = 1..(n + 1)
    OBVIOUS
  <2> QED
    BY <1>4, <2>1, LenProperties DEF Chars
<1>6. /\ Append(s, n + 1) \in Chars /\ Len(Append(s, n + 1)) = n + 1
      /\ Append(s, n + 1)[n + 1] = n + 1
      /\ \A i \in 1..n : Append(s, n + 1)[i] = s[i]
  BY <1>1, <1>3, Appended
<1>7. \A i \in 1..(n + 1) : t[i] = Append(s, n + 1)[i]
  <2> SUFFICES ASSUME NEW i \in 1..(n + 1) PROVE t[i] = Append(s, n + 1)[i]
    OBVIOUS
  <2>1. t[i] = i /\ (i \in 1..n \/ i = n + 1)
    OBVIOUS
  <2>2. \A j \in 1..n : s[j] = j
    OBVIOUS
  <2> HIDE DEF s, t
  <2> QED
    BY <1>6, <2>1, <2>2
<1> HIDE DEF s, t
<1>8. t = Append(s, n + 1)
  BY <1>4, <1>5, <1>6, <1>7, SeqEqual DEF Chars
<1> QED
  BY <1>1, <1>3, <1>8 DEF s, t

LEMMA RefineInit == StreamInit => Channel!Init
<1> SUFFICES ASSUME StreamInit PROVE Channel!Init
  OBVIOUS
<1>1. Accepted \in Chars /\ Len(Accepted) = 0
  BY AcceptedIsSeq DEF StreamInit, Accepted
<1>2. Accepted = <<>>
  BY <1>1, EmptySeq DEF Chars
<1> QED
  BY <1>2 DEF StreamInit, Channel!Init, Accepted


LEMMA RefineStep ==
  ASSUME Sizes, Uninterrupted, StreamInv, [StreamNext]_streamVars
  PROVE  [Channel!Next]_(Channel!channelVars)
<1> DEFINE Stutter == UNCHANGED <<count, got, writer, reader>>
           Quiet   == /\ UNCHANGED <<count, got>>
                      /\ (writer' = "closed") = (writer = "closed")
                      /\ (reader' = "gone") = (reader = "gone")
                      /\ (reader' = "end") = (reader = "end")
<1>1. ASSUME Quiet PROVE UNCHANGED Channel!channelVars
  BY <1>1 DEF Channel!channelVars
<1>2. ASSUME count < MaxPut, count' = count + 1, writer \notin {"closed"}, writer' # "closed",
             UNCHANGED <<got, reader>>
      PROVE  Channel!Write
  <2>1. /\ Accepted \in Chars /\ Len(Accepted) = count
        /\ [x \in 1..(count + 1) |-> x] = Append(Accepted, count + 1)
    BY AcceptedIsSeq DEF Accepted, StreamInv, StreamTypeOK
  <2>2. Accepted' = Append(Accepted, Len(Accepted) + 1)
    BY <1>2, <2>1 DEF Accepted
  <2>3. /\ ~(writer = "closed") /\ Len(Accepted) < MaxPut
        /\ got' = got /\ (writer' = "closed") = (writer = "closed")
        /\ (reader' = "gone") = (reader = "gone") /\ (reader' = "end") = (reader = "end")
    BY <1>2, <2>1
  <2> QED
    BY <2>2, <2>3 DEF Channel!Write, Accepted
<1>3. CASE Put
  <2>1. \/ count' = count + 1 /\ writer' = writer
        \/ writer' = "put" /\ count' = count
    BY <1>3 DEF Put
  <2>2. count < MaxPut /\ writer = "open" /\ UNCHANGED <<got, reader>>
    BY <1>3 DEF Put, readerVars
  <2> QED
    BY <1>1, <1>2, <2>1, <2>2 DEF Channel!Next
<1>4. CASE Flush
  BY <1>1, <1>4 DEF Flush, readerVars
<1>5. ASSUME writer' = "closed", UNCHANGED <<count, got, reader>> PROVE Channel!Close
  BY <1>5 DEF Channel!Close
<1>6. CASE CloseStream
  <2>1. (writer' = "closed" \/ writer' = "close") /\ writer = "open" /\ UNCHANGED <<count, got, reader>>
    BY <1>6 DEF CloseStream, readerVars
  <2> QED
    BY <1>1, <1>5, <2>1 DEF Channel!Next
<1>7. CASE Transfer
  BY <1>1, <1>7 DEF Transfer, readerVars
<1>8. CASE WriteReturns
  <2>1. /\ UNCHANGED <<got, reader>>
        /\ count' = IF writer = "put" THEN count + 1 ELSE count
        /\ writer' = IF writer = "close" THEN "closed" ELSE "open"
        /\ writer \in {"put", "flush", "close"}
    BY <1>8 DEF WriteReturns, Written, Writing, readerVars
  <2>2. CASE writer = "put"
    <3>1. count < MaxPut
      BY <2>2 DEF StreamInv, Phases
    <3> QED
      BY <1>2, <2>1, <2>2, <3>1 DEF Channel!Next
  <2>3. CASE writer = "flush"
    BY <1>1, <2>1, <2>3
  <2>4. CASE writer = "close"
    BY <1>5, <2>1, <2>4 DEF Channel!Next
  <2> QED
    BY <2>1, <2>2, <2>3, <2>4
<1>9. CASE WriteFails
  <2>1. /\ UNCHANGED <<count, got, reader>> /\ writer \in {"put", "flush", "close"}
        /\ writer' = IF writer = "close" THEN "closed" ELSE "open"
    BY <1>9 DEF WriteFails, Writing, readerVars
  <2> QED
    BY <1>1, <1>5, <2>1 DEF Channel!Next
<1>10. CASE Get
  <2>1. UNCHANGED <<count, writer>> /\ reader = "open"
    BY <1>10 DEF Get, writerVars
  <2>2. CASE gptr < egptr
    <3>1. got' = Append(got, area[gptr]) /\ reader' = reader
      BY <1>10, <2>2 DEF Get
    <3>2. area[gptr] = Len(got) + 1
      BY <2>2 DEF StreamInv, StreamTypeOK, Numbered, AreasFit, Chars
    <3>3. Len(got) \in Nat /\ Len(got) < count
      BY <2>2 DEF StreamInv, StreamTypeOK, Numbered, AreasFit, Chars
    <3>4. Accepted[Len(got) + 1] = Len(got) + 1 /\ Len(Accepted) = count
      BY <3>3, AcceptedIsSeq DEF Accepted, StreamInv, StreamTypeOK
    <3>5. /\ ~(reader = "gone") /\ Len(got) < Len(Accepted)
          /\ got' = Append(got, Accepted[Len(got) + 1])
          /\ Accepted' = Accepted /\ (writer' = "closed") = (writer = "closed")
          /\ (reader' = "gone") = (reader = "gone") /\ (reader' = "end") = (reader = "end")
      BY <2>1, <3>1, <3>2, <3>3, <3>4 DEF Accepted
    <3>6. Channel!Read
      BY <3>5 DEF Channel!Read, Accepted
    <3> QED
      BY <3>6 DEF Channel!Next
  <2>3. CASE ~(gptr < egptr)
    <3>1. UNCHANGED got /\ reader' = "underflow"
      BY <1>10, <2>3 DEF Get
    <3> QED
      BY <1>1, <2>1, <3>1
  <2> QED
    BY <2>2, <2>3
<1>11. CASE ReadReturns
  <2>1. UNCHANGED <<count, got, writer>> /\ reader = "underflow" /\ reader' = "open"
    BY <1>11 DEF ReadReturns, writerVars
  <2> QED
    BY <1>1, <2>1
<1>12. CASE EndOfFile
  <2>1. /\ UNCHANGED <<count, got, writer>> /\ reader = "underflow" /\ reader' = "end"
        /\ pipe = <<>> /\ writer = "closed"
    BY <1>12 DEF EndOfFile, writerVars
  <2>2. got = Accepted
    <3>1. put = <<>> /\ wrote = 0 /\ gptr = egptr
      BY <2>1 DEF StreamInv, Phases, Writing
    <3>2. Len(got) \in Nat /\ egptr - gptr = 0 /\ Len(pipe) = 0 /\ Len(put) - wrote = 0
      BY <2>1, <3>1 DEF StreamInv, StreamTypeOK, Chars
    <3>3. count = Len(got)
      BY <3>2 DEF StreamInv, Numbered
    <3>4. Accepted \in Chars /\ Len(Accepted) = Len(got)
      BY <3>2, <3>3, AcceptedIsSeq DEF Accepted
    <3>5. \A i \in 1..Len(got) : got[i] = Accepted[i]
      BY <3>3 DEF Accepted, StreamInv, Numbered
    <3> QED
      BY <3>4, <3>5, SeqEqual DEF StreamInv, StreamTypeOK, Chars
  <2>3. Channel!End
    BY <2>1, <2>2 DEF Channel!End, Accepted
  <2> QED
    BY <2>3 DEF Channel!Next
<1>13. CASE ReaderCloses
  <2>1. UNCHANGED <<count, got, writer>> /\ reader = "open" /\ reader' = "gone"
    BY <1>13 DEF ReaderCloses, writerVars
  <2>2. Channel!Break
    BY <2>1 DEF Channel!Break
  <2> QED
    BY <2>2 DEF Channel!Next
<1>14. CASE UNCHANGED streamVars
  BY <1>1, <1>14 DEF streamVars, writerVars, readerVars
<1> QED
  BY <1>3, <1>4, <1>6, <1>7, <1>8, <1>9, <1>10, <1>11, <1>12, <1>13, <1>14
     DEF StreamNext, WriterStep, ReaderStep

(***************************************************************************)
(* IsChannel: the reader gets what the writer put, in order, once, and     *)
(* nothing is missing when it sees the end, whatever the sizes of _write   *)
(* and _read, the capacity of the pipe and the interleaving (basic_pipebuf:*)
(* overflow, sync, close, underflow), as long as no signal interrupts the  *)
(* write(2) of close.                                                      *)
(***************************************************************************)
THEOREM IsChannelHolds ==
  ASSUME Sizes, Uninterrupted
  PROVE  StreamSpec => IsChannel
<1>1. StreamInit => StreamInv
  BY StreamInitInv
<1>2. StreamInv /\ [StreamNext]_streamVars => StreamInv'
  BY StepInv
<1>3. StreamInit => Channel!Init
  BY RefineInit
<1>4. StreamInv /\ [StreamNext]_streamVars => [Channel!Next]_(Channel!channelVars)
  BY RefineStep
<1> QED
  BY <1>1, <1>2, <1>3, <1>4, PTL DEF StreamSpec, IsChannel, Channel!Spec

===============================================================================
