---------------------------- MODULE LauncherProofs -----------------------------
(***************************************************************************)
(* The launchers' promises, for any number of launches, launchers, files   *)
(* and descriptors; those of the launchers and processes of Windows, for    *)
(* any number of launches, waits, calls, files and handles; and the         *)
(* invariants that both systems share.                                     *)
(***************************************************************************)
EXTENDS MCLauncher, FiniteSetTheorems, WellFoundedInduction, SequenceTheorems, TLAPS

-------------------------------------------------------------------------------
(***************************************************************************)
(* The lowest free descriptors.                                            *)
(***************************************************************************)
LEMMA MinIsMember ==
  ASSUME NEW S, S \subseteq Nat, S # {}
  PROVE  Min(S) \in S
<1>1. PICK x \in S : \A y \in S : ~(<<y, x>> \in OpToRel(<, Nat))
  BY NatLessThanWellFounded, WFMin
<1>2. \A y \in S : ~(y < x)
  BY <1>1 DEF OpToRel
<1>3. \A y \in S : x =< y
  BY <1>2
<1> QED
  BY <1>3 DEF Min

LEMMA TwoFree ==
  ASSUME Cardinality(Free) >= 2
  PROVE  /\ Min(Free) \in Free
         /\ Min(Free \ {Min(Free)}) \in Free \ {Min(Free)}
<1>1. Free \subseteq Nat /\ IsFiniteSet(Free)
  <2>1. IsFiniteSet(Fds) /\ Fds \subseteq Nat
    BY LauncherAssumption, FS_Interval DEF Fds
  <2> QED
    BY <2>1, FS_Subset DEF Free
<1>2. Free # {}
  BY FS_EmptySet
<1>3. Min(Free) \in Free
  BY <1>1, <1>2, MinIsMember
<1>4. Free \ {Min(Free)} # {}
  <2>1. ASSUME Free = {Min(Free)} PROVE FALSE
    <3>1. Cardinality({Min(Free)}) = 1
      BY FS_Singleton
    <3>2. Cardinality(Free) = 1
      BY <2>1, <3>1, Zenon
    <3> QED
      BY <3>2
  <2> QED
    BY <1>3, <2>1
<1> QED
  BY <1>1, <1>3, <1>4, MinIsMember

-------------------------------------------------------------------------------
(***************************************************************************)
(* The first invariant.  Stage: what the place of its thread says of a     *)
(* launch and its child.  GuardStage: which ends its guards hold.  Held    *)
(* Ends and OwnedEnds: what the guards hold is open in the parent, and an  *)
(* end open there is held by its guard, or is the one that was given to    *)
(* the process of a pipe_fork_launcher.                                    *)
(***************************************************************************)
Before == {"idle", "pipe", "flag", "wait_pipe", "wait_flag", "setup", "fork"}
AllEnds(a) == IF Kind(a) = "pipe_fork" THEN Ends
              ELSE IF Kind(a) = "default" THEN {"er", "ew"} ELSE {}

Stage(a) ==
  /\ pc[a] \in Before => child[a] = "none" /\ result[a] = "none"
  /\ pc[a] \in {"pipe", "flag"} => ErrorPipe(a)
  /\ pc[a] \in {"wait_pipe", "wait_flag"} => Kind(a) = "pipe_fork"
  /\ pc[a] \in {"close", "read", "vfork", "reap"} =>
       child[a] \notin {"none", "reaped"} /\ result[a] = "none"
  /\ pc[a] \in {"close", "read"} => ErrorPipe(a)
  /\ pc[a] = "vfork" => Kind(a) = "vfork"
  /\ pc[a] = "reap" => Kind(a) \in {"default", "vfork"} /\ told[a] = "E"
  /\ pc[a] = "done" => result[a] # "none"
  /\ child[a] \in {"none", "setup", "exec"} => told[a] = "nothing"
  /\ result[a] = "error" => Kind(a) = "pipe_fork" \/ child[a] \in {"none", "reaped"}

GuardStage(a) ==
  /\ pc[a] \in {"idle", "pipe", "done"} => guard[a] = {}
  /\ pc[a] \in {"flag", "wait_pipe"} => guard[a] = {"er", "ew"}
  /\ pc[a] = "wait_flag" => guard[a] = Ends
  /\ pc[a] \in {"setup", "fork"} => guard[a] = AllEnds(a)
  /\ pc[a] \in Before => \A e \in Ends \ guard[a] : p[a][e] = -1

HeldEnds ==
  \A a \in Launches : \A e \in guard[a] :
    p[a][e] \in Fds /\ table[parent][p[a][e]] = <<a, e>>

OwnedEnds ==
  \A d \in Fds, a \in Launches, e \in Ends : table[parent][d] = <<a, e>> =>
    \/ e \in guard[a] /\ p[a][e] = d
    \/ result[a] = "ok" /\ Kind(a) = "pipe_fork" /\ e = "wr"

IInv == TypeOK /\ (\A a \in Launches : Stage(a) /\ GuardStage(a)) /\ HeldEnds /\ OwnedEnds

LEMMA KindType ==
  ASSUME TypeOK, NEW a \in Launches
  PROVE  Kind(a) \in {"default", "pipe_fork", "fork_and_forget", "vfork"} /\ Uses[a] \in Launchers
BY LauncherAssumption DEF TypeOK, Kind

LEMMA BindsType ==
  ASSUME TypeOK, NEW a \in Launches
  PROVE  binds[a] \in Seq([target : Fds, fd : Fds])
<1>1. <<>> \in Seq([target : Fds, fd : Fds])
  OBVIOUS
<1> QED
  BY <1>1, LauncherAssumption DEF TypeOK

\* A file of the program, an end of a pipe and a closed descriptor are different things.
LEMMA FilesApart ==
  /\ \A a \in Launches, e \in Ends : <<a, e>> \notin Users /\ <<a, e>> # Closed
  /\ Closed \notin Users
<1>1. \A a \in Launches, e \in Ends : <<a, e>> \notin Users
  BY LauncherAssumption DEF Users
<1> QED
  BY <1>1 DEF Users, Closed, Ends

-------------------------------------------------------------------------------
(***************************************************************************)
(* How the parts of a step keep the types.                                 *)
(***************************************************************************)
Tables == [Process -> [Fds -> File]]

\* What a thread of the parent does to its own place and to what it gives the caller.
LEMMA CloseEndsEffect ==
  ASSUME TypeOK, HeldEnds, NEW a \in Launches, NEW ends, ends \subseteq guard[a], CloseEnds(a, ends)
  PROVE  /\ table' \in Tables /\ cloexec' \in [Process -> SUBSET Fds]
         /\ \A q \in Process \ {parent} : table'[q] = table[q] /\ cloexec'[q] = cloexec[q]
         /\ \A d \in Fds :
              \/ /\ \E e \in ends : p[a][e] = d /\ table[parent][d] = <<a, e>>
                 /\ table'[parent][d] = Closed
              \/ /\ \A e \in ends : p[a][e] # d
                 /\ table'[parent][d] = table[parent][d]
                 /\ d \in cloexec'[parent] <=> d \in cloexec[parent]
<1> DEFINE closing == {p[a][e] : e \in ends}
<1>1. /\ table' = [table EXCEPT ![parent] = [d \in Fds |-> IF d \in closing THEN Closed ELSE table[parent][d]]]
      /\ cloexec' = [cloexec EXCEPT ![parent] = cloexec[parent] \ closing]
  BY DEF CloseEnds
<1>2. parent \in Process /\ table \in Tables /\ cloexec \in [Process -> SUBSET Fds] /\ Closed \in File
  BY DEF TypeOK, Tables, Process, File
<1>3. \A e \in ends : table[parent][p[a][e]] = <<a, e>>
  BY DEF HeldEnds
<1>4. \A d \in Fds : d \in closing <=> \E e \in ends : p[a][e] = d
  OBVIOUS
<1> HIDE DEF closing
<1>5. [d \in Fds |-> IF d \in closing THEN Closed ELSE table[parent][d]] \in [Fds -> File]
  BY <1>2 DEF Tables
<1>6. table' \in Tables /\ \A q \in Process \ {parent} : table'[q] = table[q]
  BY <1>1, <1>2, <1>5 DEF Tables
<1>7. \A d \in Fds : table'[parent][d] = IF d \in closing THEN Closed ELSE table[parent][d]
  BY <1>1, <1>2 DEF Tables
<1>8. /\ cloexec' \in [Process -> SUBSET Fds]
      /\ cloexec'[parent] = cloexec[parent] \ closing
      /\ \A q \in Process \ {parent} : cloexec'[q] = cloexec[q]
  BY <1>1, <1>2
<1> QED
  BY <1>3, <1>4, <1>6, <1>7, <1>8

LEMMA ReturnEffect ==
  ASSUME TypeOK, HeldEnds, NEW a \in Launches, NEW r \in {"ok", "error"}, NEW swapped,
         pc[a] # "done", Return(a, r, swapped)
  PROVE  /\ table' \in Tables /\ cloexec' \in [Process -> SUBSET Fds]
         /\ pc' \in [Launches -> {"idle", "pipe", "flag", "wait_pipe", "wait_flag", "setup",
                                  "fork", "close", "read", "vfork", "reap", "done"}]
         /\ guard' \in [Launches -> SUBSET Ends] /\ result' \in [Launches -> {"none", "ok", "error"}]
         /\ UNCHANGED <<kind, binds, p>>
         /\ pc'[a] = "done" /\ guard'[a] = {} /\ result'[a] = r
         /\ \A b \in Launches \ {a} : pc'[b] = pc[b] /\ guard'[b] = guard[b] /\ result'[b] = result[b]
         /\ CloseEnds(a, guard[a] \ swapped)
<1>1. CloseEnds(a, guard[a] \ swapped)
  BY DEF Return
<1>2. guard[a] \ swapped \subseteq guard[a]
  OBVIOUS
<1>3. table' \in Tables /\ cloexec' \in [Process -> SUBSET Fds]
  BY <1>1, <1>2, CloseEndsEffect
<1> QED
  BY <1>1, <1>3 DEF Return, Goto, TypeOK

\* A pipe is opened: two descriptors that were closed are its ends, and the guard has them.
Opens(a, re, we, next) ==
  \E r, w \in Fds :
    /\ r # w /\ table[parent][r] = Closed /\ table[parent][w] = Closed
    /\ table' \in Tables
    /\ table'[parent][r] = <<a, re>> /\ table'[parent][w] = <<a, we>>
    /\ \A d \in Fds \ {r, w} : table'[parent][d] = table[parent][d]
    /\ \A q \in Process \ {parent} : table'[q] = table[q]
    /\ p' \in [Launches -> [Ends -> Fds \cup {-1}]]
    /\ p'[a][re] = r /\ p'[a][we] = w /\ \A e \in Ends \ {re, we} : p'[a][e] = p[a][e]
    /\ guard' \in [Launches -> SUBSET Ends] /\ guard'[a] = guard[a] \cup {re, we}
    /\ pc' \in [Launches -> {"idle", "pipe", "flag", "wait_pipe", "wait_flag", "setup",
                             "fork", "close", "read", "vfork", "reap", "done"}]
    /\ pc'[a] = next
    /\ \A b \in Launches \ {a} : pc'[b] = pc[b] /\ guard'[b] = guard[b] /\ p'[b] = p[b]
    /\ UNCHANGED <<kind, binds, result, whitelist, cloexec, childVars>>

LEMMA OpenPipeEffect ==
  ASSUME TypeOK, NEW a \in Launches, NEW re \in Ends, NEW we \in Ends, re # we, NEW next,
         next \in {"flag", "wait_flag"}, pc[a] # "done",
         OpenPipe(a, re, we, next), ~Fail(a)
  PROVE  Opens(a, re, we, next)
<1> DEFINE r == Min(Free)
           w == Min(Free \ {r})
<1>1. /\ Cardinality(Free) >= 2
      /\ p' = [p EXCEPT ![a] = [p[a] EXCEPT ![re] = r, ![we] = w]]
      /\ table' = [table EXCEPT ![parent] = [table[parent] EXCEPT ![r] = <<a, re>>, ![w] = <<a, we>>]]
      /\ guard' = [guard EXCEPT ![a] = guard[a] \cup {re, we}]
      /\ pc' = [pc EXCEPT ![a] = next]
      /\ UNCHANGED <<kind, binds, result, whitelist, cloexec, childVars>>
  BY DEF OpenPipe, Goto
<1>2. r \in Free /\ w \in Free \ {r}
  BY <1>1, TwoFree
<1>3. /\ r \in Fds /\ w \in Fds /\ r # w /\ table[parent][r] = Closed /\ table[parent][w] = Closed
  BY <1>2 DEF Free, IsOpen
<1>4. <<a, re>> \in File /\ <<a, we>> \in File /\ parent \in Process
  BY DEF File, Pipes, Process
<1> HIDE DEF r, w
<1>5. /\ table' \in Tables /\ table'[parent] = [table[parent] EXCEPT ![r] = <<a, re>>, ![w] = <<a, we>>]
      /\ \A q \in Process \ {parent} : table'[q] = table[q]
  <2>1. table \in Tables /\ table[parent] \in [Fds -> File]
    BY <1>4 DEF TypeOK, Tables
  <2>2. [table[parent] EXCEPT ![r] = <<a, re>>, ![w] = <<a, we>>] \in [Fds -> File]
    BY <1>3, <1>4, <2>1
  <2> QED
    BY <1>1, <1>4, <2>1, <2>2 DEF Tables
<1>6. /\ table'[parent][r] = <<a, re>> /\ table'[parent][w] = <<a, we>>
      /\ \A d \in Fds \ {r, w} : table'[parent][d] = table[parent][d]
  BY <1>3, <1>4, <1>5 DEF TypeOK, Tables
<1>7. p'[a] \in [Ends -> Fds \cup {-1}] /\ p' \in [Launches -> [Ends -> Fds \cup {-1}]]
  BY <1>1, <1>3 DEF TypeOK
<1>8. /\ p'[a][re] = r /\ p'[a][we] = w /\ \A e \in Ends \ {re, we} : p'[a][e] = p[a][e]
      /\ \A b \in Launches \ {a} : p'[b] = p[b]
  BY <1>1, <1>3 DEF TypeOK
<1>9. /\ guard' \in [Launches -> SUBSET Ends] /\ guard'[a] = guard[a] \cup {re, we}
      /\ pc' \in [Launches -> {"idle", "pipe", "flag", "wait_pipe", "wait_flag", "setup",
                               "fork", "close", "read", "vfork", "reap", "done"}]
      /\ pc'[a] = next
      /\ \A b \in Launches \ {a} : pc'[b] = pc[b] /\ guard'[b] = guard[b]
  BY <1>1 DEF TypeOK
<1> USE <1>3 DEF Opens
<1> WITNESS r \in Fds, w \in Fds
<1> QED
  BY <1>1, <1>3, <1>5, <1>6, <1>7, <1>8, <1>9

-------------------------------------------------------------------------------
(***************************************************************************)
(* The steps of a child: they touch its own table and no one else's.       *)
(***************************************************************************)
ChildDoes(a) == Dup2(a) \/ ExecSetupFails(a) \/ CloseAll(a) \/ Exec(a) \/ ChildExits(a)

OnlyChild(a) ==
  /\ UNCHANGED parentVars
  /\ \A q \in Process \ {a} : table'[q] = table[q] /\ cloexec'[q] = cloexec[q]
  /\ \A b \in Launches \ {a} :
       child'[b] = child[b] /\ left'[b] = left[b] /\ kept'[b] = kept[b] /\ told'[b] = told[b]

LEMMA ChildFailsEffect ==
  ASSUME TypeOK, NEW a \in Launches, NEW e \in {"0", "E"}, ChildFails(a, e),
         UNCHANGED <<whitelist, parentVars>>
  PROVE  /\ TypeOK' /\ OnlyChild(a) /\ child'[a] = "exiting"
         /\ UNCHANGED <<table, cloexec, kept>>
<1>1. <<>> \in Seq([target : Fds, fd : Fds])
  OBVIOUS
<1>2. /\ child' \in [Launches -> {"none", "setup", "exec", "exiting", "zombie", "reaped",
                                  "running", "exited"}]
      /\ left' \in [Launches -> Seq([target : Fds, fd : Fds])]
      /\ told' \in [Launches -> {"nothing", "0", "E"}]
  BY <1>1 DEF TypeOK, ChildFails
<1>3. TypeOK'
  BY <1>2 DEF TypeOK, ChildFails, parentVars
<1>4. OnlyChild(a)
  BY DEF OnlyChild, ChildFails, TypeOK
<1> QED
  BY <1>3, <1>4 DEF ChildFails, TypeOK

LEMMA Dup2Effect ==
  ASSUME TypeOK, NEW a \in Launches, Dup2(a)
  PROVE  TypeOK' /\ OnlyChild(a)
<1> DEFINE b == Head(left[a])
<1>1. left[a] \in Seq([target : Fds, fd : Fds]) /\ left[a] # <<>>
  BY DEF Dup2, TypeOK
<1>2. b \in [target : Fds, fd : Fds] /\ Tail(left[a]) \in Seq([target : Fds, fd : Fds])
  BY <1>1, HeadTailProperties
<1>3. a \in Process /\ a # parent
  BY LauncherAssumption DEF Process
<1>4. CASE ChildFails(a, "E") /\ UNCHANGED <<whitelist, parentVars>>
  BY <1>4, ChildFailsEffect
<1>5. CASE /\ Duplicate(a, b) /\ left' = [left EXCEPT ![a] = Tail(left[a])]
           /\ UNCHANGED <<child, kept, told, whitelist, parentVars>>
  <2> HIDE DEF b
  <2>1. table[a][b.fd] \in File /\ b.target \in Fds
    BY <1>2, <1>3 DEF TypeOK
  <2>2. /\ table' = [table EXCEPT ![a] = [table[a] EXCEPT ![b.target] = table[a][b.fd]]]
        /\ cloexec' = [cloexec EXCEPT ![a] = IF b.fd = b.target THEN cloexec[a] ELSE cloexec[a] \ {b.target}]
    BY <1>5 DEF Duplicate
  <2>3. [table[a] EXCEPT ![b.target] = table[a][b.fd]] \in [Fds -> File]
    BY <1>3, <2>1 DEF TypeOK
  <2>4. table' \in [Process -> [Fds -> File]] /\ cloexec' \in [Process -> SUBSET Fds]
    BY <1>3, <2>2, <2>3 DEF TypeOK
  <2>5. left' \in [Launches -> Seq([target : Fds, fd : Fds])]
    BY <1>2, <1>5 DEF TypeOK
  <2>6. TypeOK'
    BY <1>5, <2>4, <2>5 DEF TypeOK, parentVars
  <2>7. OnlyChild(a)
    BY <1>5, <2>2 DEF OnlyChild, TypeOK
  <2> QED
    BY <2>6, <2>7
<1> QED
  BY <1>4, <1>5 DEF Dup2

LEMMA ExecSetupFailsEffect ==
  ASSUME TypeOK, NEW a \in Launches, ExecSetupFails(a)
  PROVE  TypeOK' /\ OnlyChild(a) /\ child'[a] = "exiting"
<1>1. PICK e \in Errnos : ChildFails(a, e) /\ UNCHANGED <<whitelist, parentVars>>
  BY DEF ExecSetupFails
<1>2. e \in {"0", "E"}
  BY LauncherAssumption
<1> QED
  BY <1>1, <1>2, ChildFailsEffect

LEMMA CloseAllEffect ==
  ASSUME TypeOK, NEW a \in Launches, CloseAll(a)
  PROVE  TypeOK' /\ OnlyChild(a) /\ child'[a] = "exec"
<1>1. a \in Process /\ a # parent /\ Closed \in File
  BY LauncherAssumption DEF Process, File
<1>2. table' = [table EXCEPT ![a] = [d \in Fds |-> IF d \in kept[a] THEN table[a][d] ELSE Closed]]
  BY DEF CloseAll
<1>3. [d \in Fds |-> IF d \in kept[a] THEN table[a][d] ELSE Closed] \in [Fds -> File]
  BY <1>1 DEF TypeOK
<1>4. table' \in [Process -> [Fds -> File]]
  BY <1>1, <1>2, <1>3 DEF TypeOK
<1>5. whitelist' \in [Launchers -> SUBSET Fds]
  BY LauncherAssumption DEF CloseAll, TypeOK
<1>6. /\ child' = [child EXCEPT ![a] = "exec"]
      /\ UNCHANGED <<cloexec, left, kept, told, parentVars>>
  BY DEF CloseAll
<1>7. child' \in [Launches -> {"none", "setup", "exec", "exiting", "zombie", "reaped",
                               "running", "exited"}]
  BY <1>6 DEF TypeOK
<1>8. TypeOK'
  BY <1>4, <1>5, <1>6, <1>7 DEF TypeOK, parentVars
<1>9. OnlyChild(a) /\ child'[a] = "exec"
  BY <1>2, <1>6 DEF OnlyChild, TypeOK
<1> QED
  BY <1>8, <1>9

LEMMA ExecEffect ==
  ASSUME TypeOK, NEW a \in Launches, Exec(a)
  PROVE  TypeOK' /\ OnlyChild(a) /\ child'[a] \in {"running", "exiting"}
<1>1. a \in Process /\ a # parent /\ Closed \in File
  BY LauncherAssumption DEF Process, File
<1>2. CASE ChildFails(a, "E") /\ UNCHANGED <<whitelist, parentVars>>
  BY <1>2, ChildFailsEffect
<1>3. CASE /\ child' = [child EXCEPT ![a] = "running"]
           /\ table' = [table EXCEPT ![a] = [d \in Fds |-> IF d \in cloexec[a] THEN Closed ELSE table[a][d]]]
           /\ cloexec' = [cloexec EXCEPT ![a] = {}]
           /\ UNCHANGED <<left, kept, told, whitelist, parentVars>>
  <2>1. [d \in Fds |-> IF d \in cloexec[a] THEN Closed ELSE table[a][d]] \in [Fds -> File]
    BY <1>1 DEF TypeOK
  <2>2. table' \in [Process -> [Fds -> File]] /\ cloexec' \in [Process -> SUBSET Fds]
    BY <1>1, <1>3, <2>1 DEF TypeOK
  <2>3. child' \in [Launches -> {"none", "setup", "exec", "exiting", "zombie", "reaped",
                                 "running", "exited"}]
    BY <1>3 DEF TypeOK
  <2>4. TypeOK'
    BY <1>3, <2>2, <2>3 DEF TypeOK, parentVars
  <2>5. OnlyChild(a) /\ child'[a] = "running"
    BY <1>3 DEF OnlyChild, TypeOK
  <2> QED
    BY <2>4, <2>5
<1> QED
  BY <1>2, <1>3 DEF Exec

LEMMA ChildExitsEffect ==
  ASSUME TypeOK, NEW a \in Launches, ChildExits(a)
  PROVE  /\ TypeOK' /\ OnlyChild(a) 
         /\ \/ child[a] = "exiting" /\ child'[a] = "zombie"
            \/ child[a] = "running" /\ child'[a] = "exited"
<1>1. a \in Process /\ a # parent /\ Closed \in File
  BY LauncherAssumption DEF Process, File
<1>2. /\ table' = [table EXCEPT ![a] = [d \in Fds |-> Closed]]
      /\ cloexec' = [cloexec EXCEPT ![a] = {}]
      /\ UNCHANGED <<whitelist, left, kept, told, parentVars>>
  BY DEF ChildExits
<1>3. table' \in [Process -> [Fds -> File]] /\ cloexec' \in [Process -> SUBSET Fds]
  BY <1>1, <1>2 DEF TypeOK
<1>4. \/ child[a] = "exiting" /\ child' = [child EXCEPT ![a] = "zombie"]
      \/ child[a] = "running" /\ child' = [child EXCEPT ![a] = "exited"]
  BY DEF ChildExits
<1>5. child' \in [Launches -> {"none", "setup", "exec", "exiting", "zombie", "reaped",
                               "running", "exited"}]
  BY <1>4 DEF TypeOK
<1>6. TypeOK'
  BY <1>2, <1>3, <1>5 DEF TypeOK, parentVars
<1>7. OnlyChild(a)
  BY <1>2, <1>4 DEF OnlyChild, TypeOK
<1> QED
  BY <1>4, <1>6, <1>7 DEF TypeOK

LEMMA ChildEffect ==
  ASSUME TypeOK, NEW a \in Launches, ChildDoes(a)
  PROVE  /\ TypeOK' /\ OnlyChild(a)
         /\ child[a] \notin {"none", "reaped"} /\ child'[a] \notin {"none", "reaped"}
         /\ child'[a] \in {"setup", "exec"} => child[a] = "setup" /\ told'[a] = told[a]
         /\ child[a] \notin {"setup", "exec"} => told'[a] = told[a]
<1>1. CASE Dup2(a)
  <2>1. TypeOK' /\ OnlyChild(a)
    BY <1>1, Dup2Effect
  <2>2. /\ child[a] = "setup" /\ child'[a] \in {"setup", "exiting"}
        /\ child'[a] = "setup" => told'[a] = told[a]
    BY <1>1 DEF Dup2, ChildFails, TypeOK
  <2> QED
    BY <2>1, <2>2
<1>2. CASE ExecSetupFails(a)
  BY <1>2, ExecSetupFailsEffect DEF ExecSetupFails
<1>3. CASE CloseAll(a)
  BY <1>3, CloseAllEffect DEF CloseAll
<1>4. CASE Exec(a)
  BY <1>4, ExecEffect DEF Exec
<1>5. CASE ChildExits(a)
  BY <1>5, ChildExitsEffect DEF ChildExits
<1> QED
  BY <1>1, <1>2, <1>3, <1>4, <1>5 DEF ChildDoes

-------------------------------------------------------------------------------
(***************************************************************************)
(* The steps of a launching thread keep the first invariant.               *)
(***************************************************************************)
States == {"none", "setup", "exec", "exiting", "zombie", "reaped", "running", "exited"}

\* Return: the ends that are closed are those the guards hold, so none of another launch
\* and no file of the program.
LEMMA ReturnInv ==
  ASSUME IInv, NEW a \in Launches, NEW r \in {"ok", "error"}, NEW swapped,
         pc[a] # "done", Return(a, r, swapped),
         swapped = {} \/ (r = "ok" /\ Kind(a) = "pipe_fork" /\ swapped = {"wr"}),
         child' \in [Launches -> States], \A b \in Launches \ {a} : child'[b] = child[b],
         child'[a] \in {child[a], "reaped"},
         r = "error" => Kind(a) = "pipe_fork" \/ child'[a] \in {"none", "reaped"},
         whitelist' \in [Launchers -> SUBSET Fds], UNCHANGED <<left, kept, told>>
  PROVE  IInv'
<1> USE DEF IInv
<1>1. /\ table' \in Tables /\ cloexec' \in [Process -> SUBSET Fds]
      /\ pc' \in [Launches -> {"idle", "pipe", "flag", "wait_pipe", "wait_flag", "setup",
                               "fork", "close", "read", "vfork", "reap", "done"}]
      /\ guard' \in [Launches -> SUBSET Ends] /\ result' \in [Launches -> {"none", "ok", "error"}]
      /\ UNCHANGED <<kind, binds, p>>
      /\ pc'[a] = "done" /\ guard'[a] = {} /\ result'[a] = r
      /\ \A b \in Launches \ {a} : pc'[b] = pc[b] /\ guard'[b] = guard[b] /\ result'[b] = result[b]
      /\ CloseEnds(a, guard[a] \ swapped)
  BY ReturnEffect
<1>2. TypeOK'
  BY <1>1 DEF TypeOK, Tables, States
<1>3. ASSUME NEW b \in Launches PROVE (Stage(b) /\ GuardStage(b))'
  <2>1. CASE b = a
    BY <1>1, <2>1 DEF Stage, GuardStage, Before, Kind
  <2>2. CASE b # a
    <3>1. Stage(b)'
      BY <1>1, <2>2 DEF Stage, Before, Kind, ErrorPipe
    <3>2. GuardStage(b)'
      BY <1>1, <2>2 DEF GuardStage, Before, Kind, AllEnds
    <3> QED
      BY <3>1, <3>2
  <2> QED
    BY <2>1, <2>2
<1>4. \A d \in Fds :
        \/ /\ \E e \in guard[a] \ swapped : p[a][e] = d /\ table[parent][d] = <<a, e>>
           /\ table'[parent][d] = Closed
        \/ /\ \A e \in guard[a] \ swapped : p[a][e] # d
           /\ table'[parent][d] = table[parent][d]
  <2>1. guard[a] \ swapped \subseteq guard[a]
    OBVIOUS
  <2> QED
    BY <1>1, <2>1, CloseEndsEffect
<1>5. HeldEnds'
  <2> SUFFICES ASSUME NEW b \in Launches, NEW e \in guard'[b]
               PROVE  p'[b][e] \in Fds /\ table'[parent][p'[b][e]] = <<b, e>>
    BY DEF HeldEnds
  <2>1. b # a /\ e \in guard[b] /\ p'[b][e] = p[b][e]
    BY <1>1
  <2>2. p[b][e] \in Fds /\ table[parent][p[b][e]] = <<b, e>>
    BY <2>1 DEF HeldEnds
  <2>3. \A x : table[parent][p[b][e]] # <<a, x>>
    BY <2>1, <2>2
  <2> QED
    BY <1>4, <2>1, <2>2, <2>3
<1>6. OwnedEnds'
  <2> SUFFICES ASSUME NEW d \in Fds, NEW b \in Launches, NEW e \in Ends, table'[parent][d] = <<b, e>>
               PROVE  \/ e \in guard'[b] /\ p'[b][e] = d
                      \/ result'[b] = "ok" /\ Kind(b)' = "pipe_fork" /\ e = "wr"
    BY DEF OwnedEnds
  <2>1. table'[parent][d] # Closed
    BY FilesApart
  <2>2. table[parent][d] = <<b, e>> /\ \A x \in guard[a] \ swapped : p[a][x] # d
    BY <1>4, <2>1
  <2>3. \/ e \in guard[b] /\ p[b][e] = d
        \/ result[b] = "ok" /\ Kind(b) = "pipe_fork" /\ e = "wr"
    BY <2>2 DEF OwnedEnds
  <2>4. Kind(b)' = Kind(b)
    BY <1>1 DEF Kind
  <2>5. CASE b # a
    BY <1>1, <2>3, <2>4, <2>5
  <2>6. CASE b = a
    <3>1. result[a] # "ok"
      BY DEF Stage, TypeOK, Before
    <3>2. e \in swapped
      BY <2>2, <2>3, <2>6, <3>1
    <3> QED
      BY <1>1, <2>4, <2>6, <3>2
  <2> QED
    BY <2>5, <2>6
<1> QED
  BY <1>2, <1>3, <1>5, <1>6

\* pipe(2): its descriptors were closed, so no end that is held is overwritten.
LEMMA OpenPipeInv ==
  ASSUME IInv, NEW a \in Launches, NEW re \in Ends, NEW we \in Ends, re # we, NEW next,
         OpenPipe(a, re, we, next),
         \/ pc[a] = "pipe" /\ re = "er" /\ we = "ew" /\ next = "flag"
         \/ pc[a] = "wait_pipe" /\ re = "wr" /\ we = "ww" /\ next = "wait_flag"
  PROVE  IInv'
<1> USE DEF IInv
<1>1. CASE Fail(a) /\ UNCHANGED <<whitelist, childVars>>
  <2>1. /\ Return(a, "error", {}) /\ child' \in [Launches -> States]
        /\ \A b \in Launches \ {a} : child'[b] = child[b]
        /\ child'[a] \in {"none", "reaped"} /\ child'[a] = child[a]
        /\ whitelist' \in [Launchers -> SUBSET Fds] /\ UNCHANGED <<left, kept, told>>
    BY <1>1 DEF Fail, TypeOK, States, childVars, Stage, Before
  <2> QED
    BY <2>1, ReturnInv
<1>2. CASE ~Fail(a)
  <2>0. Opens(a, re, we, next)
    <3>1. next \in {"flag", "wait_flag"} /\ pc[a] # "done"
      OBVIOUS
    <3>2. OpenPipe(a, re, we, next) /\ ~Fail(a) /\ TypeOK
      BY <1>2
    <3> HIDE DEF IInv
    <3> QED
      BY <3>1, <3>2, OpenPipeEffect
  <2>1. PICK r, w \in Fds :
           /\ r # w /\ table[parent][r] = Closed /\ table[parent][w] = Closed
           /\ table' \in Tables
           /\ table'[parent][r] = <<a, re>> /\ table'[parent][w] = <<a, we>>
           /\ \A d \in Fds \ {r, w} : table'[parent][d] = table[parent][d]
           /\ p' \in [Launches -> [Ends -> Fds \cup {-1}]]
           /\ p'[a][re] = r /\ p'[a][we] = w /\ \A e \in Ends \ {re, we} : p'[a][e] = p[a][e]
           /\ guard' \in [Launches -> SUBSET Ends] /\ guard'[a] = guard[a] \cup {re, we}
           /\ pc' \in [Launches -> {"idle", "pipe", "flag", "wait_pipe", "wait_flag", "setup",
                                    "fork", "close", "read", "vfork", "reap", "done"}]
           /\ pc'[a] = next
           /\ \A b \in Launches \ {a} : pc'[b] = pc[b] /\ guard'[b] = guard[b] /\ p'[b] = p[b]
           /\ UNCHANGED <<kind, binds, result, whitelist, cloexec, childVars>>
    BY <2>0 DEF Opens
  <2>2. UNCHANGED <<child, left, kept, told>>
    BY <2>1 DEF childVars
  <2>3. TypeOK'
    BY <2>1, <2>2 DEF TypeOK, Tables
  <2>4. guard[a] \cap {re, we} = {} /\ guard[a] \subseteq {"er", "ew"} /\ result[a] = "none"
    BY DEF GuardStage, Stage, Before
  <2>5. ASSUME NEW b \in Launches PROVE (Stage(b) /\ GuardStage(b))'
    <3>1. CASE b = a
      <4>1. Stage(a)'
        BY <2>1, <2>2 DEF Stage, Before, Kind, ErrorPipe
      <4>2. GuardStage(a)'
        <5>1. \A e \in Ends \ guard[a] : p[a][e] = -1
          BY DEF GuardStage, Before
        <5>2. \A e \in Ends \ guard'[a] : p'[a][e] = -1
          BY <2>1, <5>1
        <5>3. CASE pc[a] = "pipe" /\ re = "er" /\ we = "ew" /\ next = "flag"
          <6>1. guard[a] = {}
            BY <5>3 DEF GuardStage
          <6>2. guard'[a] = {"er", "ew"} /\ pc'[a] = "flag"
            BY <2>1, <5>3, <6>1
          <6> QED
            BY <5>2, <6>2 DEF GuardStage
        <5>4. CASE pc[a] = "wait_pipe" /\ re = "wr" /\ we = "ww" /\ next = "wait_flag"
          <6>1. guard[a] = {"er", "ew"}
            BY <5>4 DEF GuardStage
          <6>2. guard'[a] = Ends /\ pc'[a] = "wait_flag"
            BY <2>1, <5>4, <6>1 DEF Ends
          <6> QED
            BY <5>2, <6>2 DEF GuardStage
        <5> QED
          BY <5>3, <5>4
      <4> QED
        BY <3>1, <4>1, <4>2
    <3>2. CASE b # a
      <4>1. Stage(b)'
        BY <2>1, <2>2, <3>2 DEF Stage, Before, Kind, ErrorPipe
      <4>2. GuardStage(b)'
        BY <2>1, <3>2 DEF GuardStage, Before, Kind, AllEnds
      <4> QED
        BY <4>1, <4>2
    <3> QED
      BY <3>1, <3>2
  <2>6. HeldEnds'
    <3> SUFFICES ASSUME NEW b \in Launches, NEW e \in guard'[b]
                 PROVE  p'[b][e] \in Fds /\ table'[parent][p'[b][e]] = <<b, e>>
      BY DEF HeldEnds
    <3>1. e \in Ends
      BY <2>1
    <3>2. CASE b = a /\ e \in {re, we}
      BY <2>1, <3>2
    <3>3. CASE ~(b = a /\ e \in {re, we})
      <4>1. e \in guard[b] /\ p'[b][e] = p[b][e]
        BY <2>1, <3>1, <3>3
      <4>2. p[b][e] \in Fds /\ table[parent][p[b][e]] = <<b, e>>
        BY <4>1 DEF HeldEnds
      <4>3. p[b][e] \notin {r, w}
        <5>1. <<b, e>> # Closed
          BY <3>1, FilesApart
        <5> QED
          BY <2>1, <4>2, <5>1
      <4> QED
        BY <2>1, <4>1, <4>2, <4>3
    <3> QED
      BY <3>2, <3>3
  <2>7. OwnedEnds'
    <3> SUFFICES ASSUME NEW d \in Fds, NEW b \in Launches, NEW e \in Ends, table'[parent][d] = <<b, e>>
                 PROVE  \/ e \in guard'[b] /\ p'[b][e] = d
                        \/ result'[b] = "ok" /\ Kind(b)' = "pipe_fork" /\ e = "wr"
      BY DEF OwnedEnds
    <3>1. CASE d = r
      BY <2>1, <3>1
    <3>2. CASE d = w
      BY <2>1, <3>2
    <3>3. CASE d \notin {r, w}
      <4>1. table[parent][d] = <<b, e>>
        BY <2>1, <3>3
      <4>2. \/ e \in guard[b] /\ p[b][e] = d
            \/ result[b] = "ok" /\ Kind(b) = "pipe_fork" /\ e = "wr"
        BY <4>1 DEF OwnedEnds
      <4>3. Kind(b)' = Kind(b)
        BY <2>1 DEF Kind
      <4>4. CASE b # a
        BY <2>1, <4>2, <4>3, <4>4
      <4>5. CASE b = a
        BY <2>1, <2>4, <4>2, <4>5
      <4> QED
        BY <4>4, <4>5
    <3> QED
      BY <3>1, <3>2, <3>3
  <2> QED
    BY <2>3, <2>5, <2>6, <2>7
<1> QED
  BY <1>1, <1>2 DEF OpenPipe

\* The steps that change neither the table of the parent nor the guards.
LEMMA PlacesInv ==
  ASSUME IInv, TypeOK', NEW a \in Launches,
         UNCHANGED <<kind, p, guard>>, table'[parent] = table[parent],
         \A b \in Launches : result[b] = "ok" => result'[b] = "ok",
         Stage(a)', GuardStage(a)',
         \A b \in Launches \ {a} : pc'[b] = pc[b] /\ result'[b] = result[b]
                                   /\ child'[b] = child[b] /\ told'[b] = told[b]
  PROVE  IInv'
<1> USE DEF IInv
<1>1. \A b \in Launches : Kind(b)' = Kind(b) /\ guard'[b] = guard[b] /\ p'[b] = p[b]
  BY DEF Kind
<1>2. ASSUME NEW b \in Launches PROVE (Stage(b) /\ GuardStage(b))'
  <2>1. CASE b # a
    <3>1. Stage(b)'
      BY <1>1, <2>1 DEF Stage, Before, ErrorPipe
    <3>2. GuardStage(b)'
      BY <1>1, <2>1 DEF GuardStage, Before, AllEnds
    <3> QED
      BY <3>1, <3>2
  <2> QED
    BY <2>1
<1>3. HeldEnds' /\ OwnedEnds'
  BY <1>1 DEF HeldEnds, OwnedEnds
<1> QED
  BY <1>2, <1>3

LEMMA LaunchInv ==
  ASSUME IInv, NEW a \in Launches, Launch(a)
  PROVE  IInv'
<1> USE DEF IInv
<1>1. PICK s \in Bindings : binds' = [binds EXCEPT ![a] = s]
  BY DEF Launch
<1>2. /\ pc[a] = "idle" /\ pc' = [pc EXCEPT ![a] = IF ErrorPipe(a) THEN "pipe" ELSE "setup"]
      /\ UNCHANGED <<kind, p, guard, result, child, left, kept, told, whitelist, table, cloexec>>
  BY DEF Launch, Goto, childVars, fdVars
<1>3. TypeOK'
  <2>1. binds' \in [Launches -> Bindings \cup {<<>>}]
    BY <1>1 DEF TypeOK
  <2> QED
    BY <1>2, <2>1 DEF TypeOK
<1>4. pc'[a] = (IF ErrorPipe(a) THEN "pipe" ELSE "setup") /\ guard[a] = {}
  BY <1>2 DEF TypeOK, GuardStage
<1>5. ~ErrorPipe(a) => AllEnds(a) = {}
  BY DEF AllEnds, ErrorPipe
<1>6. Stage(a)' /\ GuardStage(a)'
  <2>1. Kind(a)' = Kind(a) /\ ErrorPipe(a)' = ErrorPipe(a) /\ AllEnds(a)' = AllEnds(a)
    BY <1>2 DEF Kind, ErrorPipe, AllEnds
  <2>2. Stage(a)'
    BY <1>2, <1>4, <2>1 DEF Stage, Before
  <2>3. GuardStage(a)'
    BY <1>2, <1>4, <1>5, <2>1 DEF GuardStage, Before
  <2> QED
    BY <2>2, <2>3
<1>7. \A b \in Launches \ {a} : pc'[b] = pc[b]
  BY <1>2 DEF TypeOK
<1> QED
  BY <1>2, <1>3, <1>6, <1>7, PlacesInv

\* fcntl: the end that is flagged is held by the guard.
LEMMA FlagInv ==
  ASSUME IInv, NEW a \in Launches, FlagErrorPipe(a) \/ FlagWaitPipe(a)
  PROVE  IInv'
<1> USE DEF IInv
<1>1. PICK we \in Ends, next \in {"wait_pipe", "setup"} :
        /\ SetCloexec(a, we, next)
        /\ \/ pc[a] = "flag" /\ we = "ew" /\ next = (IF Kind(a) = "pipe_fork" THEN "wait_pipe" ELSE "setup")
           \/ pc[a] = "wait_flag" /\ we = "ww" /\ next = "setup"
  BY DEF FlagErrorPipe, FlagWaitPipe, Ends
<1>2. /\ cloexec' = [cloexec EXCEPT ![parent] = cloexec[parent] \cup {p[a][we]}]
      /\ pc' = [pc EXCEPT ![a] = next]
      /\ UNCHANGED <<kind, binds, p, guard, result, whitelist, table, child, left, kept, told>>
  BY <1>1 DEF SetCloexec, Goto, childVars
<1>3. p[a][we] \in Fds
  <2>1. we \in guard[a]
    BY <1>1 DEF GuardStage, Ends
  <2> QED
    BY <2>1 DEF HeldEnds
<1>4. parent \in Process
  BY DEF Process
<1>5. TypeOK'
  <2>1. cloexec' \in [Process -> SUBSET Fds]
    BY <1>2, <1>3, <1>4 DEF TypeOK
  <2> QED
    BY <1>1, <1>2, <2>1 DEF TypeOK
<1>6. pc'[a] = next /\ \A b \in Launches \ {a} : pc'[b] = pc[b]
  BY <1>2 DEF TypeOK
<1>7. Kind(a)' = Kind(a) /\ ErrorPipe(a)' = ErrorPipe(a) /\ AllEnds(a)' = AllEnds(a)
  BY <1>2 DEF Kind, ErrorPipe, AllEnds
<1>8. Stage(a)'
  BY <1>1, <1>2, <1>6, <1>7, KindType DEF Stage, Before, ErrorPipe
<1>9. GuardStage(a)'
  BY <1>1, <1>2, <1>6, <1>7, KindType DEF GuardStage, Before, AllEnds, Stage, ErrorPipe
<1> QED
  BY <1>2, <1>5, <1>6, <1>8, <1>9, PlacesInv

LEMMA FailInv ==
  ASSUME IInv, NEW a \in Launches, Fail(a), pc[a] \in Before \ {"done"},
         whitelist' \in [Launchers -> SUBSET Fds], UNCHANGED childVars
  PROVE  IInv'
<1>1. /\ Return(a, "error", {}) /\ child' \in [Launches -> States]
      /\ \A b \in Launches \ {a} : child'[b] = child[b]
      /\ child'[a] \in {"none", "reaped"} /\ child'[a] = child[a] /\ UNCHANGED <<left, kept, told>>
  BY DEF Fail, IInv, TypeOK, States, childVars, Stage, Before
<1>2. pc[a] # "done"
  BY DEF Before
<1> QED
  BY <1>1, <1>2, ReturnInv

LEMMA SetupInv ==
  ASSUME IInv, NEW a \in Launches, Setup(a)
  PROVE  IInv'
<1> USE DEF IInv
<1> DEFINE pushed(n) == whitelist[Uses[a]] \cup Pushed(a, n)
<1>1. binds[a] \in Seq([target : Fds, fd : Fds]) /\ Uses[a] \in Launchers
  BY BindsType, KindType
<1>2. \A n \in 0..Len(binds[a]) : pushed(n) \subseteq Fds
  <2> SUFFICES ASSUME NEW n \in 0..Len(binds[a]), NEW i \in 1..n PROVE binds[a][i].target \in Fds
    BY <1>1 DEF Pushed, TypeOK
  <2>1. i \in 1..Len(binds[a])
    BY <1>1
  <2>2. binds[a][i] \in [target : Fds, fd : Fds]
    BY <1>1, <2>1, ElementOfSeq
  <2> QED
    BY <2>2
<1>3. WriteEnds(a) \subseteq Fds
  BY DEF WriteEnds, TypeOK, Ends
<1>4. CASE /\ whitelist' = [whitelist EXCEPT ![Uses[a]] = pushed(Len(binds[a])) \cup WriteEnds(a)]
           /\ Goto(a, "fork")
           /\ UNCHANGED <<kind, binds, p, guard, result, table, cloexec, childVars>>
  <2>1. Len(binds[a]) \in 0..Len(binds[a])
    BY <1>1
  <2>2. whitelist' \in [Launchers -> SUBSET Fds]
    BY <1>1, <1>2, <1>3, <1>4, <2>1 DEF TypeOK
  <2>3. pc' = [pc EXCEPT ![a] = "fork"] /\ UNCHANGED <<child, left, kept, told>>
    BY <1>4 DEF Goto, childVars
  <2>4. TypeOK'
    BY <1>4, <2>2, <2>3 DEF TypeOK
  <2>5. pc'[a] = "fork" /\ \A b \in Launches \ {a} : pc'[b] = pc[b]
    BY <2>3 DEF TypeOK
  <2>6. Stage(a)' /\ GuardStage(a)'
    BY <1>4, <2>3, <2>5 DEF Setup, Stage, GuardStage, Before, Kind, ErrorPipe, AllEnds
  <2> QED
    BY <1>4, <2>3, <2>4, <2>5, <2>6, PlacesInv
<1>5. CASE /\ \E n \in 0..Len(binds[a]) : whitelist' = [whitelist EXCEPT ![Uses[a]] = pushed(n)]
           /\ Fail(a) /\ UNCHANGED childVars
  <2>1. whitelist' \in [Launchers -> SUBSET Fds]
    BY <1>1, <1>2, <1>5 DEF TypeOK
  <2>2. pc[a] \in Before \ {"done"}
    BY DEF Setup, Before
  <2> QED
    BY <1>5, <2>1, <2>2, FailInv
<1> QED
  BY <1>4, <1>5 DEF Setup

LEMMA ForksEffect ==
  ASSUME TypeOK, NEW a \in Launches, Forks(a)
  PROVE  /\ child' \in [Launches -> States] /\ left' \in [Launches -> Seq([target : Fds, fd : Fds])]
         /\ kept' \in [Launches -> SUBSET Fds] /\ table' \in Tables
         /\ cloexec' \in [Process -> SUBSET Fds] /\ UNCHANGED told
         /\ child'[a] = "setup" /\ left'[a] = binds[a] /\ kept'[a] = whitelist[Uses[a]]
         /\ \A d \in Fds : table'[a][d] = IF d = p[a]["er"] THEN Closed ELSE table[parent][d]
         /\ cloexec'[a] = cloexec[parent]
         /\ \A q \in Process \ {a} : table'[q] = table[q] /\ cloexec'[q] = cloexec[q]
         /\ \A b \in Launches \ {a} : child'[b] = child[b] /\ left'[b] = left[b] /\ kept'[b] = kept[b]
<1>1. /\ a \in Process /\ parent \in Process /\ a # parent /\ Closed \in File /\ Uses[a] \in Launchers
      /\ binds[a] \in Seq([target : Fds, fd : Fds])
  BY LauncherAssumption, BindsType, KindType DEF Process, File
<1>2. /\ child' = [child EXCEPT ![a] = "setup"] /\ left' = [left EXCEPT ![a] = binds[a]]
      /\ kept' = [kept EXCEPT ![a] = whitelist[Uses[a]]] /\ UNCHANGED told
      /\ table' = [table EXCEPT ![a] = [d \in Fds |-> IF d = p[a]["er"] THEN Closed ELSE table[parent][d]]]
      /\ cloexec' = [cloexec EXCEPT ![a] = cloexec[parent]]
  BY DEF Forks
<1>3. [d \in Fds |-> IF d = p[a]["er"] THEN Closed ELSE table[parent][d]] \in [Fds -> File]
  BY <1>1 DEF TypeOK
<1>4. /\ child' \in [Launches -> States] /\ left' \in [Launches -> Seq([target : Fds, fd : Fds])]
      /\ kept' \in [Launches -> SUBSET Fds]
      /\ child'[a] = "setup" /\ left'[a] = binds[a] /\ kept'[a] = whitelist[Uses[a]]
      /\ \A b \in Launches \ {a} : child'[b] = child[b] /\ left'[b] = left[b] /\ kept'[b] = kept[b]
  BY <1>1, <1>2 DEF TypeOK, States
<1>5. /\ cloexec' \in [Process -> SUBSET Fds] /\ cloexec'[a] = cloexec[parent]
      /\ \A q \in Process \ {a} : cloexec'[q] = cloexec[q]
  BY <1>1, <1>2 DEF TypeOK
<1>6. /\ table' \in Tables /\ \A q \in Process \ {a} : table'[q] = table[q]
      /\ table'[a] = [d \in Fds |-> IF d = p[a]["er"] THEN Closed ELSE table[parent][d]]
  BY <1>1, <1>2, <1>3 DEF TypeOK, Tables
<1>7. \A d \in Fds : table'[a][d] = IF d = p[a]["er"] THEN Closed ELSE table[parent][d]
  BY <1>6
<1> QED
  BY <1>2, <1>4, <1>5, <1>6, <1>7

LEMMA ForkInv ==
  ASSUME IInv, NEW a \in Launches, Fork(a)
  PROVE  IInv'
<1> USE DEF IInv
<1>1. CASE Fail(a) /\ UNCHANGED <<childVars, whitelist>>
  <2>1. pc[a] \in Before \ {"done"} /\ whitelist' \in [Launchers -> SUBSET Fds]
    BY <1>1 DEF Fork, Before, TypeOK
  <2> QED
    BY <1>1, <2>1, FailInv
<1>2. CASE /\ Forks(a)
           /\ IF Kind(a) = "fork_and_forget"
                THEN Goto(a, "done") /\ result' = [result EXCEPT ![a] = "ok"]
                ELSE Goto(a, IF Kind(a) = "vfork" THEN "vfork" ELSE "close") /\ UNCHANGED result
           /\ UNCHANGED <<kind, binds, p, guard, whitelist>>
  <2>1. /\ child' \in [Launches -> States] /\ left' \in [Launches -> Seq([target : Fds, fd : Fds])]
        /\ kept' \in [Launches -> SUBSET Fds] /\ table' \in Tables
        /\ cloexec' \in [Process -> SUBSET Fds] /\ UNCHANGED told /\ child'[a] = "setup"
        /\ \A q \in Process \ {a} : table'[q] = table[q]
        /\ \A b \in Launches \ {a} : child'[b] = child[b]
    BY <1>2, ForksEffect
  <2>2. table'[parent] = table[parent]
    BY <2>1, LauncherAssumption DEF Process
  <2>3. /\ pc'[a] = IF Kind(a) = "fork_and_forget" THEN "done"
                    ELSE IF Kind(a) = "vfork" THEN "vfork" ELSE "close"
        /\ pc' \in [Launches -> {"idle", "pipe", "flag", "wait_pipe", "wait_flag", "setup",
                                 "fork", "close", "read", "vfork", "reap", "done"}]
        /\ \A b \in Launches \ {a} : pc'[b] = pc[b]
    BY <1>2 DEF Goto, TypeOK
  <2>4. /\ result' \in [Launches -> {"none", "ok", "error"}]
        /\ result'[a] = IF Kind(a) = "fork_and_forget" THEN "ok" ELSE result[a]
        /\ \A b \in Launches \ {a} : result'[b] = result[b]
    BY <1>2 DEF TypeOK
  <2>5. TypeOK'
    BY <1>2, <2>1, <2>3, <2>4 DEF TypeOK, Tables, States
  <2>6. Kind(a)' = Kind(a) /\ pc[a] = "fork"
    BY <1>2 DEF Kind, Fork
  <2>7. Stage(a)'
    BY <2>1, <2>3, <2>4, <2>6, KindType DEF Stage, Before, ErrorPipe
  <2>8. GuardStage(a)'
    BY <1>2, <2>3, <2>6, KindType DEF GuardStage, Before, AllEnds
  <2>9. \A b \in Launches : result[b] = "ok" => result'[b] = "ok"
    BY <2>4, <2>6 DEF Stage, Before
  <2> QED
    BY <1>2, <2>1, <2>2, <2>3, <2>4, <2>5, <2>7, <2>8, <2>9, PlacesInv
<1> QED
  BY <1>1, <1>2 DEF Fork

LEMMA CloseWriteEndsInv ==
  ASSUME IInv, NEW a \in Launches, CloseWriteEnds(a)
  PROVE  IInv'
<1> USE DEF IInv
<1> DEFINE ends == guard[a] \cap {"ew", "ww"}
<1>1. /\ CloseEnds(a, ends) /\ guard' = [guard EXCEPT ![a] = guard[a] \ ends]
      /\ pc' = [pc EXCEPT ![a] = "read"] /\ pc[a] = "close"
      /\ UNCHANGED <<kind, binds, p, result, whitelist, child, left, kept, told>>
  BY DEF CloseWriteEnds, Goto, childVars
<1>2. ends \subseteq guard[a]
  OBVIOUS
<1>3. /\ table' \in Tables /\ cloexec' \in [Process -> SUBSET Fds]
      /\ \A d \in Fds :
           \/ /\ \E e \in ends : p[a][e] = d /\ table[parent][d] = <<a, e>>
              /\ table'[parent][d] = Closed
           \/ /\ \A e \in ends : p[a][e] # d
              /\ table'[parent][d] = table[parent][d]
  BY <1>1, <1>2, CloseEndsEffect
<1> HIDE DEF ends
<1>4. /\ guard' \in [Launches -> SUBSET Ends] /\ guard'[a] = guard[a] \ ends /\ pc'[a] = "read"
      /\ \A b \in Launches \ {a} : guard'[b] = guard[b] /\ pc'[b] = pc[b]
  BY <1>1 DEF TypeOK
<1>5. TypeOK'
  BY <1>1, <1>3, <1>4 DEF TypeOK, Tables
<1>6. ASSUME NEW b \in Launches PROVE (Stage(b) /\ GuardStage(b))'
  <2>1. Kind(b)' = Kind(b)
    BY <1>1 DEF Kind
  <2>2. Stage(b)'
    BY <1>1, <1>4, <2>1 DEF Stage, Before, ErrorPipe
  <2>3. ASSUME b = a PROVE GuardStage(b)'
    BY <1>4, <2>3 DEF GuardStage, Before
  <2>4. ASSUME b # a PROVE GuardStage(b)'
    <3>1. GuardStage(b) /\ pc'[b] = pc[b] /\ guard'[b] = guard[b] /\ p' = p /\ AllEnds(b)' = AllEnds(b)
      BY <1>1, <1>4, <2>1, <2>4 DEF AllEnds
    <3> QED
      BY ONLY <3>1 DEF GuardStage
  <2>5. GuardStage(b)'
    BY <2>3, <2>4
  <2> QED
    BY <2>2, <2>5
<1>7. HeldEnds'
  <2> SUFFICES ASSUME NEW b \in Launches, NEW e \in guard'[b]
               PROVE  p'[b][e] \in Fds /\ table'[parent][p'[b][e]] = <<b, e>>
    BY DEF HeldEnds
  <2>1. e \in guard[b] /\ p'[b][e] = p[b][e] /\ (b = a => e \notin ends)
    BY <1>1, <1>4
  <2>2. p[b][e] \in Fds /\ table[parent][p[b][e]] = <<b, e>>
    BY <2>1 DEF HeldEnds
  <2>3. \A x \in ends : table[parent][p[b][e]] # <<a, x>>
    BY <2>1, <2>2
  <2> QED
    BY <1>3, <2>1, <2>2, <2>3
<1>8. OwnedEnds'
  <2> SUFFICES ASSUME NEW d \in Fds, NEW b \in Launches, NEW e \in Ends, table'[parent][d] = <<b, e>>
               PROVE  \/ e \in guard'[b] /\ p'[b][e] = d
                      \/ result'[b] = "ok" /\ Kind(b)' = "pipe_fork" /\ e = "wr"
    BY DEF OwnedEnds
  <2>1. table'[parent][d] # Closed
    BY FilesApart
  <2>2. table[parent][d] = <<b, e>> /\ \A x \in ends : p[a][x] # d
    BY <1>3, <2>1
  <2>3. \/ e \in guard[b] /\ p[b][e] = d
        \/ result[b] = "ok" /\ Kind(b) = "pipe_fork" /\ e = "wr"
    BY <2>2 DEF OwnedEnds
  <2>4. Kind(b)' = Kind(b)
    BY <1>1 DEF Kind
  <2> QED
    BY <1>1, <1>4, <2>2, <2>3, <2>4
<1> QED
  BY <1>5, <1>6, <1>7, <1>8

\* What is read from the error pipe, or from the error_code after vfork.
LEMMA AnswerInv ==
  ASSUME IInv, NEW a \in Launches, pc[a] \in {"read", "vfork"}, Answer(a), UNCHANGED <<whitelist, childVars>>
  PROVE  IInv'
<1> USE DEF IInv
<1>1. /\ UNCHANGED <<child, left, kept, told>> /\ child' \in [Launches -> States]
      /\ whitelist' \in [Launchers -> SUBSET Fds] /\ pc[a] # "done"
  BY DEF childVars, TypeOK, States
<1>2. CASE Kind(a) = "pipe_fork" /\ Fail(a)
  <2>1. Return(a, "error", {})
    BY <1>2 DEF Fail
  <2> QED
    BY <1>1, <1>2, <2>1, ReturnInv
<1>3. CASE /\ told[a] = "E" /\ Kind(a) # "pipe_fork" /\ Goto(a, "reap")
           /\ UNCHANGED <<kind, binds, p, guard, result, table, cloexec>>
  <2>1. pc' = [pc EXCEPT ![a] = "reap"]
    BY <1>3 DEF Goto
  <2>2. TypeOK' /\ pc'[a] = "reap" /\ \A b \in Launches \ {a} : pc'[b] = pc[b]
    BY <1>1, <1>3, <2>1 DEF TypeOK
  <2>3. Kind(a)' = Kind(a) /\ Kind(a) \in {"default", "vfork"}
    BY <1>3 DEF Kind, Stage, ErrorPipe
  <2>4. Stage(a)'
    BY <1>1, <1>3, <2>2, <2>3 DEF Stage, Before
  <2>5. GuardStage(a)'
    BY <2>2 DEF GuardStage, Before
  <2> QED
    BY <1>1, <1>3, <2>2, <2>4, <2>5, PlacesInv
<1>4. CASE Succeed(a)
  <2> DEFINE swapped == IF Kind(a) = "pipe_fork" THEN {"wr"} ELSE {}
  <2>1. Return(a, "ok", swapped)
    BY <1>4 DEF Succeed
  <2>2. swapped = {} \/ ("ok" = "ok" /\ Kind(a) = "pipe_fork" /\ swapped = {"wr"})
    OBVIOUS
  <2> HIDE DEF swapped
  <2> QED
    BY <1>1, <2>1, <2>2, ReturnInv
<1> QED
  BY <1>2, <1>3, <1>4 DEF Answer

LEMMA ReapFailedInv ==
  ASSUME IInv, NEW a \in Launches, ReapFailed(a)
  PROVE  IInv'
<1>1. /\ Return(a, "error", {}) /\ child' \in [Launches -> States] /\ child'[a] = "reaped"
      /\ \A b \in Launches \ {a} : child'[b] = child[b]
      /\ whitelist' \in [Launchers -> SUBSET Fds] /\ UNCHANGED <<left, kept, told>>
      /\ pc[a] # "done"
  BY DEF ReapFailed, Fail, IInv, TypeOK, States
<1> QED
  BY <1>1, ReturnInv

LEMMA UserOpensEffect ==
  ASSUME TypeOK, UserOpens
  PROVE  /\ \E r \in Fds, f \in Users :
              /\ table[parent][r] = Closed /\ table'[parent][r] = f
              /\ \A d \in Fds \ {r} : table'[parent][d] = table[parent][d]
         /\ table' \in Tables /\ \A q \in Process \ {parent} : table'[q] = table[q]
         /\ UNCHANGED <<whitelist, cloexec, kind, binds, pc, p, guard, result, child, left, kept, told>>
<1>1. Min(Free) \in Free
  <2>1. Free \subseteq Nat /\ Free # {}
    BY LauncherAssumption DEF Free, Fds, UserOpens
  <2> QED
    BY <2>1, MinIsMember
<1> DEFINE r == Min(Free)
<1>2. PICK f \in Users : table' = [table EXCEPT ![parent] = [table[parent] EXCEPT ![r] = f]]
  BY DEF UserOpens
<1>3. r \in Fds /\ table[parent][r] = Closed /\ f \in File /\ parent \in Process
  BY <1>1 DEF Free, IsOpen, File, Process
<1> HIDE DEF r
<1>4. [table[parent] EXCEPT ![r] = f] \in [Fds -> File]
  BY <1>3 DEF TypeOK
<1>5. /\ table' \in Tables /\ \A q \in Process \ {parent} : table'[q] = table[q]
      /\ table'[parent] = [table[parent] EXCEPT ![r] = f]
  BY <1>2, <1>3, <1>4 DEF TypeOK, Tables
<1>6. table'[parent][r] = f /\ \A d \in Fds \ {r} : table'[parent][d] = table[parent][d]
  BY <1>3, <1>5 DEF TypeOK
<1> QED
  BY <1>3, <1>5, <1>6 DEF UserOpens, parentVars, childVars

LEMMA UserOpensInv ==
  ASSUME IInv, UserOpens
  PROVE  IInv'
<1> USE DEF IInv
<1>1. PICK r \in Fds, f \in Users :
        /\ table[parent][r] = Closed /\ table'[parent][r] = f
        /\ \A d \in Fds \ {r} : table'[parent][d] = table[parent][d]
  BY UserOpensEffect
<1>2. /\ table' \in Tables
      /\ UNCHANGED <<whitelist, cloexec, kind, binds, pc, p, guard, result, child, left, kept, told>>
  BY UserOpensEffect
<1>3. TypeOK'
  BY <1>2 DEF TypeOK, Tables
<1>4. \A b \in Launches : (Stage(b) /\ GuardStage(b))'
  BY <1>2 DEF Stage, GuardStage, Before, Kind, ErrorPipe, AllEnds
<1>5. HeldEnds'
  <2> SUFFICES ASSUME NEW b \in Launches, NEW e \in guard[b]
               PROVE  p[b][e] \in Fds /\ table'[parent][p[b][e]] = <<b, e>>
    BY <1>2 DEF HeldEnds
  <2>1. p[b][e] \in Fds /\ table[parent][p[b][e]] = <<b, e>> /\ e \in Ends
    BY DEF HeldEnds, TypeOK
  <2>2. <<b, e>> # Closed
    BY <2>1, FilesApart
  <2> QED
    BY <1>1, <2>1, <2>2
<1>6. OwnedEnds'
  <2> SUFFICES ASSUME NEW d \in Fds, NEW b \in Launches, NEW e \in Ends, table'[parent][d] = <<b, e>>
               PROVE  \/ e \in guard[b] /\ p[b][e] = d
                      \/ result[b] = "ok" /\ Kind(b) = "pipe_fork" /\ e = "wr"
    BY <1>2 DEF OwnedEnds, Kind
  <2>1. <<b, e>> \notin Users
    BY FilesApart
  <2>2. table[parent][d] = <<b, e>>
    BY <1>1, <2>1
  <2> QED
    BY <2>2 DEF OwnedEnds
<1> QED
  BY <1>3, <1>4, <1>5, <1>6

LEMMA ChildDoesInv ==
  ASSUME IInv, NEW a \in Launches, ChildDoes(a)
  PROVE  IInv'
<1> USE DEF IInv
<1>1. TypeOK' /\ OnlyChild(a) /\ child[a] \notin {"none", "reaped"} /\ child'[a] \notin {"none", "reaped"}
  BY ChildEffect
<1>2. /\ UNCHANGED <<kind, binds, pc, p, guard, result>> /\ table'[parent] = table[parent]
      /\ \A b \in Launches \ {a} : child'[b] = child[b] /\ told'[b] = told[b]
  BY <1>1, LauncherAssumption DEF OnlyChild, parentVars, Process
<1>3. told[a] = "E" => told'[a] = "E"
  BY ChildEffect DEF Stage
<1>4. Stage(a)' /\ GuardStage(a)'
  BY <1>1, <1>2, <1>3, ChildEffect DEF Stage, GuardStage, Before, Kind, ErrorPipe, AllEnds
<1> QED
  BY <1>1, <1>2, <1>4, PlacesInv

LEMMA InitInv == Init => IInv
<1> SUFFICES ASSUME Init PROVE IInv
  OBVIOUS
<1>1. parent \in Process /\ Closed \in File /\ Users \subseteq File /\ Closed \notin Pipes
  BY DEF Process, File, Pipes, Closed, Ends
<1>2. <<>> \in Seq([target : Fds, fd : Fds])
  OBVIOUS
<1>3. table \in [Process -> [Fds -> File]] /\ cloexec \in [Process -> SUBSET Fds]
  BY <1>1, LauncherAssumption DEF Init, File
<1>4. TypeOK
  BY <1>1, <1>2, <1>3, LauncherAssumption DEF Init, TypeOK
<1>5. \A a \in Launches : Stage(a) /\ GuardStage(a)
  BY DEF Init, Stage, GuardStage, Before
<1>6. HeldEnds
  BY DEF Init, HeldEnds
<1>7. OwnedEnds
  <2> SUFFICES ASSUME NEW d \in Fds, NEW a \in Launches, NEW e \in Ends, table[parent][d] = <<a, e>>
               PROVE  FALSE
    BY DEF OwnedEnds
  <2>1. table[parent][d] \in {Closed} \cup Users
    BY <1>1, LauncherAssumption DEF Init
  <2> QED
    BY <2>1, FilesApart
<1> QED
  BY <1>4, <1>5, <1>6, <1>7 DEF IInv

\* The disjuncts of Next, by what they do.
LEMMA NextCases ==
  ASSUME [Next]_vars
  PROVE  \/ \E a \in Launches :
              \/ Launch(a) \/ OpenErrorPipe(a) \/ FlagErrorPipe(a) \/ OpenWaitPipe(a) \/ FlagWaitPipe(a)
              \/ Setup(a) \/ Fork(a) \/ CloseWriteEnds(a) \/ ReadErrno(a) \/ VforkReturns(a)
              \/ ReapFailed(a) \/ ChildDoes(a)
         \/ UserOpens
         \/ UNCHANGED vars
BY DEF Next, ChildDoes

LEMMA StepInv ==
  ASSUME IInv, [Next]_vars
  PROVE  IInv'
<1>1. ASSUME NEW a \in Launches, OpenErrorPipe(a) PROVE IInv'
  <2>1. pc[a] = "pipe" /\ OpenPipe(a, "er", "ew", "flag")
    BY <1>1 DEF OpenErrorPipe
  <2> QED
    BY <2>1, OpenPipeInv DEF Ends
<1>2. ASSUME NEW a \in Launches, OpenWaitPipe(a) PROVE IInv'
  <2>1. pc[a] = "wait_pipe" /\ OpenPipe(a, "wr", "ww", "wait_flag")
    BY <1>2 DEF OpenWaitPipe
  <2> QED
    BY <2>1, OpenPipeInv DEF Ends
<1>3. ASSUME NEW a \in Launches, ReadErrno(a) \/ VforkReturns(a) PROVE IInv'
  BY <1>3, AnswerInv DEF ReadErrno, VforkReturns
<1>4. ASSUME NEW a \in Launches, Launch(a) \/ FlagErrorPipe(a) \/ FlagWaitPipe(a) \/ Setup(a) PROVE IInv'
  BY <1>4, LaunchInv, FlagInv, SetupInv
<1>5. ASSUME NEW a \in Launches, Fork(a) \/ CloseWriteEnds(a) \/ ReapFailed(a) \/ ChildDoes(a) PROVE IInv'
  BY <1>5, ForkInv, CloseWriteEndsInv, ReapFailedInv, ChildDoesInv
<1>6. CASE UserOpens
  BY <1>6, UserOpensInv
<1>7. CASE UNCHANGED vars
  <2>1. UNCHANGED <<kind, binds, pc, p, guard, result, child, left, kept, told, whitelist, table, cloexec>>
    BY <1>7 DEF vars, parentVars, childVars, fdVars
  <2>2. TypeOK'
    BY <2>1 DEF IInv, TypeOK
  <2>3. \A a \in Launches : (Stage(a) /\ GuardStage(a))'
    BY <2>1 DEF IInv, Stage, GuardStage, Before, AllEnds, Kind, ErrorPipe
  <2>4. HeldEnds' /\ OwnedEnds'
    BY <2>1 DEF IInv, HeldEnds, OwnedEnds, Kind
  <2> QED
    BY <2>2, <2>3, <2>4 DEF IInv
<1> QED
  BY <1>1, <1>2, <1>3, <1>4, <1>5, <1>6, <1>7, NextCases

LEMMA Invariance == Spec => []IInv
BY InitInv, StepInv, PTL DEF Spec

(***************************************************************************)
(* TypeOK: every descriptor is one of the table and every place of a       *)
(* launch one of the code's.                                               *)
(***************************************************************************)
THEOREM TypeCorrect == Spec => []TypeOK
<1>1. IInv => TypeOK
  BY DEF IInv
<1> QED
  BY <1>1, Invariance, PTL

(***************************************************************************)
(* NoLeak: on every path out of a launch its pipes are closed in the       *)
(* parent, but for the end given to the process of a pipe_fork_launcher    *)
(* (pipe_guard, and the swap and close calls of the launchers).            *)
(***************************************************************************)
THEOREM NoLeakHolds == Spec => []NoLeak
<1>1. IInv => NoLeak
  <2> SUFFICES ASSUME IInv, NEW a \in Launches, NEW d \in Fds, NEW e \in Ends,
                      result[a] # "none", table[parent][d] = <<a, e>>
               PROVE  result[a] = "ok" /\ Kind(a) = "pipe_fork" /\ e = "wr"
    BY DEF NoLeak
  <2>1. pc[a] = "done" /\ guard[a] = {}
    BY DEF IInv, TypeOK, Stage, GuardStage, Before
  <2> QED
    BY <2>1 DEF IInv, OwnedEnds
<1> QED
  BY <1>1, Invariance, PTL

(***************************************************************************)
(* NoZombie: an error is reported only when no process was started, or     *)
(* after the failed child was waited for; pipe_fork_launcher does not wait *)
(* (the launchers' operator(), after fork and after the error was read).   *)
(***************************************************************************)
THEOREM NoZombieHolds == Spec => []NoZombie
<1>1. IInv => NoZombie
  BY DEF IInv, Stage, NoZombie
<1> QED
  BY <1>1, Invariance, PTL

-------------------------------------------------------------------------------
(***************************************************************************)
(* No step of a launch touches a file of the program.                      *)
(***************************************************************************)
KeepsFiles == \A d \in Fds : table[parent][d] \in Users => table'[parent][d] = table[parent][d]

LEMMA CloseEndsKeepsFiles ==
  ASSUME IInv, NEW a \in Launches, NEW ends, ends \subseteq guard[a], CloseEnds(a, ends)
  PROVE  KeepsFiles
<1>1. \A d \in Fds :
        \/ \E e \in ends : table[parent][d] = <<a, e>>
        \/ table'[parent][d] = table[parent][d]
  BY CloseEndsEffect DEF IInv
<1>2. \A e \in ends : <<a, e>> \notin Users
  BY FilesApart DEF IInv, TypeOK
<1> QED
  BY <1>1, <1>2 DEF KeepsFiles

LEMMA ReturnKeepsFiles ==
  ASSUME IInv, NEW a \in Launches, NEW r, NEW swapped, Return(a, r, swapped)
  PROVE  KeepsFiles
<1>1. CloseEnds(a, guard[a] \ swapped)
  BY DEF Return
<1>2. guard[a] \ swapped \subseteq guard[a]
  OBVIOUS
<1> QED
  BY <1>1, <1>2, CloseEndsKeepsFiles

LEMMA OpenPipeKeepsFiles ==
  ASSUME IInv, NEW a \in Launches, pc[a] # "done",
         NEW re \in Ends, NEW we \in Ends, re # we, NEW next \in {"flag", "wait_flag"},
         OpenPipe(a, re, we, next)
  PROVE  KeepsFiles
<1>1. CASE Fail(a)
  BY <1>1, ReturnKeepsFiles DEF Fail
<1>2. CASE ~Fail(a)
  <2>1. Opens(a, re, we, next)
    BY <1>2, OpenPipeEffect DEF IInv
  <2>2. PICK r, w \in Fds : /\ table[parent][r] = Closed /\ table[parent][w] = Closed
                            /\ \A d \in Fds \ {r, w} : table'[parent][d] = table[parent][d]
    BY <2>1 DEF Opens
  <2> QED
    BY <2>2, FilesApart DEF KeepsFiles
<1> QED
  BY <1>1, <1>2

LEMMA AnswerKeepsFiles ==
  ASSUME IInv, NEW a \in Launches, Answer(a)
  PROVE  KeepsFiles
BY ReturnKeepsFiles DEF Answer, Fail, Succeed, KeepsFiles

LEMMA StepKeepsFiles ==
  ASSUME IInv, [Next]_vars
  PROVE  KeepsFiles
<1>1. ASSUME NEW a \in Launches, Launch(a) \/ FlagErrorPipe(a) \/ FlagWaitPipe(a) PROVE KeepsFiles
  BY <1>1 DEF Launch, FlagErrorPipe, FlagWaitPipe, SetCloexec, fdVars, KeepsFiles
<1>2. ASSUME NEW a \in Launches, OpenErrorPipe(a) \/ OpenWaitPipe(a) PROVE KeepsFiles
  BY <1>2, OpenPipeKeepsFiles DEF OpenErrorPipe, OpenWaitPipe, Ends
<1>3. ASSUME NEW a \in Launches, Setup(a) PROVE KeepsFiles
  BY <1>3, ReturnKeepsFiles DEF Setup, Fail, KeepsFiles
<1>4. ASSUME NEW a \in Launches, Fork(a) PROVE KeepsFiles
  <2>1. CASE Fail(a)
    BY <2>1, ReturnKeepsFiles DEF Fail
  <2>2. CASE Forks(a)
    BY <2>2, ForksEffect, LauncherAssumption DEF IInv, KeepsFiles, Process
  <2> QED
    BY <1>4, <2>1, <2>2 DEF Fork
<1>5. ASSUME NEW a \in Launches, CloseWriteEnds(a) PROVE KeepsFiles
  <2>1. CloseEnds(a, guard[a] \cap {"ew", "ww"}) /\ guard[a] \cap {"ew", "ww"} \subseteq guard[a]
    BY <1>5 DEF CloseWriteEnds
  <2> QED
    BY <2>1, CloseEndsKeepsFiles
<1>6. ASSUME NEW a \in Launches, ReadErrno(a) \/ VforkReturns(a) \/ ReapFailed(a) PROVE KeepsFiles
  BY <1>6, AnswerKeepsFiles, ReturnKeepsFiles DEF ReadErrno, VforkReturns, ReapFailed, Fail
<1>7. ASSUME NEW a \in Launches, ChildDoes(a) PROVE KeepsFiles
  BY <1>7, ChildEffect, LauncherAssumption DEF IInv, OnlyChild, KeepsFiles, Process
<1>8. CASE UserOpens
  BY <1>8, UserOpensEffect, FilesApart DEF IInv, KeepsFiles
<1>9. CASE UNCHANGED vars
  BY <1>9 DEF vars, fdVars, KeepsFiles
<1> QED
  BY <1>1, <1>2, <1>3, <1>4, <1>5, <1>6, <1>7, <1>8, <1>9, NextCases

(***************************************************************************)
(* UserFilesStay: a launch closes by number, but never the number of a     *)
(* file of the program, whatever the other threads open and close          *)
(* (pipe_guard's close calls).                                             *)
(***************************************************************************)
THEOREM UserFilesStayHolds == Spec => UserFilesStay
<1>1. IInv /\ [Next]_vars => [KeepsFiles]_vars
  BY StepKeepsFiles
<1>2. [KeepsFiles]_vars <=>
        [\A d \in Fds : table[parent][d] \in Users => table'[parent][d] = table[parent][d]]_vars
  BY DEF KeepsFiles
<1> QED
  BY <1>1, <1>2, Invariance, PTL DEF Spec, UserFilesStay

-------------------------------------------------------------------------------
(***************************************************************************)
(* What a child has of its parent.  Both invariants below follow a launch  *)
(* from its whitelist to its program; what they share is here: the         *)
(* bindings a child has still to apply are the last ones it was given.     *)
(***************************************************************************)
Applied(a) == Len(binds[a]) - Len(left[a])

Remaining(a) ==
  child[a] = "setup" =>
    /\ Len(left[a]) <= Len(binds[a])
    /\ \A i \in 1..Len(left[a]) : left[a][i] = binds[a][Applied(a) + i]

(***************************************************************************)
(* The second invariant: what close_all keeps is a standard descriptor, a  *)
(* target, or a write end that is flagged close-on-exec.                   *)
(***************************************************************************)
Allowed(a) == StdFds \cup Targets(binds[a])

Flags(a) ==
  /\ pc[a] \in {"wait_pipe", "wait_flag", "setup", "fork"} /\ "ew" \in guard[a] =>
       p[a]["ew"] \in cloexec[parent]
  /\ pc[a] \in {"setup", "fork"} /\ "ww" \in guard[a] => p[a]["ww"] \in cloexec[parent]

Given(a) ==
  /\ Remaining(a) /\ Flags(a)
  /\ pc[a] \in Before \ {"fork"} => whitelist[Uses[a]] \subseteq StdFds
  /\ pc[a] = "fork" => whitelist[Uses[a]] \subseteq Allowed(a) \cup WriteEnds(a)
  /\ child[a] \in {"setup", "exec"} => kept[a] \subseteq Allowed(a) \cup cloexec[a]
  /\ child[a] = "exec" => \A d \in Fds : IsOpen(a, d) => d \in kept[a]
  /\ child[a] = "running" => \A d \in Fds : IsOpen(a, d) => d \in Allowed(a)

\* Each launch has a launcher of its own, as in process(...), that default-constructs one.
OwnLauncher == \A a, b \in Launches : Uses[a] = Uses[b] => a = b

GInv == \A a \in Launches : Given(a)

(***************************************************************************)
(* A step of one launch leaves the others as they are: it closes none of   *)
(* their ends, so those stay flagged.                                      *)
(***************************************************************************)
Does(a) ==
  \/ Launch(a) \/ OpenErrorPipe(a) \/ FlagErrorPipe(a) \/ OpenWaitPipe(a) \/ FlagWaitPipe(a)
  \/ Setup(a) \/ Fork(a) \/ CloseWriteEnds(a) \/ ReadErrno(a) \/ VforkReturns(a)
  \/ ReapFailed(a) \/ ChildDoes(a)

SameChild(b) ==
  /\ child'[b] = child[b] /\ left'[b] = left[b] /\ kept'[b] = kept[b] /\ told'[b] = told[b]
  /\ table'[b] = table[b] /\ cloexec'[b] = cloexec[b]

SameParent(b) ==
  /\ kind' = kind /\ pc'[b] = pc[b] /\ binds'[b] = binds[b] /\ p'[b] = p[b] /\ guard'[b] = guard[b]
  /\ result'[b] = result[b]

SameFlags(b) == \A e \in guard[b] : p[b][e] \in cloexec[parent] => p[b][e] \in cloexec'[parent]

Undisturbed(b) == SameChild(b) /\ SameParent(b) /\ SameFlags(b)

\* The effect of Return and of CloseWriteEnds on the launch that makes them and on the others.
LEMMA CloseEndsApart ==
  ASSUME IInv, NEW a \in Launches, NEW ends, ends \subseteq guard[a], CloseEnds(a, ends)
  PROVE  /\ \A b \in Launches : table'[b] = table[b] /\ cloexec'[b] = cloexec[b]
         /\ \A b \in Launches \ {a} : SameFlags(b)
<1>1. \A b \in Launches : b \in Process \ {parent}
  BY LauncherAssumption DEF Process
<1>2. /\ \A q \in Process \ {parent} : table'[q] = table[q] /\ cloexec'[q] = cloexec[q]
      /\ \A d \in Fds :
           \/ \E e \in ends : table[parent][d] = <<a, e>>
           \/ d \in cloexec'[parent] <=> d \in cloexec[parent]
  BY CloseEndsEffect DEF IInv
<1>3. \A b \in Launches \ {a} : SameFlags(b)
  <2> SUFFICES ASSUME NEW b \in Launches \ {a}, NEW e \in guard[b], p[b][e] \in cloexec[parent]
               PROVE  p[b][e] \in cloexec'[parent]
    BY DEF SameFlags
  <2>1. p[b][e] \in Fds /\ table[parent][p[b][e]] = <<b, e>>
    BY DEF IInv, HeldEnds
  <2>2. \A x : <<b, e>> # <<a, x>>
    OBVIOUS
  <2> QED
    BY <1>2, <2>1, <2>2
<1> QED
  BY <1>1, <1>2, <1>3

LEMMA ReturnApart ==
  ASSUME IInv, NEW a \in Launches, NEW r, NEW swapped, Return(a, r, swapped)
  PROVE  /\ \A b \in Launches : table'[b] = table[b] /\ cloexec'[b] = cloexec[b]
         /\ \A b \in Launches \ {a} : SameFlags(b) /\ SameParent(b)
         /\ pc'[a] = "done" /\ kind' = kind /\ binds' = binds /\ p' = p
<1>1. CloseEnds(a, guard[a] \ swapped) /\ guard[a] \ swapped \subseteq guard[a]
  BY DEF Return
<1>2. /\ pc' = [pc EXCEPT ![a] = "done"] /\ result' = [result EXCEPT ![a] = r]
      /\ guard' = [guard EXCEPT ![a] = {}] /\ UNCHANGED <<kind, binds, p>>
  BY DEF Return, Goto
<1>3. pc'[a] = "done" /\ \A b \in Launches \ {a} : SameParent(b)
  BY <1>2 DEF SameParent, IInv, TypeOK
<1> QED
  BY <1>1, <1>2, <1>3, CloseEndsApart

LEMMA OpenPipeApart ==
  ASSUME IInv, NEW a \in Launches, NEW re \in Ends, NEW we \in Ends, re # we,
         NEW next \in {"flag", "wait_flag"}, pc[a] # "done", OpenPipe(a, re, we, next), ~Fail(a)
  PROVE  /\ \A b \in Launches : SameChild(b) /\ SameFlags(b)
         /\ \A b \in Launches \ {a} : SameParent(b)
         /\ pc'[a] = next /\ kind' = kind /\ whitelist' = whitelist /\ cloexec' = cloexec
         /\ binds' = binds /\ result' = result
         /\ \A e \in Ends \ {re, we} : p'[a][e] = p[a][e]
         /\ guard'[a] = guard[a] \cup {re, we}
<1>1. Opens(a, re, we, next)
  BY OpenPipeEffect DEF IInv
<1>2. /\ UNCHANGED <<kind, binds, result, whitelist, cloexec, child, left, kept, told>>
      /\ \A q \in Process \ {parent} : table'[q] = table[q]
      /\ \A b \in Launches \ {a} : pc'[b] = pc[b] /\ guard'[b] = guard[b] /\ p'[b] = p[b]
      /\ pc'[a] = next /\ guard'[a] = guard[a] \cup {re, we}
      /\ \A e \in Ends \ {re, we} : p'[a][e] = p[a][e]
  BY <1>1 DEF Opens, childVars
<1>3. \A b \in Launches : b \in Process \ {parent}
  BY LauncherAssumption DEF Process
<1> QED
  BY <1>2, <1>3 DEF SameChild, SameFlags, SameParent

LEMMA OthersUndisturbed ==
  ASSUME IInv, NEW a \in Launches, Does(a), NEW b \in Launches \ {a}
  PROVE  Undisturbed(b)
<1>0. b \in Process \ {parent} /\ a # parent /\ b \in Process \ {a}
  BY LauncherAssumption DEF Process
<1>1. CASE Launch(a)
  BY <1>1 DEF Launch, Goto, childVars, fdVars, Undisturbed, SameChild, SameParent, SameFlags, IInv, TypeOK
<1>2. CASE OpenErrorPipe(a) \/ OpenWaitPipe(a)
  <2>1. PICK re \in Ends, we \in Ends, next \in {"flag", "wait_flag"} :
          re # we /\ pc[a] # "done" /\ OpenPipe(a, re, we, next)
    BY <1>2 DEF OpenErrorPipe, OpenWaitPipe, Ends
  <2>2. CASE Fail(a) /\ UNCHANGED <<whitelist, childVars>>
    BY <2>2, ReturnApart DEF Fail, childVars, Undisturbed, SameChild
  <2>3. CASE ~Fail(a)
    BY <2>1, <2>3, OpenPipeApart DEF Undisturbed
  <2> QED
    BY <2>1, <2>2, <2>3 DEF OpenPipe
<1>3. CASE FlagErrorPipe(a) \/ FlagWaitPipe(a)
  <2>1. PICK we \in Ends, next \in {"wait_pipe", "setup"} : SetCloexec(a, we, next)
    BY <1>3 DEF FlagErrorPipe, FlagWaitPipe, Ends
  <2>2. /\ cloexec' = [cloexec EXCEPT ![parent] = cloexec[parent] \cup {p[a][we]}]
        /\ pc' = [pc EXCEPT ![a] = next]
        /\ UNCHANGED <<kind, binds, p, guard, result, table, child, left, kept, told>>
    BY <2>1 DEF SetCloexec, Goto, childVars
  <2>3. cloexec'[b] = cloexec[b] /\ cloexec[parent] \subseteq cloexec'[parent] /\ pc'[b] = pc[b]
    BY <1>0, <2>2 DEF IInv, TypeOK, Process
  <2> QED
    BY <2>2, <2>3 DEF Undisturbed, SameChild, SameParent, SameFlags
<1>4. CASE Setup(a)
  <2>1. CASE Fail(a) /\ UNCHANGED childVars
    BY <2>1, ReturnApart DEF Fail, childVars, Undisturbed, SameChild
  <2>2. CASE Goto(a, "fork") /\ UNCHANGED <<kind, binds, p, guard, result, table, cloexec, childVars>>
    BY <2>2 DEF Goto, childVars, Undisturbed, SameChild, SameParent, SameFlags, IInv, TypeOK
  <2> QED
    BY <1>4, <2>1, <2>2 DEF Setup
<1>5. CASE Fork(a)
  <2>1. CASE Fail(a) /\ UNCHANGED childVars
    BY <2>1, ReturnApart DEF Fail, childVars, Undisturbed, SameChild
  <2>2. CASE /\ Forks(a) /\ UNCHANGED <<kind, binds, p, guard>>
             /\ \E next : Goto(a, next)
             /\ result' = [result EXCEPT ![a] = "ok"] \/ result' = result
    <3>1. SameChild(b) /\ cloexec'[parent] = cloexec[parent]
      BY <1>0, <2>2, ForksEffect DEF SameChild, IInv, Process
    <3>2. SameParent(b)
      BY <2>2 DEF Goto, SameParent, IInv, TypeOK
    <3> QED
      BY <3>1, <3>2 DEF Undisturbed, SameFlags
  <2> QED
    BY <1>5, <2>1, <2>2 DEF Fork
<1>6. CASE CloseWriteEnds(a)
  <2>1. CloseEnds(a, guard[a] \cap {"ew", "ww"}) /\ guard[a] \cap {"ew", "ww"} \subseteq guard[a]
    BY <1>6 DEF CloseWriteEnds
  <2>2. /\ guard' = [guard EXCEPT ![a] = guard[a] \ (guard[a] \cap {"ew", "ww"})]
        /\ pc' = [pc EXCEPT ![a] = "read"]
        /\ UNCHANGED <<kind, binds, p, result, child, left, kept, told>>
    BY <1>6 DEF CloseWriteEnds, Goto, childVars
  <2>3. SameParent(b)
    BY <2>2 DEF SameParent, IInv, TypeOK
  <2> QED
    BY <2>1, <2>2, <2>3, CloseEndsApart DEF Undisturbed, SameChild
<1>7. CASE ReadErrno(a) \/ VforkReturns(a)
  <2>1. Answer(a) /\ UNCHANGED childVars
    BY <1>7 DEF ReadErrno, VforkReturns
  <2>2. CASE Goto(a, "reap") /\ UNCHANGED <<kind, binds, p, guard, result, table, cloexec>>
    BY <2>1, <2>2 DEF Goto, childVars, Undisturbed, SameChild, SameParent, SameFlags, IInv, TypeOK
  <2>3. CASE Fail(a) \/ Succeed(a)
    BY <2>1, <2>3, ReturnApart DEF Fail, Succeed, childVars, Undisturbed, SameChild
  <2> QED
    BY <2>1, <2>2, <2>3 DEF Answer
<1>8. CASE ReapFailed(a)
  <2>1. Return(a, "error", {}) /\ child'[b] = child[b] /\ UNCHANGED <<left, kept, told>>
    BY <1>8 DEF ReapFailed, Fail, IInv, TypeOK
  <2> QED
    BY <2>1, ReturnApart DEF Undisturbed, SameChild
<1>9. CASE ChildDoes(a)
  <2>1. OnlyChild(a)
    BY <1>9, ChildEffect DEF IInv
  <2>2. cloexec'[parent] = cloexec[parent] /\ table'[b] = table[b] /\ cloexec'[b] = cloexec[b]
    BY <1>0, <2>1 DEF OnlyChild, Process
  <2> QED
    BY <2>1, <2>2 DEF OnlyChild, parentVars, Undisturbed, SameChild, SameParent, SameFlags
<1> QED
  BY <1>1, <1>2, <1>3, <1>4, <1>5, <1>6, <1>7, <1>8, <1>9 DEF Does

\* The whitelist of a launcher is changed by the launches that use it, and only when they set
\* up a child and when a child of vfork_launcher closes its descriptors.
LEMMA WhitelistStep ==
  ASSUME IInv, NEW a \in Launches, Does(a)
  PROVE  \/ whitelist' = whitelist
         \/ /\ pc[a] = "setup" \/ (Kind(a) = "vfork" /\ child[a] = "setup")
            /\ \A b \in Launches : Uses[b] # Uses[a] => whitelist'[Uses[b]] = whitelist[Uses[b]]
<1>0. \A b \in Launches : Uses[b] \in Launchers
  BY KindType DEF IInv
<1>1. CASE Launch(a) \/ FlagErrorPipe(a) \/ FlagWaitPipe(a)
  BY <1>1 DEF Launch, FlagErrorPipe, FlagWaitPipe, SetCloexec, fdVars
<1>2. CASE OpenErrorPipe(a) \/ OpenWaitPipe(a)
  <2>1. PICK re, we, next : OpenPipe(a, re, we, next)
    BY <1>2 DEF OpenErrorPipe, OpenWaitPipe
  <2> QED
    BY <2>1 DEF OpenPipe
<1>3. CASE Setup(a)
  <2>1. PICK s : pc[a] = "setup" /\ whitelist' = [whitelist EXCEPT ![Uses[a]] = s]
    BY <1>3 DEF Setup
  <2> QED
    BY <1>0, <2>1 DEF IInv, TypeOK
<1>4. CASE Fork(a) \/ CloseWriteEnds(a) \/ ReadErrno(a) \/ VforkReturns(a) \/ ReapFailed(a)
  BY <1>4 DEF Fork, CloseWriteEnds, ReadErrno, VforkReturns, ReapFailed
<1>5. CASE ChildDoes(a)
  <2>1. CASE CloseAll(a) /\ Kind(a) = "vfork"
    <3>1. whitelist' = [whitelist EXCEPT ![Uses[a]] = StdFds] /\ child[a] = "setup"
      BY <2>1 DEF CloseAll
    <3> QED
      BY <1>0, <2>1, <3>1 DEF IInv, TypeOK
  <2>2. CASE ~(CloseAll(a) /\ Kind(a) = "vfork")
    BY <1>5, <2>2 DEF ChildDoes, CloseAll, Dup2, ExecSetupFails, Exec, ChildExits
  <2> QED
    BY <2>1, <2>2
<1> QED
  BY <1>1, <1>2, <1>3, <1>4, <1>5 DEF Does

LEMMA UserOpensUndisturbed ==
  ASSUME IInv, UserOpens
  PROVE  whitelist' = whitelist /\ \A b \in Launches : Undisturbed(b)
<1>1. \A b \in Launches : b \in Process \ {parent}
  BY LauncherAssumption DEF Process
<1> QED
  BY <1>1, UserOpensEffect DEF IInv, Undisturbed, SameChild, SameParent, SameFlags

LEMMA StutterUndisturbed ==
  ASSUME UNCHANGED vars
  PROVE  whitelist' = whitelist /\ \A b \in Launches : Undisturbed(b)
BY DEF vars, parentVars, childVars, fdVars, Undisturbed, SameChild, SameParent, SameFlags

-------------------------------------------------------------------------------
(***************************************************************************)
(* The second invariant is kept.                                           *)
(***************************************************************************)
LEMMA GivenUndisturbed ==
  ASSUME IInv, NEW b \in Launches, Given(b), Undisturbed(b), whitelist'[Uses[b]] = whitelist[Uses[b]]
  PROVE  Given(b)'
<1>1. /\ SameChild(b) /\ SameParent(b) /\ SameFlags(b)
      /\ Applied(b)' = Applied(b) /\ Allowed(b)' = Allowed(b) /\ WriteEnds(b)' = WriteEnds(b)
      /\ \A d \in Fds : IsOpen(b, d)' <=> IsOpen(b, d)
  BY DEF Undisturbed, SameChild, SameParent, Applied, Allowed, WriteEnds, Targets, IsOpen
<1>2. Remaining(b)'
  BY <1>1 DEF Given, Remaining, SameChild, SameParent
<1>3. Flags(b)'
  BY <1>1 DEF Given, Flags, SameParent, SameFlags
<1> QED
  BY <1>1, <1>2, <1>3 DEF Given, SameChild, SameParent, Before

\* A launch that is past its fork, or never gets there, has nothing to keep but its child.
LEMMA GivenPast ==
  ASSUME IInv, NEW a \in Launches, Given(a),
         child'[a] \in {child[a], "reaped"}, pc'[a] \notin Before,
         binds'[a] = binds[a], left'[a] = left[a], kept'[a] = kept[a],
         table'[a] = table[a], cloexec'[a] = cloexec[a]
  PROVE  Given(a)'
<1>1. /\ Applied(a)' = Applied(a) /\ Allowed(a)' = Allowed(a)
      /\ \A d \in Fds : IsOpen(a, d)' <=> IsOpen(a, d)
  BY DEF Applied, Allowed, Targets, IsOpen
<1>2. Remaining(a)'
  BY <1>1 DEF Given, Remaining
<1>3. Flags(a)'
  BY DEF Flags, Before
<1> QED
  BY <1>1, <1>2, <1>3 DEF Given, Before

LEMMA GivenReturn ==
  ASSUME IInv, NEW a \in Launches, Given(a), NEW r, NEW swapped, Return(a, r, swapped),
         child'[a] \in {child[a], "reaped"}, left'[a] = left[a], kept'[a] = kept[a]
  PROVE  Given(a)'
<1>1. pc'[a] \notin Before /\ binds'[a] = binds[a] /\ table'[a] = table[a] /\ cloexec'[a] = cloexec[a]
  BY ReturnApart DEF Before
<1> QED
  BY <1>1, GivenPast

\* Before its fork a launch has no child.
LEMMA GivenBefore ==
  ASSUME IInv, NEW a \in Launches, pc'[a] \in Before, child'[a] = "none", Flags(a)',
         pc'[a] \in Before \ {"fork"} => (whitelist[Uses[a]] \subseteq StdFds)',
         pc'[a] = "fork" => (whitelist[Uses[a]] \subseteq Allowed(a) \cup WriteEnds(a))'
  PROVE  Given(a)'
BY DEF Given, Remaining

LEMMA GivenOpen ==
  ASSUME IInv, NEW a \in Launches, Given(a), OpenErrorPipe(a) \/ OpenWaitPipe(a)
  PROVE  Given(a)'
<1>1. PICK re \in Ends, we \in Ends, next \in {"flag", "wait_flag"} :
        /\ re # we /\ OpenPipe(a, re, we, next)
        /\ \/ pc[a] = "pipe" /\ next = "flag"
           \/ pc[a] = "wait_pipe" /\ next = "wait_flag" /\ re = "wr" /\ we = "ww"
  BY DEF OpenErrorPipe, OpenWaitPipe, Ends
<1>2. CASE Fail(a) /\ UNCHANGED <<whitelist, childVars>>
  BY <1>2, GivenReturn DEF Fail, childVars
<1>3. CASE ~Fail(a)
  <2>1. pc[a] # "done"
    BY <1>1
  <2>2. /\ SameChild(a) /\ pc'[a] = next /\ whitelist' = whitelist /\ cloexec' = cloexec
        /\ \A e \in Ends \ {re, we} : p'[a][e] = p[a][e]
    BY <1>1, <1>3, <2>1, OpenPipeApart
  <2>3. child'[a] = "none" /\ whitelist[Uses[a]] \subseteq StdFds
    BY <1>1, <2>2 DEF SameChild, IInv, Stage, Before, Given
  <2>4. Flags(a)'
    <3>1. CASE next = "flag"
      BY <2>2, <3>1 DEF Flags
    <3>2. CASE pc[a] = "wait_pipe" /\ next = "wait_flag" /\ re = "wr" /\ we = "ww"
      <4>1. "ew" \in guard[a] /\ "ew" \in Ends \ {re, we}
        BY <3>2 DEF IInv, GuardStage, Ends
      <4>2. p[a]["ew"] \in cloexec[parent]
        BY <3>2, <4>1 DEF Given, Flags
      <4> QED
        BY <2>2, <3>2, <4>1, <4>2 DEF Flags
    <3> QED
      BY <1>1, <3>1, <3>2
  <2> QED
    BY <2>2, <2>3, <2>4, GivenBefore DEF Before
<1> QED
  BY <1>1, <1>2, <1>3 DEF OpenPipe

LEMMA GivenFlag ==
  ASSUME IInv, NEW a \in Launches, Given(a), FlagErrorPipe(a) \/ FlagWaitPipe(a)
  PROVE  Given(a)'
<1>1. PICK we \in Ends, next \in {"wait_pipe", "setup"} :
        /\ SetCloexec(a, we, next)
        /\ \/ pc[a] = "flag" /\ we = "ew"
           \/ pc[a] = "wait_flag" /\ we = "ww" /\ next = "setup"
  BY DEF FlagErrorPipe, FlagWaitPipe, Ends
<1>2. /\ cloexec' = [cloexec EXCEPT ![parent] = cloexec[parent] \cup {p[a][we]}]
      /\ pc' = [pc EXCEPT ![a] = next]
      /\ UNCHANGED <<kind, binds, p, guard, result, whitelist, table, child, left, kept, told>>
  BY <1>1 DEF SetCloexec, Goto, childVars
<1>3. cloexec'[parent] = cloexec[parent] \cup {p[a][we]} /\ pc'[a] = next
  BY <1>2 DEF IInv, TypeOK, Process
<1>4. child'[a] = "none" /\ whitelist[Uses[a]] \subseteq StdFds
  BY <1>1, <1>2 DEF IInv, Stage, Before, Given
<1>5. Flags(a)'
  <2>1. CASE pc[a] = "flag" /\ we = "ew"
    <3>1. "ww" \notin guard[a]
      BY <2>1 DEF IInv, GuardStage
    <3> QED
      BY <1>2, <1>3, <2>1, <3>1 DEF Flags
  <2>2. CASE pc[a] = "wait_flag" /\ we = "ww" /\ next = "setup"
    BY <1>2, <1>3, <2>2 DEF Flags, Given
  <2> QED
    BY <1>1, <2>1, <2>2
<1> QED
  BY <1>2, <1>3, <1>4, <1>5, GivenBefore DEF Before

LEMMA PushedTargets ==
  ASSUME TypeOK, NEW a \in Launches
  PROVE  /\ Pushed(a, Len(binds[a])) = Targets(binds[a])
         /\ DOMAIN binds[a] = 1..Len(binds[a]) /\ Len(binds[a]) \in Nat
<1>1. DOMAIN binds[a] = 1..Len(binds[a]) /\ Len(binds[a]) \in Nat
  BY BindsType, LenProperties
<1> QED
  BY <1>1 DEF Pushed, Targets

LEMMA GivenSetup ==
  ASSUME IInv, NEW a \in Launches, Given(a), Setup(a)
  PROVE  Given(a)'
<1>1. CASE Fail(a) /\ UNCHANGED childVars
  BY <1>1, GivenReturn DEF Fail, childVars
<1>2. CASE /\ whitelist' = [whitelist EXCEPT ![Uses[a]] =
                              (whitelist[Uses[a]] \cup Pushed(a, Len(binds[a]))) \cup WriteEnds(a)]
           /\ Goto(a, "fork") /\ UNCHANGED <<kind, binds, p, guard, result, table, cloexec, childVars>>
  <2>1. whitelist'[Uses[a]] = (whitelist[Uses[a]] \cup Targets(binds[a])) \cup WriteEnds(a)
    BY <1>2, KindType, PushedTargets DEF IInv, TypeOK
  <2>2. pc[a] = "setup" /\ pc'[a] = "fork" /\ UNCHANGED <<child, binds, p, guard, cloexec>>
    BY <1>2 DEF Setup, Goto, childVars, IInv, TypeOK
  <2>3. whitelist[Uses[a]] \subseteq StdFds
    BY <2>2 DEF Given, Before
  <2>4. Allowed(a)' = Allowed(a) /\ WriteEnds(a)' = WriteEnds(a)
    BY <2>2 DEF Allowed, WriteEnds, Targets
  <2>5. Flags(a)'
    BY <2>2 DEF Given, Flags
  <2>6. child'[a] = "none"
    BY <2>2 DEF IInv, Stage, Before
  <2>7. (whitelist[Uses[a]] \subseteq Allowed(a) \cup WriteEnds(a))'
    BY <2>1, <2>3, <2>4 DEF Allowed
  <2> QED
    BY <2>2, <2>5, <2>6, <2>7, GivenBefore DEF Before
<1> QED
  BY <1>1, <1>2 DEF Setup

LEMMA GivenFork ==
  ASSUME IInv, NEW a \in Launches, Given(a), Fork(a)
  PROVE  Given(a)'
<1>1. CASE Fail(a) /\ UNCHANGED childVars
  BY <1>1, GivenReturn DEF Fail, childVars
<1>2. CASE /\ Forks(a) /\ UNCHANGED <<kind, binds, p, guard, whitelist>>
           /\ \E next \in {"done", "vfork", "close"} : Goto(a, next)
  <2>1. /\ child'[a] = "setup" /\ left'[a] = binds[a] /\ kept'[a] = whitelist[Uses[a]]
        /\ cloexec'[a] = cloexec[parent]
    BY <1>2, ForksEffect DEF IInv
  <2>2. pc[a] = "fork" /\ pc'[a] \notin Before
    BY <1>2 DEF Fork, Goto, Before, IInv, TypeOK
  <2>3. WriteEnds(a) \subseteq cloexec[parent]
    <3> SUFFICES ASSUME NEW e \in {"ew", "ww"}, p[a][e] # -1 PROVE p[a][e] \in cloexec[parent]
      BY DEF WriteEnds
    <3>1. e \in guard[a]
      BY <2>2 DEF IInv, GuardStage, Before, Ends
    <3> QED
      BY <2>2, <3>1 DEF Given, Flags
  <2>4. Allowed(a)' = Allowed(a)
    BY <1>2 DEF Allowed
  <2>5. (kept[a] \subseteq Allowed(a) \cup cloexec[a])'
    BY <2>1, <2>2, <2>3, <2>4 DEF Given
  <2>6. Remaining(a)'
    <3>1. Len(binds[a]) \in Nat
      BY PushedTargets DEF IInv
    <3>2. left'[a] = binds'[a] /\ binds'[a] = binds[a]
      BY <1>2, <2>1
    <3>3. Applied(a)' = 0
      BY <3>1, <3>2 DEF Applied
    <3> QED
      BY <3>1, <3>2, <3>3 DEF Remaining
  <2>7. Flags(a)'
    BY <2>2 DEF Flags, Before
  <2> QED
    BY <2>1, <2>2, <2>5, <2>6, <2>7 DEF Given, Before
<1> QED
  BY <1>1, <1>2 DEF Fork

LEMMA GivenAfter ==
  ASSUME IInv, NEW a \in Launches, Given(a),
         CloseWriteEnds(a) \/ ReadErrno(a) \/ VforkReturns(a) \/ ReapFailed(a)
  PROVE  Given(a)'
<1>1. CASE CloseWriteEnds(a)
  <2>1. CloseEnds(a, guard[a] \cap {"ew", "ww"}) /\ guard[a] \cap {"ew", "ww"} \subseteq guard[a]
    BY <1>1 DEF CloseWriteEnds
  <2>2. pc'[a] = "read" /\ UNCHANGED <<binds, child, left, kept>>
    BY <1>1 DEF CloseWriteEnds, Goto, childVars, IInv, TypeOK
  <2> QED
    BY <2>1, <2>2, CloseEndsApart, GivenPast DEF Before
<1>2. CASE ReadErrno(a) \/ VforkReturns(a)
  <2>1. Answer(a) /\ UNCHANGED <<child, left, kept>>
    BY <1>2 DEF ReadErrno, VforkReturns, childVars
  <2>2. CASE Goto(a, "reap") /\ UNCHANGED <<kind, binds, p, guard, result, table, cloexec>>
    <3>1. pc'[a] = "reap"
      BY <2>2 DEF Goto, IInv, TypeOK
    <3> QED
      BY <2>1, <2>2, <3>1, GivenPast DEF Before
  <2>3. CASE Fail(a) \/ Succeed(a)
    BY <2>1, <2>3, GivenReturn DEF Fail, Succeed
  <2> QED
    BY <2>1, <2>2, <2>3 DEF Answer
<1>3. CASE ReapFailed(a)
  <2>1. Return(a, "error", {}) /\ child'[a] = "reaped" /\ UNCHANGED <<left, kept>>
    BY <1>3 DEF ReapFailed, Fail, IInv, TypeOK
  <2> QED
    BY <2>1, GivenReturn
<1> QED
  BY <1>1, <1>2, <1>3

\* The next of the bindings: its target is one of the targets.
LEMMA NextBinding ==
  ASSUME IInv, NEW a \in Launches, Remaining(a), child[a] = "setup", left[a] # <<>>
  PROVE  /\ Applied(a) + 1 \in DOMAIN binds[a] /\ Applied(a) \in Nat
         /\ Head(left[a]) = binds[a][Applied(a) + 1]
         /\ Head(left[a]) \in [target : Fds, fd : Fds]
         /\ Len(Tail(left[a])) = Len(left[a]) - 1
         /\ \A i \in 1..Len(Tail(left[a])) : Tail(left[a])[i] = binds[a][(Applied(a) + 1) + i]
<1>1. left[a] \in Seq([target : Fds, fd : Fds]) /\ left[a] # <<>>
  BY DEF IInv, TypeOK
<1>2. /\ Head(left[a]) \in [target : Fds, fd : Fds]
      /\ Len(Tail(left[a])) = Len(left[a]) - 1
      /\ \A i \in 1..Len(Tail(left[a])) : Tail(left[a])[i] = left[a][i + 1]
  BY <1>1, HeadTailProperties
<1>3. Len(left[a]) \in Nat /\ Len(left[a]) >= 1
  BY <1>1, EmptySeq
<1>4. DOMAIN binds[a] = 1..Len(binds[a]) /\ Len(binds[a]) \in Nat
  BY PushedTargets DEF IInv
<1>5. Len(left[a]) <= Len(binds[a]) /\ \A i \in 1..Len(left[a]) : left[a][i] = binds[a][Applied(a) + i]
  BY DEF Remaining
<1>6. Applied(a) \in Nat /\ Applied(a) + 1 \in DOMAIN binds[a]
  <2>1. \A m, n \in Nat : n >= 1 /\ n <= m => m - n \in Nat /\ (m - n) + 1 \in 1..m
    OBVIOUS
  <2> QED
    BY <1>3, <1>4, <1>5, <2>1 DEF Applied
<1>7. Head(left[a]) = binds[a][Applied(a) + 1]
  <2>1. Head(left[a]) = left[a][1]
    OBVIOUS
  <2>2. 1 \in 1..Len(left[a])
    BY <1>3
  <2> QED
    BY <1>5, <2>1, <2>2
<1>8. \A i \in 1..Len(Tail(left[a])) : Tail(left[a])[i] = binds[a][(Applied(a) + 1) + i]
  <2> SUFFICES ASSUME NEW i \in 1..Len(Tail(left[a])) PROVE left[a][i + 1] = binds[a][(Applied(a) + 1) + i]
    BY <1>2
  <2>1. i + 1 \in 1..Len(left[a]) /\ Applied(a) + (i + 1) = (Applied(a) + 1) + i
    <3>1. \A n, k, j \in Nat : j \in 1..(n - 1) => j + 1 \in 1..n /\ k + (j + 1) = (k + 1) + j
      OBVIOUS
    <3>2. i \in 1..(Len(left[a]) - 1) /\ i \in Nat
      BY <1>2
    <3> QED
      BY <1>3, <1>6, <3>1, <3>2
  <2> QED
    BY <1>5, <2>1
<1> QED
  BY <1>2, <1>6, <1>7, <1>8

LEMMA RemainingDup2 ==
  ASSUME IInv, NEW a \in Launches, Remaining(a), child[a] = "setup", left[a] # <<>>,
         left' = [left EXCEPT ![a] = Tail(left[a])], UNCHANGED <<child, binds>>
  PROVE  Remaining(a)' /\ Applied(a)' = Applied(a) + 1
<1>1. /\ Len(Tail(left[a])) = Len(left[a]) - 1
      /\ \A i \in 1..Len(Tail(left[a])) : Tail(left[a])[i] = binds[a][(Applied(a) + 1) + i]
      /\ Applied(a) + 1 \in 1..Len(binds[a])
  BY NextBinding, PushedTargets DEF IInv
<1>2. Len(left[a]) \in Nat /\ Len(binds[a]) \in Nat /\ Len(left[a]) >= 1 /\ Len(left[a]) <= Len(binds[a])
  <2>1. left[a] \in Seq([target : Fds, fd : Fds])
    BY DEF IInv, TypeOK
  <2> QED
    BY <2>1, EmptySeq, PushedTargets DEF IInv, Remaining
<1>3. left'[a] = Tail(left[a])
  BY DEF IInv, TypeOK
<1>4. Applied(a)' = Applied(a) + 1 /\ Len(left'[a]) <= Len(binds[a])
  <2>1. \A m, n \in Nat : n <= m => m - (n - 1) = (m - n) + 1 /\ n - 1 <= m
    OBVIOUS
  <2>2. Len(left'[a]) = Len(left[a]) - 1 /\ binds' = binds
    BY <1>1, <1>3
  <2> QED
    BY <1>2, <2>1, <2>2 DEF Applied
<1> QED
  BY <1>1, <1>3, <1>4 DEF Remaining

LEMMA GivenChild ==
  ASSUME IInv, NEW a \in Launches, Given(a), ChildDoes(a)
  PROVE  Given(a)'
<1>0. a \in Process /\ pc[a] \notin Before
  BY ChildEffect DEF Process, IInv, Stage
<1>1. UNCHANGED <<kind, binds, pc, p, guard>> /\ Allowed(a)' = Allowed(a) /\ pc'[a] \notin Before
  BY <1>0, ChildEffect DEF OnlyChild, parentVars, Allowed, IInv
<1>2. Flags(a)'
  BY <1>1 DEF Flags, Before
<1>3. ASSUME child'[a] \notin {"setup", "exec", "running"} PROVE Given(a)'
  BY <1>1, <1>2, <1>3 DEF Given, Remaining, Before
<1>4. CASE Dup2(a) /\ ~ChildFails(a, "E")
  <2> DEFINE b == Head(left[a])
  <2>1. /\ child[a] = "setup" /\ left[a] # <<>> /\ Duplicate(a, b)
        /\ left' = [left EXCEPT ![a] = Tail(left[a])] /\ UNCHANGED <<child, kept>>
    BY <1>4 DEF Dup2
  <2>2. b.target \in Targets(binds[a])
    BY <2>1, NextBinding DEF Given, Targets
  <2>3. cloexec[a] \subseteq cloexec'[a] \cup {b.target}
    BY <1>0, <2>1 DEF Duplicate, IInv, TypeOK
  <2>4. Remaining(a)'
    BY <1>1, <2>1, RemainingDup2 DEF Given
  <2>5. (kept[a] \subseteq Allowed(a) \cup cloexec[a])'
    BY <1>1, <2>1, <2>2, <2>3 DEF Given, Allowed
  <2> QED
    BY <1>1, <1>2, <2>1, <2>4, <2>5 DEF Given, Before
<1>5. CASE CloseAll(a)
  <2>1. /\ child[a] = "setup" /\ child'[a] = "exec" /\ kept'[a] = kept[a] /\ cloexec'[a] = cloexec[a]
        /\ table'[a] = [d \in Fds |-> IF d \in kept[a] THEN table[a][d] ELSE Closed]
    BY <1>0, <1>5 DEF CloseAll, IInv, TypeOK
  <2>2. \A d \in Fds : IsOpen(a, d)' => d \in kept'[a]
    BY <2>1 DEF IsOpen
  <2>3. (kept[a] \subseteq Allowed(a) \cup cloexec[a])'
    BY <1>1, <2>1 DEF Given
  <2> QED
    BY <1>1, <1>2, <2>1, <2>2, <2>3 DEF Given, Remaining, Before
<1>6. CASE Exec(a) /\ ~ChildFails(a, "E")
  <2>1. /\ child[a] = "exec" /\ child'[a] = "running"
        /\ table'[a] = [d \in Fds |-> IF d \in cloexec[a] THEN Closed ELSE table[a][d]]
    BY <1>0, <1>6 DEF Exec, IInv, TypeOK
  <2>2. ASSUME NEW d \in Fds, IsOpen(a, d)' PROVE d \in Allowed(a)'
    <3>1. IsOpen(a, d) /\ d \notin cloexec[a]
      BY <2>1, <2>2 DEF IsOpen
    <3>2. d \in kept[a] /\ kept[a] \subseteq Allowed(a) \cup cloexec[a]
      BY <2>1, <3>1 DEF Given
    <3> QED
      BY <1>1, <3>1, <3>2
  <2> QED
    BY <1>1, <1>2, <2>1, <2>2 DEF Given, Remaining, Before
<1>7. CASE ExecSetupFails(a) \/ ChildFails(a, "E") \/ ChildExits(a)
  <2>1. child'[a] \in {"exiting", "zombie", "exited"}
    BY <1>7 DEF ExecSetupFails, ChildFails, ChildExits, IInv, TypeOK
  <2> QED
    BY <1>3, <2>1
<1> QED
  BY <1>4, <1>5, <1>6, <1>7 DEF ChildDoes

LEMMA GivenLaunch ==
  ASSUME IInv, NEW a \in Launches, Given(a), Launch(a)
  PROVE  Given(a)'
<1>1. /\ pc[a] = "idle" /\ pc'[a] \in {"pipe", "setup"}
      /\ UNCHANGED <<guard, child, whitelist>>
  BY DEF Launch, Goto, childVars, fdVars, IInv, TypeOK
<1>2. child'[a] = "none" /\ guard'[a] = {} /\ whitelist[Uses[a]] \subseteq StdFds
  BY <1>1 DEF IInv, Stage, GuardStage, Given, Before
<1>3. Flags(a)'
  BY <1>2 DEF Flags
<1> QED
  BY <1>1, <1>2, <1>3, GivenBefore DEF Before

LEMMA GInvStep ==
  ASSUME OwnLauncher, IInv, GInv, [Next]_vars
  PROVE  GInv'
<1>1. ASSUME NEW a \in Launches, Does(a) PROVE GInv'
  <2>1. Given(a)'
    <3>1. Given(a)
      BY DEF GInv
    <3> QED
      BY <1>1, <3>1, GivenLaunch, GivenOpen, GivenFlag, GivenSetup, GivenFork, GivenAfter, GivenChild
         DEF Does
  <2>2. ASSUME NEW b \in Launches \ {a} PROVE Given(b)'
    <3>1. Uses[b] # Uses[a]
      BY DEF OwnLauncher
    <3>2. whitelist'[Uses[b]] = whitelist[Uses[b]]
      BY <1>1, <3>1, WhitelistStep
    <3> QED
      BY <1>1, <3>2, OthersUndisturbed, GivenUndisturbed DEF GInv
  <2> QED
    BY <2>1, <2>2 DEF GInv
<1>2. CASE UserOpens
  BY <1>2, UserOpensUndisturbed, GivenUndisturbed DEF GInv
<1>3. CASE UNCHANGED vars
  BY <1>3, StutterUndisturbed, GivenUndisturbed DEF GInv
<1> QED
  BY <1>1, <1>2, <1>3, NextCases DEF Does

LEMMA GInvInit == Init => GInv
<1> SUFFICES ASSUME Init, NEW a \in Launches PROVE Given(a)
  BY DEF GInv
<1>1. Uses[a] \in Launchers
  BY LauncherAssumption
<1> QED
  BY <1>1 DEF Init, Given, Remaining, Flags, Before

(***************************************************************************)
(* OnlyWhitelisted: a program finds open only the standard descriptors and *)
(* the targets of its launch, though all threads of the parent share one   *)
(* table and a fork copies whatever is open at that moment (fd_whitelist,  *)
(* close_all and FD_CLOEXEC together).  It takes a launcher of its own for *)
(* each launch: a whitelist keeps what earlier launches put there.         *)
(***************************************************************************)
THEOREM OnlyWhitelistedHolds ==
  ASSUME OwnLauncher
  PROVE  Spec => []OnlyWhitelisted
<1>1. Init => GInv
  BY GInvInit
<1>2. IInv /\ GInv /\ [Next]_vars => GInv'
  BY GInvStep
<1>3. GInv => OnlyWhitelisted
  BY DEF GInv, Given, Allowed, OnlyWhitelisted
<1> QED
  BY <1>1, <1>2, <1>3, Invariance, PTL DEF Spec

-------------------------------------------------------------------------------
(***************************************************************************)
(* The third invariant: a child can tell its parent that it failed, and    *)
(* finds the files it is to bind, until it runs its program.               *)
(***************************************************************************)
\* The bindings a launch is given are of files that are open from the start, and none
\* overwrites what a later one needs or what an earlier one has bound; dup2 of a descriptor
\* to itself leaves its flag, so such a descriptor is to be inherited anyway.  A target that
\* is free in the parent could be the number of the launch's own error pipe.
BindingsApart ==
  \A s \in Bindings :
    /\ \A i \in DOMAIN s : Opened[s[i].target] # Closed /\ Opened[s[i].fd] # Closed
    /\ \A i \in DOMAIN s : s[i].target = s[i].fd => s[i].fd \notin Flagged
    /\ \A i, j \in DOMAIN s : i < j => s[i].target \notin {s[j].fd, s[j].target}

\* An initializer that fails leaves the errno of its failure.
ErrnoSet == Errnos \subseteq {"E"}

Exclusive ==
  \A a, b \in Launches : a # b /\ Uses[a] = Uses[b] =>
    pc[a] \in {"idle", "done"} \/ pc[b] \in {"idle", "done"}

OpenedStay ==
  \A d \in Fds : Opened[d] # Closed =>
    table[parent][d] = Opened[d] /\ (d \in cloexec[parent] => d \in Flagged)

PipesApart(a) == \A e \in Ends : p[a][e] \in Fds => Opened[p[a][e]] = Closed

Bound(a, i)   == table[a][binds[a][i].target] = Opened[binds[a][i].fd]
Unbound(a, i) == table[a][binds[a][i].fd] = Opened[binds[a][i].fd]
Stays(a, i)   == binds[a][i].target \notin cloexec[a]

Binding(a) ==
  /\ child[a] = "setup" =>
       /\ \A i \in 1..Applied(a) : Bound(a, i) /\ Stays(a, i)
       /\ \A i \in (Applied(a) + 1)..Len(binds[a]) :
            Unbound(a, i) /\ (binds[a][i].fd = binds[a][i].target => Stays(a, i))
  /\ child[a] = "exec" => \A i \in DOMAIN binds[a] : Bound(a, i) /\ Stays(a, i)
  /\ child[a] = "running" => \A i \in DOMAIN binds[a] : Bound(a, i)

CanTell(a) ==
  child[a] \in {"setup", "exec"} /\ ErrorPipe(a) =>
    p[a]["ew"] \in Fds /\ table[a][p[a]["ew"]] = <<a, "ew">>

Needed(a) == Targets(binds[a]) \cup (IF ErrorPipe(a) THEN {p[a]["ew"]} ELSE {})

Told(a) ==
  /\ told[a] # "0"
  /\ Kind(a) = "vfork" /\ child[a] \in {"setup", "exec"} => pc[a] = "vfork"
  /\ child[a] \in {"exiting", "zombie", "reaped"} /\ Kind(a) # "fork_and_forget" => told[a] = "E"
  /\ Started(a) => told[a] = "nothing"
  /\ result[a] = "ok" /\ Kind(a) # "fork_and_forget" => Started(a)
  /\ result[a] = "error" => child[a] \notin {"setup", "exec", "running", "exited"}

Truthful(a) ==
  /\ Remaining(a) /\ PipesApart(a) /\ Binding(a) /\ CanTell(a) /\ Told(a)
  /\ pc[a] = "fork" => Needed(a) \subseteq whitelist[Uses[a]]
  /\ child[a] = "setup" => Needed(a) \subseteq kept[a]

TInv == Exclusive /\ OpenedStay /\ \A a \in Launches : Truthful(a)

-------------------------------------------------------------------------------
(***************************************************************************)
(* The third invariant is kept.  First what all launches share: a launcher *)
(* has one launch at a time, and the files that are open from the start    *)
(* stay as they are.                                                       *)
(***************************************************************************)
LEMMA ExclusiveStep ==
  ASSUME IInv, Exclusive, NEW a \in Launches, Does(a)
  PROVE  Exclusive'
<1>1. \A b \in Launches \ {a} : pc'[b] = pc[b]
  BY OthersUndisturbed DEF Undisturbed, SameParent
<1>2. CASE Launch(a)
  BY <1>1, <1>2 DEF Exclusive, Launch
<1>3. CASE ~Launch(a)
  <2>1. pc'[a] = pc[a] \/ pc[a] \notin {"idle", "done"}
    <3>1. CASE ChildDoes(a)
      BY <3>1, ChildEffect DEF OnlyChild, parentVars, IInv
    <3>2. CASE ~ChildDoes(a)
      BY <1>3, <3>2 DEF Does, OpenErrorPipe, FlagErrorPipe, OpenWaitPipe, FlagWaitPipe, Setup, Fork,
                        CloseWriteEnds, ReadErrno, VforkReturns, ReapFailed
    <3> QED
      BY <3>1, <3>2
  <2> QED
    BY <1>1, <2>1 DEF Exclusive
<1> QED
  BY <1>2, <1>3

LEMMA CloexecStep ==
  ASSUME IInv, NEW a \in Launches, Does(a), NEW d \in Fds, d \in cloexec'[parent]
  PROVE  d \in cloexec[parent] \/ \E e \in Ends : d = p[a][e]
<1>0. parent \in Process /\ parent # a
  BY LauncherAssumption DEF Process
<1>1. ASSUME NEW ends, ends \subseteq guard[a], CloseEnds(a, ends) PROVE d \in cloexec[parent]
  BY <1>0, <1>1 DEF CloseEnds, IInv, TypeOK
<1>2. ASSUME NEW r, NEW swapped, Return(a, r, swapped) PROVE d \in cloexec[parent]
  <2>1. guard[a] \ swapped \subseteq guard[a] /\ CloseEnds(a, guard[a] \ swapped)
    BY <1>2 DEF Return
  <2> QED
    BY <1>1, <2>1
<1>3. CASE Launch(a)
  BY <1>3 DEF Launch, fdVars
<1>4. CASE OpenErrorPipe(a) \/ OpenWaitPipe(a)
  <2>1. PICK re, we, next : OpenPipe(a, re, we, next)
    BY <1>4 DEF OpenErrorPipe, OpenWaitPipe
  <2> QED
    BY <1>2, <2>1 DEF OpenPipe, Fail
<1>5. CASE FlagErrorPipe(a) \/ FlagWaitPipe(a)
  <2>1. PICK we \in Ends, next \in {"wait_pipe", "setup"} : SetCloexec(a, we, next)
    BY <1>5 DEF FlagErrorPipe, FlagWaitPipe, Ends
  <2>2. cloexec'[parent] = cloexec[parent] \cup {p[a][we]}
    BY <1>0, <2>1 DEF SetCloexec, IInv, TypeOK
  <2> QED
    BY <2>2
<1>6. CASE Setup(a) \/ Fork(a)
  <2>1. CASE Fail(a)
    BY <1>2, <2>1 DEF Fail
  <2>2. CASE Forks(a)
    BY <1>0, <2>2, ForksEffect DEF IInv
  <2> QED
    BY <1>6, <2>1, <2>2 DEF Setup, Fork
<1>7. CASE CloseWriteEnds(a)
  <2>1. guard[a] \cap {"ew", "ww"} \subseteq guard[a] /\ CloseEnds(a, guard[a] \cap {"ew", "ww"})
    BY <1>7 DEF CloseWriteEnds
  <2> QED
    BY <1>1, <2>1
<1>8. CASE ReadErrno(a) \/ VforkReturns(a) \/ ReapFailed(a)
  BY <1>2, <1>8 DEF ReadErrno, VforkReturns, ReapFailed, Answer, Fail, Succeed
<1>9. CASE ChildDoes(a)
  BY <1>0, <1>9, ChildEffect DEF OnlyChild, IInv
<1> QED
  BY <1>3, <1>4, <1>5, <1>6, <1>7, <1>8, <1>9 DEF Does

LEMMA OpenedStayStep ==
  ASSUME IInv, OpenedStay, NEW a \in Launches, Does(a), PipesApart(a)
  PROVE  OpenedStay'
<1> SUFFICES ASSUME NEW d \in Fds, Opened[d] # Closed
             PROVE  table'[parent][d] = Opened[d] /\ (d \in cloexec'[parent] => d \in Flagged)
  BY DEF OpenedStay
<1>1. table[parent][d] = Opened[d] /\ (d \in cloexec[parent] => d \in Flagged)
  BY DEF OpenedStay
<1>2. Opened[d] \in Users
  BY LauncherAssumption
<1>3. [Next]_vars
  BY DEF Next, Does, ChildDoes
<1>4. table'[parent][d] = Opened[d]
  BY <1>1, <1>2, <1>3, StepKeepsFiles DEF KeepsFiles
<1>5. d \in cloexec'[parent] => d \in cloexec[parent]
  BY CloexecStep DEF PipesApart
<1> QED
  BY <1>1, <1>4, <1>5

LEMMA PipesApartStep ==
  ASSUME IInv, OpenedStay, NEW a \in Launches, Does(a), PipesApart(a)
  PROVE  PipesApart(a)'
<1>1. CASE OpenErrorPipe(a) \/ OpenWaitPipe(a)
  <2>1. PICK re \in Ends, we \in Ends, next \in {"flag", "wait_flag"} :
          re # we /\ pc[a] # "done" /\ OpenPipe(a, re, we, next)
    BY <1>1 DEF OpenErrorPipe, OpenWaitPipe, Ends
  <2>2. CASE Fail(a)
    BY <2>2, ReturnApart DEF Fail, PipesApart
  <2>3. CASE ~Fail(a)
    <3>1. Opens(a, re, we, next)
      BY <2>1, <2>3, OpenPipeEffect DEF IInv
    <3>2. PICK r, w \in Fds :
            /\ table[parent][r] = Closed /\ table[parent][w] = Closed
            /\ p'[a][re] = r /\ p'[a][we] = w /\ \A e \in Ends \ {re, we} : p'[a][e] = p[a][e]
      BY <3>1 DEF Opens
    <3>3. Opened[r] = Closed /\ Opened[w] = Closed
      BY <3>2 DEF OpenedStay
    <3> QED
      BY <3>2, <3>3 DEF PipesApart
  <2> QED
    BY <2>1, <2>2, <2>3
<1>2. CASE ~(OpenErrorPipe(a) \/ OpenWaitPipe(a))
  <2>1. p' = p
    <3>1. CASE ChildDoes(a)
      BY <3>1, ChildEffect DEF OnlyChild, parentVars, IInv
    <3>2. CASE ~ChildDoes(a)
      BY <1>2, <3>2 DEF Does, Launch, FlagErrorPipe, FlagWaitPipe, SetCloexec, Setup, Fork, Fail, Return,
                        CloseWriteEnds, ReadErrno, VforkReturns, ReapFailed, Answer, Succeed
    <3> QED
      BY <3>1, <3>2
  <2> QED
    BY <2>1 DEF PipesApart
<1> QED
  BY <1>1, <1>2

-------------------------------------------------------------------------------
LEMMA TruthUndisturbed ==
  ASSUME IInv, NEW b \in Launches, Truthful(b), Undisturbed(b),
         pc[b] = "fork" => whitelist'[Uses[b]] = whitelist[Uses[b]]
  PROVE  Truthful(b)'
<1>1. /\ SameChild(b) /\ SameParent(b) /\ Kind(b)' = Kind(b) /\ ErrorPipe(b)' = ErrorPipe(b)
      /\ Applied(b)' = Applied(b) /\ Needed(b)' = Needed(b)
  BY DEF Undisturbed, SameChild, SameParent, Applied, Needed, Targets, Kind, ErrorPipe
<1>2. Remaining(b)' /\ PipesApart(b)' /\ CanTell(b)'
  BY <1>1 DEF Truthful, Remaining, PipesApart, CanTell, SameChild, SameParent
<1>3. Binding(b)'
  BY <1>1 DEF Truthful, Binding, Bound, Unbound, Stays, SameChild, SameParent
<1>4. Told(b)'
  BY <1>1 DEF Truthful, Told, Started, SameChild, SameParent
<1> QED
  BY <1>1, <1>2, <1>3, <1>4 DEF Truthful, SameChild, SameParent

LEMMA TruthBefore ==
  ASSUME IInv', NEW a \in Launches, pc'[a] \in Before, PipesApart(a)',
         pc'[a] = "fork" => (Needed(a) \subseteq whitelist[Uses[a]])'
  PROVE  Truthful(a)'
<1>1. child'[a] = "none" /\ result'[a] = "none" /\ told'[a] = "nothing"
  BY DEF IInv, Stage
<1>2. Told(a)'
  BY <1>1 DEF Told, Started
<1> QED
  BY <1>1, <1>2 DEF Truthful, Remaining, Binding, CanTell

LEMMA TruthPast ==
  ASSUME IInv, NEW a \in Launches, Truthful(a), PipesApart(a)', Told(a)',
         child'[a] \in {child[a], "reaped"}, pc'[a] # "fork", kind' = kind, p'[a] = p[a],
         binds'[a] = binds[a], left'[a] = left[a], kept'[a] = kept[a],
         table'[a] = table[a], cloexec'[a] = cloexec[a]
  PROVE  Truthful(a)'
<1>1. /\ Kind(a)' = Kind(a) /\ ErrorPipe(a)' = ErrorPipe(a)
      /\ Applied(a)' = Applied(a) /\ Needed(a)' = Needed(a)
  BY DEF Applied, Needed, Targets, Kind, ErrorPipe
<1>2. Remaining(a)' /\ CanTell(a)'
  BY <1>1 DEF Truthful, Remaining, CanTell
<1>3. Binding(a)'
  BY <1>1 DEF Truthful, Binding, Bound, Unbound, Stays
<1> QED
  BY <1>1, <1>2, <1>3 DEF Truthful

LEMMA TruthReturn ==
  ASSUME IInv, NEW a \in Launches, Truthful(a), PipesApart(a)',
         NEW r \in {"ok", "error"}, NEW swapped, Return(a, r, swapped),
         child'[a] \in {child[a], "reaped"}, left'[a] = left[a], kept'[a] = kept[a], told'[a] = told[a],
         Kind(a) = "vfork" => child'[a] \notin {"setup", "exec"},
         child'[a] = "reaped" => told[a] = "E",
         r = "ok" => child'[a] \in {"running", "exited"},
         r = "error" => child'[a] \notin {"setup", "exec", "running", "exited"}
  PROVE  Truthful(a)'
<1>1. /\ pc'[a] = "done" /\ kind' = kind /\ binds' = binds /\ p' = p
      /\ table'[a] = table[a] /\ cloexec'[a] = cloexec[a]
  BY ReturnApart
<1>2. result'[a] = r
  BY DEF Return, IInv, TypeOK
<1>3. Kind(a)' = Kind(a)
  BY <1>1 DEF Kind
<1>4. Told(a)'
  BY <1>1, <1>2, <1>3 DEF Told, Started, Truthful
<1> QED
  BY <1>1, <1>4, TruthPast

\* Every failure before the fork: there is no child yet.
LEMMA TruthFail ==
  ASSUME IInv, NEW a \in Launches, Truthful(a), PipesApart(a)', pc[a] \in Before, Fail(a), UNCHANGED childVars
  PROVE  Truthful(a)'
<1>1. /\ child[a] = "none" /\ UNCHANGED <<child, left, kept, told>> /\ Return(a, "error", {})
  BY DEF IInv, Stage, childVars, Fail
<1> QED
  BY <1>1, TruthReturn

LEMMA SetupWhitelist ==
  ASSUME IInv, NEW a \in Launches,
         whitelist' = [whitelist EXCEPT ![Uses[a]] =
                         (whitelist[Uses[a]] \cup Pushed(a, Len(binds[a]))) \cup WriteEnds(a)]
  PROVE  whitelist'[Uses[a]] = (whitelist[Uses[a]] \cup Targets(binds[a])) \cup WriteEnds(a)
BY KindType, PushedTargets DEF IInv, TypeOK

LEMMA TruthSetup ==
  ASSUME IInv, IInv', NEW a \in Launches, Truthful(a), PipesApart(a)', Setup(a)
  PROVE  Truthful(a)'
<1>1. CASE Fail(a) /\ UNCHANGED childVars
  BY <1>1, TruthFail DEF Setup, Before
<1>2. CASE /\ whitelist' = [whitelist EXCEPT ![Uses[a]] =
                              (whitelist[Uses[a]] \cup Pushed(a, Len(binds[a]))) \cup WriteEnds(a)]
           /\ Goto(a, "fork") /\ UNCHANGED <<kind, binds, p, guard, result, table, cloexec, childVars>>
  <2>1. whitelist'[Uses[a]] = (whitelist[Uses[a]] \cup Targets(binds[a])) \cup WriteEnds(a)
    BY <1>2, SetupWhitelist
  <2>2. pc[a] = "setup" /\ pc'[a] = "fork" /\ Needed(a)' = Needed(a)
    BY <1>2 DEF Setup, Goto, IInv, TypeOK, Needed, Targets, ErrorPipe, Kind
  <2>3. ErrorPipe(a) => p[a]["ew"] \in WriteEnds(a)
    <3> SUFFICES ASSUME ErrorPipe(a) PROVE p[a]["ew"] \in WriteEnds(a)
      OBVIOUS
    <3>1. "ew" \in guard[a]
      BY <2>2 DEF IInv, GuardStage, AllEnds, ErrorPipe, Ends
    <3>2. p[a]["ew"] \in Fds
      BY <3>1 DEF IInv, HeldEnds
    <3>3. p[a]["ew"] # -1
      BY <3>2, LauncherAssumption DEF Fds
    <3> QED
      BY <3>3 DEF WriteEnds
  <2>4. (Needed(a) \subseteq whitelist[Uses[a]])'
    BY <2>1, <2>2, <2>3 DEF Needed
  <2> QED
    BY <2>2, <2>4, TruthBefore DEF Before
<1> QED
  BY <1>1, <1>2 DEF Setup

LEMMA TruthFork ==
  ASSUME BindingsApart, IInv, IInv', NEW a \in Launches, Truthful(a), PipesApart(a)', OpenedStay, Fork(a)
  PROVE  Truthful(a)'
<1>1. CASE Fail(a) /\ UNCHANGED childVars
  BY <1>1, TruthFail DEF Fork, Before
<1>2. CASE /\ Forks(a) /\ UNCHANGED <<kind, binds, p, guard, whitelist>>
           /\ IF Kind(a) = "fork_and_forget"
                THEN Goto(a, "done") /\ result' = [result EXCEPT ![a] = "ok"]
                ELSE Goto(a, IF Kind(a) = "vfork" THEN "vfork" ELSE "close") /\ UNCHANGED result
  <2>1. /\ child'[a] = "setup" /\ left'[a] = binds[a] /\ kept'[a] = whitelist[Uses[a]]
        /\ cloexec'[a] = cloexec[parent] /\ told' = told
        /\ \A d \in Fds : table'[a][d] = IF d = p[a]["er"] THEN Closed ELSE table[parent][d]
    BY <1>2, ForksEffect DEF IInv
  <2>2. pc[a] = "fork" /\ Kind(a)' = Kind(a) /\ ErrorPipe(a)' = ErrorPipe(a) /\ Needed(a)' = Needed(a)
    BY <1>2 DEF Fork, Kind, ErrorPipe, Needed, Targets
  <2>3. /\ pc'[a] = IF Kind(a) = "fork_and_forget" THEN "done"
                    ELSE IF Kind(a) = "vfork" THEN "vfork" ELSE "close"
        /\ result'[a] = IF Kind(a) = "fork_and_forget" THEN "ok" ELSE result[a]
    BY <1>2 DEF Goto, IInv, TypeOK
  <2>4. child[a] = "none" /\ result[a] = "none" /\ told[a] = "nothing"
    BY <2>2 DEF IInv, Stage, Before
  <2>5. Told(a)'
    BY <2>1, <2>2, <2>3, <2>4 DEF Told, Started
  <2>6. CanTell(a)'
    <3> SUFFICES ASSUME ErrorPipe(a) PROVE p[a]["ew"] \in Fds /\ table'[a][p[a]["ew"]] = <<a, "ew">>
      BY <1>2, <2>2 DEF CanTell
    <3>1. "ew" \in guard[a] /\ "er" \in guard[a]
      BY <2>2 DEF IInv, GuardStage, AllEnds, ErrorPipe, Ends
    <3>2. /\ p[a]["ew"] \in Fds /\ table[parent][p[a]["ew"]] = <<a, "ew">>
          /\ table[parent][p[a]["er"]] = <<a, "er">>
      BY <3>1 DEF IInv, HeldEnds
    <3>3. p[a]["ew"] # p[a]["er"]
      BY <3>2
    <3> QED
      BY <2>1, <3>2, <3>3
  <2>7. DOMAIN binds[a] = 1..Len(binds[a]) /\ Len(binds[a]) \in Nat
    BY PushedTargets DEF IInv
  <2>8. Applied(a)' = 0 /\ Remaining(a)'
    <3>1. left'[a] = binds'[a] /\ binds'[a] = binds[a]
      BY <1>2, <2>1
    <3>2. Applied(a)' = 0
      BY <2>7, <3>1 DEF Applied
    <3> QED
      BY <2>7, <3>1, <3>2 DEF Remaining
  <2>9. ASSUME NEW i \in DOMAIN binds[a]
        PROVE  Unbound(a, i)' /\ (binds[a][i].fd = binds[a][i].target => Stays(a, i)')
    <3>1. binds[a] \in Bindings
      <4>1. binds[a] # <<>>
        BY <2>7
      <4> QED
        BY <4>1 DEF IInv, TypeOK
    <3>2. binds[a][i] \in [target : Fds, fd : Fds]
      BY <2>7, BindsType, ElementOfSeq DEF IInv
    <3>3. /\ Opened[binds[a][i].fd] # Closed
          /\ binds[a][i].target = binds[a][i].fd => binds[a][i].fd \notin Flagged
      BY <3>1 DEF BindingsApart
    <3>4. binds[a][i].fd # p[a]["er"]
      BY <3>2, <3>3 DEF Truthful, PipesApart, Ends
    <3>5. table[parent][binds[a][i].fd] = Opened[binds[a][i].fd]
          /\ (binds[a][i].fd \in cloexec[parent] => binds[a][i].fd \in Flagged)
      BY <3>2, <3>3 DEF OpenedStay
    <3>6. table'[a][binds[a][i].fd] = Opened[binds[a][i].fd]
      BY <2>1, <3>2, <3>4, <3>5
    <3> QED
      BY <1>2, <2>1, <3>3, <3>5, <3>6 DEF Unbound, Stays
  <2>10. Binding(a)'
    <3>1. \A i \in 1..0 : FALSE
      OBVIOUS
    <3>2. \A i \in (0 + 1)..Len(binds[a]) : i \in DOMAIN binds[a]
      BY <2>7
    <3> QED
      BY <1>2, <2>1, <2>8, <2>9, <3>1, <3>2 DEF Binding
  <2>11. (Needed(a) \subseteq kept[a])'
    BY <2>1, <2>2 DEF Truthful
  <2>12. pc'[a] # "fork"
    BY <2>3
  <2> QED
    BY <2>5, <2>6, <2>8, <2>10, <2>11, <2>12 DEF Truthful
<1> QED
  BY <1>1, <1>2 DEF Fork

LEMMA TruthAfter ==
  ASSUME IInv, NEW a \in Launches, Truthful(a), PipesApart(a)',
         CloseWriteEnds(a) \/ ReadErrno(a) \/ VforkReturns(a) \/ ReapFailed(a)
  PROVE  Truthful(a)'
<1>0. a \in Process
  BY DEF Process
<1>1. CASE CloseWriteEnds(a)
  <2>1. CloseEnds(a, guard[a] \cap {"ew", "ww"}) /\ guard[a] \cap {"ew", "ww"} \subseteq guard[a]
    BY <1>1 DEF CloseWriteEnds
  <2>2. pc[a] = "close" /\ pc'[a] = "read" /\ UNCHANGED <<kind, p, binds, child, left, kept, told, result>>
    BY <1>1 DEF CloseWriteEnds, Goto, childVars, IInv, TypeOK
  <2>3. Kind(a)' = Kind(a) /\ Kind(a) # "vfork"
    BY <2>2 DEF Kind, IInv, Stage, ErrorPipe
  <2>4. Told(a)'
    BY <2>2, <2>3 DEF Told, Started, Truthful
  <2> QED
    BY <2>1, <2>2, <2>4, CloseEndsApart, TruthPast
<1>2. CASE ReadErrno(a) \/ VforkReturns(a)
  <2>1. Answer(a) /\ UNCHANGED <<child, left, kept, told>> /\ pc[a] \in {"read", "vfork"}
    BY <1>2 DEF ReadErrno, VforkReturns, childVars
  <2>2. /\ child[a] \notin {"none", "reaped"} /\ Kind(a) # "fork_and_forget" /\ result[a] = "none"
        /\ pc[a] = "read" => ErrorPipe(a)
        /\ Kind(a) = "vfork" <=> pc[a] = "vfork"
    BY <2>1 DEF IInv, Stage, ErrorPipe
  <2>3. told[a] \in {"nothing", "E"}
    BY DEF Truthful, Told, IInv, TypeOK
  <2>4. told[a] = "E" => child[a] \in {"exiting", "zombie"}
    BY <2>2, <2>3 DEF Truthful, Told, Started, IInv, Stage, TypeOK
  <2>5. told[a] = "nothing" => child[a] \in {"running", "exited"}
    <3> SUFFICES ASSUME told[a] = "nothing" PROVE child[a] \in {"running", "exited"}
      OBVIOUS
    <3>1. child[a] \notin {"exiting", "zombie"}
      BY <2>2 DEF Truthful, Told
    <3>2. child[a] \notin {"setup", "exec"}
      <4>1. CASE VforkReturns(a)
        BY <4>1 DEF VforkReturns
      <4>2. CASE ReadErrno(a)
        <5>1. ErrorPipe(a) /\ ~Held(<<a, "ew">>)
          BY <2>2, <4>2 DEF ReadErrno
        <5>2. ASSUME child[a] \in {"setup", "exec"} PROVE FALSE
          BY <1>0, <5>1, <5>2 DEF Truthful, CanTell, Held
        <5> QED
          BY <5>2
      <4> QED
        BY <1>2, <4>1, <4>2
    <3> QED
      BY <2>2, <3>1, <3>2 DEF IInv, TypeOK
  <2>6. CASE told[a] = "E" /\ Fail(a)
    BY <2>1, <2>2, <2>4, <2>6, TruthReturn DEF Fail
  <2>7. CASE told[a] # "E" /\ Succeed(a)
    <3> DEFINE swapped == IF Kind(a) = "pipe_fork" THEN {"wr"} ELSE {}
    <3>1. Return(a, "ok", swapped)
      BY <2>7 DEF Succeed
    <3> HIDE DEF swapped
    <3>2. child[a] \in {"running", "exited"}
      BY <2>3, <2>5, <2>7
    <3> QED
      BY <2>1, <3>1, <3>2, TruthReturn
  <2>8. CASE /\ told[a] = "E" /\ Goto(a, "reap")
             /\ UNCHANGED <<kind, binds, p, guard, result, table, cloexec>>
    <3>1. pc'[a] = "reap" /\ Kind(a)' = Kind(a)
      BY <2>8 DEF Goto, IInv, TypeOK, Kind
    <3>2. Told(a)'
      BY <2>1, <2>2, <2>4, <2>8, <3>1 DEF Told, Started, Truthful
    <3> QED
      BY <2>1, <2>8, <3>1, <3>2, TruthPast
  <2> QED
    BY <2>1, <2>6, <2>7, <2>8 DEF Answer
<1>3. CASE ReapFailed(a)
  <2>1. /\ Return(a, "error", {}) /\ child'[a] = "reaped" /\ UNCHANGED <<left, kept, told>>
        /\ told[a] = "E"
    BY <1>3 DEF ReapFailed, Fail, IInv, TypeOK, Stage
  <2> QED
    BY <2>1, TruthReturn
<1> QED
  BY <1>1, <1>2, <1>3


LEMMA TruthLaunch ==
  ASSUME IInv, IInv', NEW a \in Launches, PipesApart(a)', Launch(a)
  PROVE  Truthful(a)'
<1>1. pc'[a] \in {"pipe", "setup"}
  BY DEF Launch, Goto, IInv, TypeOK
<1> QED
  BY <1>1, TruthBefore DEF Before

LEMMA TruthOpen ==
  ASSUME IInv, IInv', NEW a \in Launches, Truthful(a), PipesApart(a)', OpenErrorPipe(a) \/ OpenWaitPipe(a)
  PROVE  Truthful(a)'
<1>1. PICK re \in Ends, we \in Ends, next \in {"flag", "wait_flag"} :
        re # we /\ pc[a] \in {"pipe", "wait_pipe"} /\ OpenPipe(a, re, we, next)
  BY DEF OpenErrorPipe, OpenWaitPipe, Ends
<1>2. CASE Fail(a) /\ UNCHANGED childVars
  BY <1>1, <1>2, TruthFail DEF Before
<1>3. CASE ~Fail(a)
  <2>1. pc[a] # "done"
    BY <1>1
  <2>2. pc'[a] = next
    BY <1>1, <1>3, <2>1, OpenPipeApart
  <2> QED
    BY <2>2, TruthBefore DEF Before
<1> QED
  BY <1>1, <1>2, <1>3 DEF OpenPipe

LEMMA TruthFlag ==
  ASSUME IInv, IInv', NEW a \in Launches, PipesApart(a)', FlagErrorPipe(a) \/ FlagWaitPipe(a)
  PROVE  Truthful(a)'
<1>1. pc'[a] \in {"wait_pipe", "setup"}
  BY DEF FlagErrorPipe, FlagWaitPipe, SetCloexec, Goto, IInv, TypeOK
<1> QED
  BY <1>1, TruthBefore DEF Before

-------------------------------------------------------------------------------
(***************************************************************************)
(* The steps of the child.                                                 *)
(***************************************************************************)
\* What none of them changes.
LEMMA ChildKeeps ==
  ASSUME IInv, NEW a \in Launches, ChildDoes(a)
  PROVE  /\ a \in Process /\ pc'[a] \notin Before
         /\ UNCHANGED <<kind, binds, pc, p, guard, result>>
         /\ Kind(a)' = Kind(a) /\ ErrorPipe(a)' = ErrorPipe(a) /\ Needed(a)' = Needed(a)
<1>1. a \in Process /\ pc[a] \notin Before /\ UNCHANGED <<kind, binds, pc, p, guard, result>>
  BY ChildEffect DEF Process, IInv, Stage, OnlyChild, parentVars
<1> QED
  BY <1>1 DEF Kind, ErrorPipe, Needed, Targets

LEMMA TruthGivesUp ==
  ASSUME IInv, NEW a \in Launches, Truthful(a), PipesApart(a)', ChildDoes(a),
         child[a] \in {"setup", "exec"}, ChildFails(a, "E")
  PROVE  Truthful(a)'
<1>1. /\ child'[a] = "exiting" /\ pc'[a] # "fork" /\ Kind(a)' = Kind(a) /\ result' = result
      /\ Kind(a) \in {"default", "pipe_fork", "fork_and_forget", "vfork"}
  BY ChildKeeps, KindType DEF ChildFails, Before, IInv, TypeOK
<1>2. result[a] # "ok" \/ Kind(a) = "fork_and_forget"
  BY DEF Truthful, Told, Started
<1>3. told'[a] # "0" /\ (Kind(a) # "fork_and_forget" => told'[a] = "E")
  <2>1. told'[a] = IF Kind(a) = "vfork" \/ (ErrorPipe(a) /\ table[a][p[a]["ew"]] = <<a, "ew">>)
                   THEN "E" ELSE told[a]
    BY DEF ChildFails, IInv, TypeOK
  <2>2. told[a] # "0" /\ (ErrorPipe(a) => table[a][p[a]["ew"]] = <<a, "ew">>)
    BY DEF Truthful, Told, CanTell
  <2> QED
    BY <1>1, <2>1, <2>2 DEF ErrorPipe
<1>4. Told(a)'
  BY <1>1, <1>2, <1>3 DEF Told, Started
<1> QED
  BY <1>1, <1>4 DEF Truthful, Remaining, Binding, CanTell

\* One dup2: nothing that a later one needs is overwritten, nor what an earlier one bound.
LEMMA TruthDup2 ==
  ASSUME BindingsApart, IInv, NEW a \in Launches, Truthful(a), PipesApart(a)', Dup2(a), ~ChildFails(a, "E")
  PROVE  Truthful(a)'
<1> DEFINE b == Head(left[a])
           k == Applied(a) + 1
<1>1. /\ child[a] = "setup" /\ left[a] # <<>> /\ Duplicate(a, b)
      /\ left' = [left EXCEPT ![a] = Tail(left[a])] /\ UNCHANGED <<child, kept, told>>
  BY DEF Dup2
<1>2. /\ a \in Process /\ UNCHANGED <<kind, binds, pc, p, guard, result>> /\ pc'[a] # "fork"
      /\ Kind(a)' = Kind(a) /\ ErrorPipe(a)' = ErrorPipe(a) /\ Needed(a)' = Needed(a)
  BY ChildKeeps DEF ChildDoes, Before
<1>3. /\ k \in DOMAIN binds[a] /\ Applied(a) \in Nat
      /\ b = binds[a][k] /\ b \in [target : Fds, fd : Fds]
  BY <1>1, NextBinding DEF Truthful
<1>4. Remaining(a)' /\ Applied(a)' = k
  BY <1>1, <1>2, RemainingDup2 DEF Truthful
<1>5. DOMAIN binds[a] = 1..Len(binds[a]) /\ Len(binds[a]) \in Nat
  BY PushedTargets DEF IInv
<1>6. binds[a] \in Bindings
  <2>1. binds[a] # <<>>
    BY <1>3, <1>5
  <2> QED
    BY <2>1 DEF IInv, TypeOK
<1>7. /\ Opened[b.target] # Closed
      /\ \A i \in DOMAIN binds[a] : i < k => binds[a][i].target # b.target
      /\ \A i \in DOMAIN binds[a] : k < i => binds[a][i].fd # b.target
  BY <1>3, <1>6 DEF BindingsApart
<1>8. /\ table'[a] = [table[a] EXCEPT ![b.target] = table[a][b.fd]]
      /\ cloexec'[a] = IF b.fd = b.target THEN cloexec[a] ELSE cloexec[a] \ {b.target}
  BY <1>1, <1>2 DEF Duplicate, IInv, TypeOK
<1>9. /\ table'[a][b.target] = table[a][b.fd]
      /\ \A d \in Fds \ {b.target} : table'[a][d] = table[a][d]
  <2>1. table[a] \in [Fds -> File]
    BY <1>2 DEF IInv, TypeOK
  <2> QED
    BY <1>3, <1>8, <2>1
<1>10. \A i \in DOMAIN binds[a] : binds[a][i].target \in Fds /\ binds[a][i].fd \in Fds
  <2> TAKE i \in DOMAIN binds[a]
  <2>1. binds[a][i] \in [target : Fds, fd : Fds]
    BY <1>5, BindsType, ElementOfSeq DEF IInv
  <2> QED
    BY <2>1
<1>11. /\ \A i \in 1..Applied(a) : Bound(a, i) /\ Stays(a, i)
       /\ \A i \in k..Len(binds[a]) :
            Unbound(a, i) /\ (binds[a][i].fd = binds[a][i].target => Stays(a, i))
  BY <1>1 DEF Truthful, Binding
<1>12. ASSUME NEW i \in 1..k PROVE Bound(a, i)' /\ Stays(a, i)'
  <2>1. i \in DOMAIN binds[a]
    BY <1>3, <1>5
  <2>2. CASE i = k
    <3>1. k \in k..Len(binds[a])
      BY <1>3, <1>5
    <3>2. table[a][b.fd] = Opened[b.fd] /\ (b.fd = b.target => b.target \notin cloexec[a])
      BY <1>3, <1>11, <3>1 DEF Unbound, Stays
    <3> QED
      BY <1>2, <1>3, <1>8, <1>9, <2>2, <3>2 DEF Bound, Stays
  <2>3. CASE i # k
    <3>1. i \in 1..Applied(a) /\ i < k
      BY <1>3, <2>3
    <3>2. binds[a][i].target \in Fds \ {b.target}
      BY <1>7, <1>10, <2>1, <3>1
    <3> QED
      BY <1>2, <1>8, <1>9, <1>11, <3>1, <3>2 DEF Bound, Stays
  <2> QED
    BY <2>2, <2>3
<1>13. ASSUME NEW i \in (k + 1)..Len(binds[a])
       PROVE  Unbound(a, i)' /\ (binds[a][i].fd = binds[a][i].target => Stays(a, i)')
  <2>1. i \in DOMAIN binds[a] /\ k < i /\ i \in k..Len(binds[a])
    BY <1>3, <1>5
  <2>2. binds[a][i].fd \in Fds \ {b.target}
    BY <1>7, <1>10, <2>1
  <2> QED
    BY <1>2, <1>8, <1>9, <1>11, <2>1, <2>2 DEF Unbound, Stays
<1>14. Binding(a)'
  BY <1>1, <1>2, <1>4, <1>12, <1>13 DEF Binding
<1>15. CanTell(a)'
  <2> SUFFICES ASSUME ErrorPipe(a) PROVE p[a]["ew"] \in Fds /\ table'[a][p[a]["ew"]] = <<a, "ew">>
    BY <1>2 DEF CanTell
  <2>1. p[a]["ew"] \in Fds /\ table[a][p[a]["ew"]] = <<a, "ew">>
    BY <1>1 DEF Truthful, CanTell
  <2>2. p[a]["ew"] # b.target
    BY <1>7, <2>1 DEF Truthful, PipesApart, Ends
  <2> QED
    BY <1>9, <2>1, <2>2
<1>16. Told(a)'
  BY <1>1, <1>2 DEF Truthful, Told, Started
<1>17. (child[a] = "setup" => Needed(a) \subseteq kept[a])'
  BY <1>1, <1>2 DEF Truthful
<1> QED
  BY <1>2, <1>4, <1>14, <1>15, <1>16, <1>17 DEF Truthful

LEMMA TruthCloseAll ==
  ASSUME IInv, NEW a \in Launches, Truthful(a), PipesApart(a)', CloseAll(a)
  PROVE  Truthful(a)'
<1>1. /\ a \in Process /\ UNCHANGED <<kind, binds, pc, p, guard, result>> /\ pc'[a] # "fork"
      /\ Kind(a)' = Kind(a) /\ ErrorPipe(a)' = ErrorPipe(a)
  BY ChildKeeps DEF ChildDoes, Before
<1>2. /\ child[a] = "setup" /\ left[a] = <<>> /\ child'[a] = "exec" /\ UNCHANGED <<told, cloexec>>
      /\ table'[a] = [d \in Fds |-> IF d \in kept[a] THEN table[a][d] ELSE Closed]
  BY <1>1 DEF CloseAll, IInv, TypeOK
<1>3. Needed(a) \subseteq kept[a]
  BY <1>2 DEF Truthful
<1>4. ASSUME NEW i \in DOMAIN binds[a] PROVE Bound(a, i)' /\ Stays(a, i)'
  <2>1. i \in 1..Applied(a)
    BY <1>2, PushedTargets, EmptySeq DEF IInv, Applied
  <2>2. binds[a][i] \in [target : Fds, fd : Fds]
    BY PushedTargets, BindsType, ElementOfSeq DEF IInv
  <2>3. binds[a][i].target \in kept[a]
    BY <1>3 DEF Needed, Targets
  <2>4. Bound(a, i) /\ Stays(a, i)
    BY <1>2, <2>1 DEF Truthful, Binding
  <2> QED
    BY <1>1, <1>2, <2>2, <2>3, <2>4 DEF Bound, Stays
<1>5. Binding(a)'
  BY <1>1, <1>2, <1>4 DEF Binding
<1>6. CanTell(a)'
  <2> SUFFICES ASSUME ErrorPipe(a) PROVE p[a]["ew"] \in Fds /\ table'[a][p[a]["ew"]] = <<a, "ew">>
    BY <1>1 DEF CanTell
  <2>1. p[a]["ew"] \in Fds /\ table[a][p[a]["ew"]] = <<a, "ew">>
    BY <1>2 DEF Truthful, CanTell
  <2>2. p[a]["ew"] \in kept[a]
    BY <1>3 DEF Needed
  <2> QED
    BY <1>2, <2>1, <2>2
<1>7. Told(a)'
  BY <1>1, <1>2 DEF Truthful, Told, Started
<1> QED
  BY <1>1, <1>2, <1>5, <1>6, <1>7 DEF Truthful, Remaining

LEMMA TruthExec ==
  ASSUME IInv, NEW a \in Launches, Truthful(a), PipesApart(a)', Exec(a), ~ChildFails(a, "E")
  PROVE  Truthful(a)'
<1>1. /\ a \in Process /\ UNCHANGED <<kind, binds, pc, p, guard, result>> /\ pc'[a] # "fork"
      /\ Kind(a)' = Kind(a)
  BY ChildKeeps DEF ChildDoes, Before
<1>2. /\ child[a] = "exec" /\ child'[a] = "running" /\ told' = told
      /\ table'[a] = [d \in Fds |-> IF d \in cloexec[a] THEN Closed ELSE table[a][d]]
  BY <1>1 DEF Exec, IInv, TypeOK
<1>3. ASSUME NEW i \in DOMAIN binds[a] PROVE Bound(a, i)'
  <2>1. binds[a][i] \in [target : Fds, fd : Fds]
    BY PushedTargets, BindsType, ElementOfSeq DEF IInv
  <2>2. Bound(a, i) /\ Stays(a, i)
    BY <1>2 DEF Truthful, Binding
  <2> QED
    BY <1>1, <1>2, <2>1, <2>2 DEF Bound, Stays
<1>4. Binding(a)'
  BY <1>1, <1>2, <1>3 DEF Binding
<1>5. told[a] = "nothing"
  BY <1>2 DEF IInv, Stage
<1>6. Told(a)'
  BY <1>1, <1>2, <1>5 DEF Truthful, Told, Started
<1> QED
  BY <1>1, <1>2, <1>4, <1>6 DEF Truthful, Remaining, CanTell

LEMMA TruthChildExits ==
  ASSUME IInv, NEW a \in Launches, Truthful(a), PipesApart(a)', ChildExits(a)
  PROVE  Truthful(a)'
<1>1. UNCHANGED <<kind, pc, result>> /\ pc'[a] # "fork" /\ Kind(a)' = Kind(a)
  BY ChildKeeps DEF ChildDoes, Before
<1>2. /\ told' = told
      /\ \/ child[a] = "exiting" /\ child'[a] = "zombie"
         \/ child[a] = "running" /\ child'[a] = "exited"
  BY DEF ChildExits, IInv, TypeOK
<1>3. Told(a)'
  BY <1>1, <1>2 DEF Truthful, Told, Started
<1> QED
  BY <1>1, <1>2, <1>3 DEF Truthful, Remaining, Binding, CanTell

LEMMA TruthChild ==
  ASSUME BindingsApart, ErrnoSet, IInv, NEW a \in Launches, Truthful(a), PipesApart(a)', ChildDoes(a)
  PROVE  Truthful(a)'
<1>1. CASE child[a] \in {"setup", "exec"} /\ ChildFails(a, "E")
  BY <1>1, TruthGivesUp
<1>2. CASE ExecSetupFails(a)
  BY <1>2, TruthGivesUp DEF ExecSetupFails, ErrnoSet
<1>3. CASE Dup2(a) /\ ~ChildFails(a, "E")
  BY <1>3, TruthDup2
<1>4. CASE Exec(a) /\ ~ChildFails(a, "E")
  BY <1>4, TruthExec
<1>5. CASE Dup2(a) \/ Exec(a)
  BY <1>1, <1>3, <1>4, <1>5 DEF Dup2, Exec
<1> QED
  BY <1>2, <1>5, TruthCloseAll, TruthChildExits DEF ChildDoes

-------------------------------------------------------------------------------
\* Until its fork nobody else changes the whitelist a launch has filled: its launcher is its own
\* meanwhile, and a child of vfork_launcher holds its parent's thread until it is done with it.
LEMMA OthersWhitelist ==
  ASSUME IInv, TInv, NEW a \in Launches, Does(a), NEW b \in Launches \ {a}, pc[b] = "fork"
  PROVE  whitelist'[Uses[b]] = whitelist[Uses[b]]
<1>1. CASE whitelist' = whitelist
  BY <1>1
<1>2. CASE Uses[b] # Uses[a]
  BY <1>2, WhitelistStep
<1>3. CASE Uses[b] = Uses[a] /\ (pc[a] = "setup" \/ (Kind(a) = "vfork" /\ child[a] = "setup"))
  <2>1. pc[a] \in {"idle", "done"}
    BY <1>3 DEF TInv, Exclusive
  <2>2. pc[a] \notin {"idle", "done"}
    BY <1>3 DEF TInv, Truthful, Told
  <2> QED
    BY <2>1, <2>2
<1> QED
  BY <1>1, <1>2, <1>3, WhitelistStep

LEMMA TInvStep ==
  ASSUME BindingsApart, ErrnoSet, IInv, TInv, [Next]_vars
  PROVE  TInv'
<1>0. IInv'
  BY StepInv
<1>1. ASSUME NEW a \in Launches, Does(a) PROVE TInv'
  <2>1. Exclusive /\ OpenedStay /\ Truthful(a) /\ PipesApart(a)
    BY DEF TInv, Truthful
  <2>2. Exclusive'
    BY <1>1, <2>1, ExclusiveStep
  <2>3. OpenedStay' /\ PipesApart(a)'
    BY <1>1, <2>1, OpenedStayStep, PipesApartStep
  <2>4. Truthful(a)'
    BY <1>0, <1>1, <2>1, <2>3, TruthLaunch, TruthOpen, TruthFlag, TruthSetup, TruthFork, TruthAfter,
       TruthChild DEF Does
  <2>5. ASSUME NEW b \in Launches \ {a} PROVE Truthful(b)'
    <3>1. pc[b] = "fork" => whitelist'[Uses[b]] = whitelist[Uses[b]]
      BY <1>1, OthersWhitelist
    <3>2. Undisturbed(b) /\ Truthful(b)
      BY <1>1, OthersUndisturbed DEF TInv
    <3> QED
      BY <3>1, <3>2, TruthUndisturbed
  <2> QED
    BY <2>2, <2>3, <2>4, <2>5 DEF TInv
<1>2. CASE UserOpens \/ UNCHANGED vars
  <2>1. /\ whitelist' = whitelist /\ \A b \in Launches : Undisturbed(b)
        /\ cloexec' = cloexec
    BY <1>2, UserOpensUndisturbed, UserOpensEffect, StutterUndisturbed DEF IInv, vars, fdVars
  <2>2. Exclusive'
    BY <2>1 DEF TInv, Exclusive, Undisturbed, SameParent
  <2>3. KeepsFiles
    BY StepKeepsFiles
  <2>4. OpenedStay'
    <3>1. \A d \in Fds : Opened[d] # Closed => Opened[d] \in Users
      BY LauncherAssumption
    <3> QED
      BY <2>1, <2>3, <3>1 DEF TInv, OpenedStay, KeepsFiles
  <2>5. \A b \in Launches : Truthful(b)'
    BY <2>1, TruthUndisturbed DEF TInv
  <2> QED
    BY <2>2, <2>4, <2>5 DEF TInv
<1> QED
  BY <1>1, <1>2, NextCases DEF Does

LEMMA TInvInit == Init => TInv
<1> SUFFICES ASSUME Init PROVE TInv
  OBVIOUS
<1>1. Exclusive
  BY DEF Init, Exclusive
<1>2. OpenedStay
  BY DEF Init, OpenedStay, Process
<1>3. ASSUME NEW a \in Launches PROVE Truthful(a)
  BY DEF Init, Truthful, Remaining, PipesApart, Binding, CanTell, Told, Started, Fds
<1> QED
  BY <1>1, <1>2, <1>3 DEF TInv

(***************************************************************************)
(* LaunchTruthful: a launch whose caller gets a process has started its    *)
(* program, one whose caller gets an error has not, and a program finds    *)
(* behind each target the file that was bound to it, whatever the other    *)
(* launches of the parent open, close, whitelist and fork meanwhile (the   *)
(* error pipe, the shared error_code of vfork_launcher, and the dup2 calls *)
(* before close_all).  It takes bindings that do not overwrite one         *)
(* another, and initializers that set errno when they fail: the code       *)
(* applies the bindings in turn, and tells a failure by errno alone.       *)
(***************************************************************************)
THEOREM LaunchTruthfulHolds ==
  ASSUME BindingsApart, ErrnoSet
  PROVE  Spec => []LaunchTruthful
<1>1. Init => TInv
  BY TInvInit
<1>2. IInv /\ TInv /\ [Next]_vars => TInv'
  BY TInvStep
<1>3. TInv => LaunchTruthful
  BY DEF TInv, Truthful, Told, Started, Binding, Bound, BindingsHold, LaunchTruthful
<1> QED
  BY <1>1, <1>2, <1>3, Invariance, PTL DEF Spec

-------------------------------------------------------------------------------
(***************************************************************************)
(* Windows.  The inductive invariant.  CreationOk: how far a launch is      *)
(* says what it has made and reported.  BindingOk: what it was given is open *)
(* as long as it needs it.  FileOk: the program's files stay open.         *)
(* HandleOk: who has to close a handle.  HolderOk: a launch that has its    *)
(* process, and an object, hold open handles of their own child, and no two *)
(* of them the same.                                                       *)
(***************************************************************************)
Lasts(a) == stage[a] \notin {"unbind", "done"}
StillOpen(a) == bound[a].kind \in {"file", "pipe"} /\ bound[a].handle # INVALID /\ stage[a] # "done"
Has(o)   == object[o] # none /\ HasHandle(o)

CreationOk(a) ==
  /\ stage[a] \in {"idle", "setup", "list", "create"} => process[a].state = "none"
  /\ stage[a] = "success" => process[a].state # "none"
  /\ Lasts(a) => outcome[a] = "none" /\ object[a] = none
  /\ outcome[a] = "ok" => process[a].state # "none"
  /\ outcome[a] = "error" => process[a].state = "none"
  /\ stage[a] = "idle" => bound[a] = NoBinding

BindingOk(a) ==
  /\ bound[a].kind = "none" => bound[a].handle = INVALID
  /\ bound[a].kind \in {"std", "handle"} => \E f \in DOMAIN Files : bound[a].handle = Files[f]
  /\ StillOpen(a) => /\ handle[bound[a].handle] # none
                 /\ handle[bound[a].handle].what = "opened" /\ handle[bound[a].handle].of = a
  /\ bound[a].kind = "handle" /\ bound[a].inherit => Shared(bound[a].handle)

FileOk(f) ==
  /\ handle[Files[f]] # none /\ handle[Files[f]].what = "file" /\ handle[Files[f]].of = f
  /\ handle[Files[f]].inherit =>
       Shared(Files[f]) \/ \E a \in WinLaunches : bound[a].handle = Files[f] /\ (bound[a].kind = "std" \/ stage[a] # "done")

HandleOk(h) ==
  handle[h] # none =>
    /\ handle[h].what \in {"process", "limited"} =>
         \/ \E o \in Objects : object[o] # none /\ object[o].handle = h
         \/ \E a \in WinLaunches : stage[a] = "success" /\ info[a].process = h
    /\ handle[h].what = "thread" =>
         handle[h].of \in WinLaunches /\ stage[handle[h].of] = "success" /\ info[handle[h].of].thread = h
    /\ handle[h].what = "opened" =>
         /\ handle[h].of \in WinLaunches /\ stage[handle[h].of] # "done"
         /\ bound[handle[h].of].kind \in {"file", "pipe"} /\ bound[handle[h].of].handle = h

MakingOk(a) ==
  stage[a] = "success" =>
    /\ info[a].process # INVALID /\ info[a].thread # INVALID
    /\ handle[info[a].process] # none /\ handle[info[a].thread] # none
    /\ handle[info[a].process].what = "process" /\ handle[info[a].process].of = a
    /\ handle[info[a].thread].what = "thread" /\ handle[info[a].thread].of = a
    /\ \A o \in Objects : Has(o) => object[o].handle # info[a].process

HolderOk(o) ==
  Has(o) =>
    /\ handle[object[o].handle] # none /\ handle[object[o].handle].what \in {"process", "limited"}
    /\ handle[object[o].handle].of = object[o].of
    /\ object[o].of \in Children /\ process[object[o].of].state # "none"
    /\ process[object[o].of].pid = object[o].pid
    /\ \A q \in Objects : q # o /\ Has(q) => object[q].handle # object[o].handle

(***************************************************************************)
(* What is reported: a known status is the code of an ended child; whoever *)
(* waits has an object with a handle.                                      *)
(***************************************************************************)
StatusOk(o) ==
  object[o] # none /\ object[o].status # still_active =>
    Ended(object[o].of) /\ object[o].status = ExitCode(o)

\* How a wait may end.
EndedWell(rec) ==
  \/ rec.ec = "ok" /\ Ended(rec.of) /\ rec.code = process[rec.of].code
  \/ rec.ec = "aborted" /\ rec.cancelled
  \/ rec.ec = "bad_handle" /\ rec.held = "nothing"
  \/ rec.ec = "denied" /\ rec.held = "limited"

\* The object still has the handle with which the wait began.
OfItsObject(rec) == /\ Has(rec.on) /\ rec.of = object[rec.on].of
                    /\ rec.held = handle[object[rec.on].handle].what

WaitOk(w) ==
  wait[w] # none =>
    /\ wait[w].state # "done" => wait[w].ec = "ok" /\ OfItsObject(wait[w])
    /\ wait[w].state = "done" => EndedWell(wait[w])

Launching == /\ \A a \in WinLaunches : CreationOk(a) /\ BindingOk(a) /\ MakingOk(a)
             /\ \A f \in DOMAIN Files : FileOk(f)
             /\ \A h \in Handles : HandleOk(h)
Telling == /\ \A c \in Children : process[c].state = "running" => process[c].code = still_active
           /\ \A o \in Objects : HolderOk(o) /\ StatusOk(o)
           /\ \A w \in Waits : WaitOk(w)
           /\ blocked # none => Has(blocked.object)
WInv == WinTypeOK /\ Launching /\ InheritsGiven /\ Telling

LEMMA NoneApart ==
  /\ none \notin Entries /\ none \notin Made /\ none \notin Calls /\ none \notin Begun /\ none \notin Children
  /\ INVALID \notin Handles
BY WindowsAssumption DEF Handles, INVALID

LEMMA FilesType ==
  /\ \A f \in DOMAIN Files : Files[f] \in Handles /\ f \notin WinLaunches
  /\ \A f, g \in DOMAIN Files : Files[f] = Files[g] => f = g
BY WindowsAssumption

\* The handles that are free, and the lowest two of them.
LEMMA LowestFree ==
  /\ FreeHandles # {} => Lowest \in FreeHandles
  /\ Cardinality(FreeHandles) >= 2 => Lowest \in FreeHandles /\ Second \in FreeHandles /\ Second # Lowest
<1>1. FreeHandles \subseteq Nat /\ IsFiniteSet(FreeHandles)
  <2>1. IsFiniteSet(Handles) /\ Handles \subseteq Nat
    BY WindowsAssumption, FS_Interval DEF Handles
  <2> QED
    BY <2>1, FS_Subset DEF FreeHandles
<1>2. FreeHandles # {} => Lowest \in FreeHandles
  BY <1>1, MinIsMember DEF Lowest
<1>3. ASSUME Cardinality(FreeHandles) >= 2
      PROVE  Lowest \in FreeHandles /\ Second \in FreeHandles /\ Second # Lowest
  <2>1. FreeHandles # {}
    BY <1>3, FS_EmptySet
  <2>2. FreeHandles \ {Lowest} # {}
    <3>1. ASSUME FreeHandles = {Lowest} PROVE FALSE
      <4>1. Cardinality({Lowest}) = 1
        BY FS_Singleton
      <4>2. Cardinality(FreeHandles) = 1
        BY <3>1, <4>1, Zenon
      <4> QED
        BY <1>3, <4>2
    <3> QED
      BY <1>2, <2>1, <3>1
  <2>3. Second \in FreeHandles \ {Lowest}
    BY <1>1, <2>2, MinIsMember DEF Second
  <2> QED
    BY <1>2, <2>1, <2>3
<1> QED
  BY <1>2, <1>3

LEMMA WInvInit == WinInit => WInv
<1> SUFFICES ASSUME WinInit PROVE WInv
  OBVIOUS
<1> USE NoneApart, FilesType DEF WinInit
<1>1. \A h \in Handles : /\ handle[h] # none => \E f \in DOMAIN Files : Files[f] = h /\ handle[h] = Entry("file", f)
                         /\ \A f \in DOMAIN Files : Files[f] = h => handle[h] = Entry("file", f)
  <2> TAKE h \in Handles
  <2>1. CASE \E f \in DOMAIN Files : Files[f] = h
    <3>1. PICK f \in DOMAIN Files : Files[f] = h
      BY <2>1
    <3>2. (CHOOSE g \in DOMAIN Files : Files[g] = h) = f
      BY <3>1
    <3> QED
      BY <3>1, <3>2
  <2>2. CASE ~ \E f \in DOMAIN Files : Files[f] = h
    BY <2>2
  <2> QED
    BY <2>1, <2>2
<1>2. \A f \in DOMAIN Files : Entry("file", f) \in Entries
  BY DEF Entries, Entry
<1>3. WinTypeOK
  <2>1. handle \in [Handles -> Entries \cup {none}]
    BY <1>1, <1>2
  <2>2. process \in [Children -> [state : {"none", "running", "ended"}, pid : Pids \cup {0},
                               code : ExitCodes, files : SUBSET Entries]]
    BY DEF ExitCodes
  <2>3. bound \in [WinLaunches -> [kind : {"none", "std", "handle", "file", "pipe"},
                                handle : Handles \cup {INVALID}, inherit : BOOLEAN]]
    BY DEF NoBinding
  <2> QED
    BY <2>1, <2>2, <2>3 DEF WinTypeOK
<1>4. Launching
  <2>1. ASSUME NEW a \in WinLaunches PROVE CreationOk(a) /\ BindingOk(a) /\ MakingOk(a)
    BY DEF CreationOk, BindingOk, MakingOk, Lasts, StillOpen, NoBinding, Objects, Children
  <2>2. ASSUME NEW f \in DOMAIN Files PROVE FileOk(f)
    BY <1>1, <1>2 DEF FileOk, Entry
  <2>3. ASSUME NEW h \in Handles PROVE HandleOk(h)
    BY <1>1 DEF HandleOk, Entry
  <2> QED
    BY <2>1, <2>2, <2>3 DEF Launching
<1>5. InheritsGiven
  BY DEF InheritsGiven, Children
<1>6. Telling
  BY DEF Telling, HolderOk, StatusOk, WaitOk, Has, Children
<1> QED
  BY <1>3, <1>4, <1>5, <1>6 DEF WInv

-------------------------------------------------------------------------------
(***************************************************************************)
(* What the steps of a launch leave as it is for those who report.         *)
(***************************************************************************)
ProcessStarts == \A c \in Children :
  \/ process'[c] = process[c]
  \/ process[c].state = "none" /\ process'[c].state = "running" /\ process'[c].code = still_active

ObjectsAdded == \A o \in Objects :
  \/ object'[o] = object[o]
  \/ object[o] = none /\ object'[o] # none /\ object'[o].status = still_active

LEMMA TellingAdded ==
  ASSUME WInv, WinTypeOK', ProcessStarts, ObjectsAdded, UNCHANGED <<blocked, wait>>,
         \A h \in Handles : handle[h] # none /\ handle[h].what \in {"process", "limited"} =>
                              handle'[h].what = handle[h].what,
         \A o \in Objects : HolderOk(o)'
  PROVE  Telling'
<1> USE NoneApart DEF WInv, Telling
<1>1. ASSUME NEW c \in Children, process'[c].state = "running" PROVE process'[c].code = still_active
  BY <1>1 DEF ProcessStarts
<1>2. ASSUME NEW c \in Children, Ended(c) PROVE Ended(c)' /\ process'[c] = process[c]
  BY <1>2 DEF ProcessStarts, Ended
<1>3. ASSUME NEW o \in Objects PROVE StatusOk(o)'
  <2>1. CASE object'[o] = object[o]
    <3>1. object[o] # none => object[o].of \in Children
      BY DEF WinTypeOK, Made
    <3> QED
      BY <1>2, <2>1, <3>1 DEF StatusOk, ExitCode
  <2>2. CASE object'[o] # object[o]
    BY <2>2 DEF ObjectsAdded, StatusOk
  <2> QED
    BY <2>1, <2>2
<1>4. ASSUME NEW o \in Objects, Has(o) PROVE Has(o)'
  BY <1>4 DEF ObjectsAdded, Has, HasHandle
<1>5. ASSUME NEW w \in Waits PROVE WaitOk(w)'
  <2> SUFFICES ASSUME wait[w] # none PROVE WaitOk(w)'
    BY DEF WaitOk
  <2>1. wait[w].on \in Objects /\ wait[w].of \in Children /\ WaitOk(w)
    BY DEF WinTypeOK, Begun
  <2>2. CASE wait[w].state = "done"
    BY <1>2, <2>1, <2>2 DEF WaitOk, EndedWell
  <2>3. CASE wait[w].state # "done"
    <3> DEFINE o == wait[w].on
    <3>1. wait[w].ec = "ok" /\ OfItsObject(wait[w])
      BY <2>1, <2>3 DEF WaitOk
    <3>2. Has(o) /\ HolderOk(o) /\ object[o].handle \in Handles
      BY <2>1, <3>1 DEF OfItsObject, WinTypeOK, Made, Has, HasHandle
    <3>3. Has(o)' /\ object'[o] = object[o]
      BY <1>4, <2>1, <3>2 DEF ObjectsAdded, Has
    <3>4. handle'[object[o].handle].what = handle[object[o].handle].what
      BY <3>2 DEF HolderOk
    <3> QED
      BY <2>3, <3>1, <3>3, <3>4 DEF WaitOk, OfItsObject
  <2> QED
    BY <2>2, <2>3
<1>6. blocked' # none => Has(blocked.object)'
  <2>1. blocked # none => blocked.object \in Objects
    BY DEF WinTypeOK, Calls
  <2> QED
    BY <1>4, <2>1
<1> QED
  BY <1>1, <1>3, <1>5, <1>6

\* An object's handle stays as long as nobody closes it.
LEMMA HoldersStay ==
  ASSUME WInv, WinTypeOK', UNCHANGED object, ProcessStarts,
         \A c \in Children : process'[c] = process[c] \/ process[c].state = "none",
         \A h \in Handles : handle[h] # none /\ handle[h].what \in {"process", "limited"} => handle'[h] = handle[h]
  PROVE  \A o \in Objects : HolderOk(o)'
<1> SUFFICES ASSUME NEW o \in Objects PROVE HolderOk(o)'
  OBVIOUS
<1>1. Has(o) => object[o].handle \in Handles
  BY DEF WInv, WinTypeOK, Made, Has, HasHandle
<1>2. HolderOk(o)
  BY DEF WInv, Telling
<1> QED
  BY <1>1, <1>2 DEF HolderOk, Has, HasHandle, ProcessStarts

(***************************************************************************)
(* The steps of the children, the calls and the waits leave the handles    *)
(* and the launches as they are; a process only ends.                      *)
(***************************************************************************)
ProcessEnds == \A c \in Children :
  \/ process'[c] = process[c]
  \/ /\ process[c].state = "running" /\ process'[c].state = "ended"
     /\ process'[c].pid = process[c].pid /\ process'[c].files = process[c].files

ObjectsKept == \A o \in Objects :
  /\ object[o] = none <=> object'[o] = none
  /\ object[o] # none =>
       /\ object'[o].pid = object[o].pid /\ object'[o].handle = object[o].handle /\ object'[o].of = object[o].of
       /\ \/ object'[o].status = object[o].status
          \/ object[o].of \in Children /\ process'[object[o].of].state = "ended" /\ object'[o].status = process'[object[o].of].code

LEMMA EndedStays ==
  ASSUME ProcessEnds, NEW c \in Children, Ended(c)
  PROVE  Ended(c)' /\ process'[c] = process[c]
BY DEF ProcessEnds, Ended

LEMMA HasKept ==
  ASSUME ObjectsKept, NEW o \in Objects
  PROVE  Has(o)' <=> Has(o)
BY DEF ObjectsKept, Has, HasHandle

LEMMA CallStep ==
  ASSUME WInv, WinTypeOK', UNCHANGED <<handle, launchVars>>, ProcessEnds, ObjectsKept,
         \A w \in Waits : WaitOk(w)', blocked' # none => Has(blocked.object)'
  PROVE  WInv'
<1> USE DEF WInv
<1>1. Launching'
  <2>1. ASSUME NEW a \in WinLaunches PROVE CreationOk(a)' /\ BindingOk(a)' /\ MakingOk(a)'
    <3>1. CreationOk(a) /\ BindingOk(a) /\ MakingOk(a) /\ a \in Children /\ a \in Objects
      BY DEF Launching, Children, Objects
    <3>2. CreationOk(a)'
      BY <3>1 DEF CreationOk, Lasts, ProcessEnds, ObjectsKept, launchVars
    <3>3. BindingOk(a)'
      BY <3>1 DEF BindingOk, StillOpen, Shared, launchVars
    <3>4. MakingOk(a)'
      BY <3>1, HasKept DEF MakingOk, ObjectsKept, launchVars, Has
    <3> QED
      BY <3>2, <3>3, <3>4
  <2>2. ASSUME NEW f \in DOMAIN Files PROVE FileOk(f)'
    BY DEF Launching, FileOk, Shared, launchVars
  <2>3. ASSUME NEW h \in Handles PROVE HandleOk(h)'
    <3>1. HandleOk(h)
      BY DEF Launching
    <3> QED
      BY <3>1 DEF HandleOk, ObjectsKept, launchVars
  <2> QED
    BY <2>1, <2>2, <2>3 DEF Launching
<1>2. InheritsGiven'
  <2>1. ASSUME NEW a \in WinLaunches, process'[a].state # "none"
        PROVE  process[a].state # "none" /\ process'[a].files = process[a].files
    BY <2>1 DEF ProcessEnds, Children
  <2> QED
    BY <2>1 DEF InheritsGiven, Passed, launchVars
<1>3. ASSUME NEW c \in Children, process'[c].state = "running" PROVE process'[c].code = still_active
  BY <1>3 DEF ProcessEnds, Telling
<1>4. ASSUME NEW o \in Objects PROVE HolderOk(o)'
  <2>1. HolderOk(o)
    BY DEF Telling
  <2> QED
    BY <2>1, HasKept DEF HolderOk, ObjectsKept, ProcessEnds, Has
<1>5. ASSUME NEW o \in Objects PROVE StatusOk(o)'
  <2>1. StatusOk(o) /\ (object[o] # none => object[o].of \in Children)
    BY NoneApart DEF Telling, WinTypeOK, Made
  <2> SUFFICES ASSUME object'[o] # none, object'[o].status # still_active
               PROVE  process'[object[o].of].state = "ended" /\ object'[o].status = process'[object[o].of].code
    BY DEF StatusOk, ExitCode, ObjectsKept, Ended
  <2>2. CASE object'[o].status = object[o].status
    BY <2>1, <2>2, EndedStays DEF StatusOk, ExitCode, ObjectsKept, Ended
  <2>3. CASE object'[o].status # object[o].status
    BY <2>3 DEF ObjectsKept, Ended
  <2> QED
    BY <2>2, <2>3
<1> QED
  BY <1>1, <1>2, <1>3, <1>4, <1>5 DEF Telling

LEMMA RecordKept ==
  ASSUME WInv, ProcessEnds, ObjectsKept, UNCHANGED handle, NEW rec \in Begun
  PROVE  /\ EndedWell(rec) => EndedWell(rec)'
         /\ OfItsObject(rec) => OfItsObject(rec)'
<1>1. rec.on \in Objects /\ rec.of \in Children
  BY DEF Begun
<1>2. EndedWell(rec) => EndedWell(rec)'
  BY <1>1, EndedStays DEF EndedWell
<1>3. OfItsObject(rec) => OfItsObject(rec)'
  BY <1>1, HasKept DEF OfItsObject, ObjectsKept, Has
<1> QED
  BY <1>2, <1>3

LEMMA WaitKept ==
  ASSUME WInv, ProcessEnds, ObjectsKept, UNCHANGED handle, NEW w \in Waits, wait'[w] = wait[w]
  PROVE  WaitOk(w)'
<1>1. WaitOk(w) /\ (wait[w] # none => wait[w] \in Begun)
  BY DEF WInv, Telling, WinTypeOK
<1> QED
  BY <1>1, RecordKept DEF WaitOk

LEMMA BlockedKept ==
  ASSUME WInv, ObjectsKept, UNCHANGED blocked
  PROVE  blocked' # none => Has(blocked.object)'
<1>1. blocked # none => blocked.object \in Objects /\ Has(blocked.object)
  BY DEF WInv, Telling, WinTypeOK, Calls
<1> QED
  BY <1>1, HasKept

\* Of whom an object is, and what the code of its child may be.
LEMMA Holder ==
  ASSUME WInv, NEW o \in Objects, Has(o)
  PROVE  /\ object[o] \in Made /\ object[o].handle \in Handles
         /\ object[o].of \in Children /\ process[object[o].of].code \in ExitCodes
         /\ process[object[o].of].state \in {"running", "ended"}
         /\ process[object[o].of].code # still_active => Ended(object[o].of)
<1>1. HolderOk(o) /\ object[o] \in Made /\ object[o].handle \in Handles
  BY DEF WInv, Telling, WinTypeOK, Has, HasHandle, Made
<1>2. object[o].of \in Children
  BY <1>1 DEF HolderOk
<1>3. /\ process[object[o].of].code \in ExitCodes
      /\ process[object[o].of].state \in {"none", "running", "ended"}
  BY <1>2 DEF WInv, WinTypeOK
<1> QED
  BY <1>1, <1>2, <1>3 DEF HolderOk, WInv, Telling, Ended

LEMMA SameKept ==
  UNCHANGED object => ObjectsKept
BY DEF ObjectsKept

LEMMA StoreKept ==
  ASSUME WInv, NEW o \in Objects, Has(o), NEW code \in ExitCodes, Store(o, code),
         code # still_active => process'[object[o].of].state = "ended" /\ code = process'[object[o].of].code
  PROVE  ObjectsKept /\ object' \in [Objects -> Made \cup {none}]
<1>1. object \in [Objects -> Made \cup {none}] /\ object[o] \in Made /\ object[o].of \in Children /\ object[o] # none
  BY Holder, NoneApart DEF WInv, WinTypeOK
<1> DEFINE new == [object[o] EXCEPT !.status = IF code = still_active THEN object[o].status ELSE code]
<1>2. object' = [object EXCEPT ![o] = new]
  BY <1>1 DEF Store, Made
<1>3. /\ new \in Made /\ new # none /\ new.pid = object[o].pid /\ new.handle = object[o].handle
      /\ new.of = object[o].of
      /\ new.status = IF code = still_active THEN object[o].status ELSE code
  BY <1>1, NoneApart DEF Made
<1> HIDE DEF new
<1> QED
  BY <1>1, <1>2, <1>3 DEF ObjectsKept

LEMMA CodeKept ==
  ASSUME WInv, NEW o \in Objects, Has(o), Store(o, ExitCode(o)), UNCHANGED process
  PROVE  ObjectsKept /\ object' \in [Objects -> Made \cup {none}]
<1>1. PICK code : code = process[object[o].of].code
  OBVIOUS
<1>2. Store(o, code)
  BY <1>1 DEF ExitCode
<1>3. code \in ExitCodes /\ (code # still_active => process'[object[o].of].state = "ended")
  BY <1>1, Holder DEF Ended
<1>4. code = process'[object[o].of].code
  BY <1>1
<1> QED
  BY <1>2, <1>3, <1>4, StoreKept

LEMMA PollKept ==
  ASSUME WInv, NEW o \in Objects, object[o] # none, Poll(o), UNCHANGED process
  PROVE  ObjectsKept /\ object' \in [Objects -> Made \cup {none}]
<1>1. CASE Has(o) /\ Store(o, ExitCode(o))
  BY <1>1, CodeKept
<1>2. CASE UNCHANGED object
  BY <1>2, SameKept DEF WInv, WinTypeOK
<1> QED
  BY <1>1, <1>2 DEF Poll, Has

-------------------------------------------------------------------------------
(***************************************************************************)
(* The calls that ask and wait, and those that end a process.              *)
(***************************************************************************)
Processes == [Children -> [state : {"none", "running", "ended"}, pid : Pids \cup {0},
                           code : ExitCodes, files : SUBSET Entries]]

LEMMA CallTypes ==
  ASSUME WInv, UNCHANGED <<handle, launchVars>>, process' \in Processes,
         object' \in [Objects -> Made \cup {none}], blocked' \in Calls \cup {none},
         wait' \in [Waits -> Begun \cup {none}]
  PROVE  WinTypeOK'
BY DEF WInv, WinTypeOK, launchVars, Processes

LEMMA SameProcess ==
  ASSUME WInv, UNCHANGED process
  PROVE  ProcessEnds /\ process' \in Processes
BY DEF ProcessEnds, WInv, WinTypeOK, Processes

\* A running process ends with a code.
EndsWith(q, code) == [q EXCEPT !.state = "ended", !.code = code]

LEMMA EndsWithType ==
  ASSUME NEW q, q \in [state : {"none", "running", "ended"}, pid : Pids \cup {0},
                       code : ExitCodes, files : SUBSET Entries], NEW code \in ExitCodes
  PROVE  /\ EndsWith(q, code) \in [state : {"none", "running", "ended"}, pid : Pids \cup {0},
                                   code : ExitCodes, files : SUBSET Entries]
         /\ EndsWith(q, code).state = "ended" /\ EndsWith(q, code).pid = q.pid
         /\ EndsWith(q, code).files = q.files /\ EndsWith(q, code).code = code
BY DEF EndsWith

LEMMA ProcessesEnding ==
  ASSUME WInv, NEW S \in SUBSET Children, \A c \in S : process[c].state = "running", NEW code \in ExitCodes,
         process' = [c \in Children |-> IF c \in S THEN EndsWith(process[c], code) ELSE process[c]]
  PROVE  ProcessEnds /\ process' \in Processes
<1>1. process \in Processes
  BY DEF WInv, WinTypeOK, Processes
<1>2. ASSUME NEW c \in Children
      PROVE  /\ EndsWith(process[c], code) \in [state : {"none", "running", "ended"}, pid : Pids \cup {0},
                                                code : ExitCodes, files : SUBSET Entries]
             /\ EndsWith(process[c], code).state = "ended" /\ EndsWith(process[c], code).pid = process[c].pid
             /\ EndsWith(process[c], code).files = process[c].files
  BY <1>1, EndsWithType DEF Processes
<1> QED
  BY <1>1, <1>2 DEF ProcessEnds, Processes

LEMMA OneEnding ==
  ASSUME WInv, NEW c \in Children, process[c].state = "running", NEW code \in ExitCodes,
         process' = [process EXCEPT ![c].state = "ended", ![c].code = code]
  PROVE  ProcessEnds /\ process' \in Processes
<1>1. process \in Processes
  BY DEF WInv, WinTypeOK, Processes
<1> DEFINE S == {c}
<1>2. process' = [d \in Children |-> IF d \in S THEN EndsWith(process[d], code) ELSE process[d]]
  BY <1>1 DEF EndsWith, Processes
<1>3. S \in SUBSET Children /\ \A d \in S : process[d].state = "running"
  OBVIOUS
<1> HIDE DEF S
<1> QED
  BY <1>2, <1>3, ProcessesEnding

LEMMA CallInv ==
  ASSUME WInv, UNCHANGED <<handle, launchVars, wait>>, ProcessEnds, process' \in Processes,
         ObjectsKept, object' \in [Objects -> Made \cup {none}],
         blocked' \in Calls \cup {none}, blocked' # none => Has(blocked.object)'
  PROVE  WInv'
<1>1. WinTypeOK'
  BY CallTypes DEF WInv, WinTypeOK
<1> QED
  BY <1>1, CallStep, WaitKept

LEMMA AskingStep ==
  ASSUME WInv, NEW o \in Objects, running(o) \/ wait_(o) \/ terminate(o)
  PROVE  WInv'
<1>1. object[o] # none /\ UNCHANGED <<handle, launchVars, wait>> /\ blocked \in Calls \cup {none}
      /\ object \in [Objects -> Made \cup {none}]
  BY DEF running, wait_, terminate, Idle, WInv, WinTypeOK
<1>2. CASE running(o)
  BY <1>1, <1>2, PollKept, BlockedKept, SameProcess, CallInv DEF running
<1>3. CASE wait_(o)
  <2>1. ObjectsKept /\ object' \in [Objects -> Made \cup {none}] /\ UNCHANGED process
    BY <1>1, <1>3, PollKept DEF wait_
  <2>2. CASE Running(o)
    <3>1. Has(o) /\ blocked' = [object |-> o, call |-> "wait"]
      BY <1>1, <1>3, <2>2 DEF wait_, Running, Has
    <3>2. blocked' \in Calls /\ blocked'.object = o
      BY <3>1 DEF Calls
    <3> QED
      BY <1>1, <2>1, <3>1, <3>2, HasKept, SameProcess, CallInv
  <2>3. CASE ~Running(o)
    BY <1>1, <1>3, <2>1, <2>3, SameProcess, CallInv DEF wait_
  <2> QED
    BY <2>2, <2>3
<1>4. CASE terminate(o)
  <2>1. ObjectsKept /\ object' \in [Objects -> Made \cup {none}]
    BY <1>1, <1>4, SameKept DEF terminate
  <2>2. CASE HasHandle(o) /\ process[object[o].of].state = "running"
    <3>1. Has(o) /\ blocked' = [object |-> o, call |-> "terminate"] /\ object[o].of \in Children
      BY <1>1, <1>4, <2>2, Holder DEF terminate, Has
    <3>2. blocked' \in Calls /\ blocked'.object = o /\ Killed \in ExitCodes
      BY <3>1 DEF Calls, ExitCodes
    <3>3. ProcessEnds /\ process' \in Processes
      BY <1>4, <2>2, <3>1, <3>2, OneEnding DEF terminate
    <3> QED
      BY <1>1, <2>1, <3>1, <3>2, <3>3, HasKept, CallInv
  <2>3. CASE ~(HasHandle(o) /\ process[object[o].of].state = "running")
    BY <1>1, <1>4, <2>1, <2>3, SameProcess, BlockedKept, CallInv DEF terminate
  <2> QED
    BY <2>2, <2>3
<1> QED
  BY <1>2, <1>3, <1>4

LEMMA EndingStep ==
  ASSUME WInv,
         \/ \E c \in Children, code \in Codes : Exits(c, code)
         \/ \E o \in Objects : by_pid(o)
  PROVE  WInv'
<1>1. /\ UNCHANGED <<handle, launchVars, wait, blocked, object>> /\ blocked \in Calls \cup {none}
      /\ object \in [Objects -> Made \cup {none}]
  BY DEF Exits, by_pid, callVars, WInv, WinTypeOK
<1>2. ProcessEnds /\ process' \in Processes
  <2>1. CASE \E c \in Children, code \in Codes : Exits(c, code)
    <3>1. PICK c \in Children, code \in Codes : Exits(c, code)
      BY <2>1
    <3>2. code \in ExitCodes
      BY DEF ExitCodes
    <3> QED
      BY <3>1, <3>2, OneEnding DEF Exits
  <2>2. CASE \E o \in Objects : by_pid(o)
    <3>1. PICK o \in Objects : by_pid(o)
      BY <2>2
    <3> DEFINE S == {c \in Children : InUse(c) /\ process[c].pid = object[o].pid /\ process[c].state = "running"}
    <3>2. process' = [c \in Children |-> IF c \in S THEN EndsWith(process[c], 0) ELSE process[c]]
      BY <3>1 DEF by_pid, EndsWith
    <3>3. S \in SUBSET Children /\ (\A c \in S : process[c].state = "running") /\ 0 \in ExitCodes
      BY DEF ExitCodes
    <3> HIDE DEF S
    <3> QED
      BY <3>2, <3>3, ProcessesEnding
  <2> QED
    BY <2>1, <2>2
<1> QED
  BY <1>1, <1>2, SameKept, BlockedKept, CallInv

LEMMA WaitedStep ==
  ASSUME WInv, Waited
  PROVE  WInv'
<1>1. Has(blocked.object) /\ blocked.object \in Objects /\ Ended(object[blocked.object].of)
      /\ UNCHANGED <<handle, launchVars, wait, process>> /\ blocked' = none
  BY DEF Waited, WInv, Telling, WinTypeOK, Calls
<1> DEFINE o == blocked.object
<1>2. ObjectsKept /\ object' \in [Objects -> Made \cup {none}]
  <2>1. Store(o, ExitCode(o)) \/ UNCHANGED object
    BY DEF Waited
  <2>2. CASE Store(o, ExitCode(o))
    BY <1>1, <2>2, CodeKept
  <2>3. CASE UNCHANGED object
    BY <2>3, SameKept DEF WInv, WinTypeOK
  <2> QED
    BY <2>1, <2>2, <2>3
<1> QED
  BY <1>1, <1>2, SameProcess, CallInv

-------------------------------------------------------------------------------
(***************************************************************************)
(* async_wait and its handlers.  A record of a wait says the truth.        *)
(***************************************************************************)
RecordOk(rec) ==
  /\ rec.state # "done" => rec.ec = "ok" /\ OfItsObject(rec)
  /\ rec.state = "done" => EndedWell(rec)

LEMMA WaitStep ==
  ASSUME WInv, NEW w \in Waits, NEW rec \in Begun, RecordOk(rec), AfterWait(w, rec),
         ObjectsKept, object' \in [Objects -> Made \cup {none}]
  PROVE  WInv'
<1>1. UNCHANGED <<handle, launchVars, process, blocked>> /\ wait' = [wait EXCEPT ![w] = rec]
  BY DEF AfterWait
<1>2. wait \in [Waits -> Begun \cup {none}] /\ blocked \in Calls \cup {none}
  BY DEF WInv, WinTypeOK
<1>3. wait' \in [Waits -> Begun \cup {none}]
  BY <1>1, <1>2
<1>4. ProcessEnds /\ process' \in Processes
  BY <1>1, SameProcess
<1>5. WinTypeOK'
  BY <1>1, <1>2, <1>3, <1>4, CallTypes
<1>6. ASSUME NEW v \in Waits PROVE WaitOk(v)'
  <2>1. CASE v = w
    <3>1. wait'[v] = rec
      BY <1>1, <1>2, <2>1
    <3> QED
      BY <1>1, <1>4, <3>1, RecordKept DEF RecordOk, WaitOk
  <2>2. CASE v # w
    BY <1>1, <1>2, <1>4, <2>2, WaitKept
  <2> QED
    BY <2>1, <2>2
<1> QED
  BY <1>1, <1>4, <1>5, <1>6, CallStep, BlockedKept

LEMMA BegunWait ==
  ASSUME WInv, NEW w \in Waits, wait[w] # none
  PROVE  /\ wait[w] \in Begun /\ wait[w].on \in Objects
         /\ wait[w].state # "done" => wait[w].ec = "ok" /\ Has(wait[w].on) /\ OfItsObject(wait[w])
BY DEF WInv, WinTypeOK, Begun, Telling, WaitOk, OfItsObject

\* What a wait reports depends on these fields alone.
LEMMA SameRecord ==
  ASSUME NEW rec, NEW old, rec.on = old.on, rec.of = old.of, rec.held = old.held, OfItsObject(old)
  PROVE  OfItsObject(rec)
BY DEF OfItsObject

LEMMA AsyncWaitStep ==
  ASSUME WInv, NEW w \in Waits, NEW o \in Objects, async_wait(w, o)
  PROVE  WInv'
<1> DEFINE begun == Beginning(o)
<1>1. /\ begun \in Begun /\ begun.on = o /\ begun.state = "pending" /\ begun.ec = "ok"
      /\ begun.of = object[o].of
      /\ begun.held = IF HasHandle(o) THEN handle[object[o].handle].what ELSE "nothing"
  <2>1. object[o] # none /\ object[o].of \in Children
    BY DEF async_wait, WInv, WinTypeOK, Made
  <2>2. HasHandle(o) => handle[object[o].handle].what \in {"process", "limited"}
    BY <2>1 DEF WInv, Telling, HolderOk, Has
  <2> QED
    BY <2>1, <2>2 DEF Beginning, Begun, ExitCodes
<1>2. /\ object[o] # none /\ object[o] \in Made /\ object[o].status \in ExitCodes
      /\ ObjectsKept /\ object' \in [Objects -> Made \cup {none}]
  BY NoneApart, SameKept DEF async_wait, WInv, WinTypeOK, Made
<1>3. \/ /\ object[o].status # still_active
         /\ AfterWait(w, [begun EXCEPT !.state = "done", !.code = object[o].status])
      \/ HasHandle(o) /\ AfterWait(w, begun)
      \/ ~HasHandle(o) /\ AfterWait(w, [begun EXCEPT !.state = "done", !.ec = "bad_handle"])
  BY DEF async_wait
<1> HIDE DEF begun
<1>4. CASE /\ object[o].status # still_active
           /\ AfterWait(w, [begun EXCEPT !.state = "done", !.code = object[o].status])
  <2> DEFINE rec == [begun EXCEPT !.state = "done", !.code = object[o].status]
  <2>1. rec \in Begun /\ rec.state = "done" /\ rec.ec = "ok" /\ rec.code = object[o].status
        /\ rec.of = object[o].of
    BY <1>1, <1>2 DEF Begun
  <2>2. StatusOk(o)
    BY DEF WInv, Telling
  <2> HIDE DEF rec
  <2>3. RecordOk(rec)
    BY <1>2, <1>4, <2>1, <2>2 DEF RecordOk, EndedWell, StatusOk, ExitCode
  <2> QED
    BY <1>2, <1>4, <2>1, <2>3, WaitStep DEF rec
<1>5. CASE HasHandle(o) /\ AfterWait(w, begun)
  BY <1>1, <1>2, <1>5, WaitStep DEF RecordOk, OfItsObject, Has
<1>6. CASE ~HasHandle(o) /\ AfterWait(w, [begun EXCEPT !.state = "done", !.ec = "bad_handle"])
  <2> DEFINE rec == [begun EXCEPT !.state = "done", !.ec = "bad_handle"]
  <2>1. rec \in Begun /\ rec.state = "done" /\ rec.ec = "bad_handle" /\ rec.held = "nothing"
    BY <1>1, <1>6 DEF Begun
  <2> HIDE DEF rec
  <2>2. RecordOk(rec)
    BY <2>1 DEF RecordOk, EndedWell
  <2> QED
    BY <1>2, <1>6, <2>1, <2>2, WaitStep DEF rec
<1> QED
  BY <1>3, <1>4, <1>5, <1>6

LEMMA SignalStep ==
  ASSUME WInv, NEW w \in Waits, Signal(w)
  PROVE  WInv'
<1> DEFINE rec == [wait[w] EXCEPT !.state = "signalled"]
<1>1. wait[w] # none /\ wait[w].state = "pending" /\ UNCHANGED object /\ AfterWait(w, rec)
  BY DEF Signal
<1>2. wait[w] \in Begun /\ wait[w].ec = "ok" /\ OfItsObject(wait[w])
  BY <1>1, BegunWait
<1>3. rec \in Begun /\ rec.state = "signalled" /\ rec.ec = "ok"
      /\ rec.on = wait[w].on /\ rec.of = wait[w].of /\ rec.held = wait[w].held
  BY <1>2 DEF Begun
<1> HIDE DEF rec
<1>4. RecordOk(rec)
  BY <1>2, <1>3, SameRecord DEF RecordOk
<1>5. ObjectsKept /\ object' \in [Objects -> Made \cup {none}]
  BY <1>1, SameKept DEF WInv, WinTypeOK
<1> QED
  BY <1>1, <1>3, <1>4, <1>5, WaitStep

LEMMA HandlerSignalledStep ==
  ASSUME WInv, NEW w \in Waits, HandlerSignalled(w)
  PROVE  WInv'
<1> DEFINE o == wait[w].on
           Done(code) == [wait[w] EXCEPT !.state = "done", !.code = code]
           Denied == [wait[w] EXCEPT !.state = "done", !.ec = "denied"]
           Again  == [wait[w] EXCEPT !.state = "pending"]
<1>1. wait[w] # none /\ wait[w].state = "signalled"
  BY DEF HandlerSignalled
<1>2. wait[w] \in Begun /\ wait[w].ec = "ok" /\ Has(o) /\ o \in Objects /\ OfItsObject(wait[w])
  BY <1>1, BegunWait
<1>3. /\ object[o] # none /\ object[o] \in Made /\ object[o].status \in ExitCodes /\ object[o].of \in Children
      /\ process[object[o].of].code \in ExitCodes
      /\ process[object[o].of].code # still_active => Ended(object[o].of)
  BY <1>2, Holder DEF Has, Made
<1>4. \/ object[o].status # still_active /\ UNCHANGED object /\ AfterWait(w, Done(object[o].status))
      \/ ~Asks(o) /\ UNCHANGED object /\ AfterWait(w, Denied)
      \/ /\ Store(o, ExitCode(o))
         /\ \/ AfterWait(w, Again)
            \/ ExitCode(o) # still_active /\ AfterWait(w, Done(ExitCode(o)))
  BY DEF HandlerSignalled
<1>5. \A code \in ExitCodes : Done(code) \in Begun /\ Done(code).state = "done" /\ Done(code).ec = "ok"
                              /\ Done(code).code = code /\ Done(code).of = object[o].of
  BY <1>2 DEF Begun, OfItsObject
<1>6. /\ Denied \in Begun /\ Denied.state = "done" /\ Denied.ec = "denied" /\ Denied.held = wait[w].held
      /\ Again \in Begun /\ Again.state = "pending" /\ Again.ec = "ok"
      /\ Again.on = o /\ Again.of = wait[w].of /\ Again.held = wait[w].held
  BY <1>2 DEF Begun
<1> HIDE DEF Done, Denied, Again
<1>7. CASE object[o].status # still_active /\ UNCHANGED object /\ AfterWait(w, Done(object[o].status))
  <2>1. StatusOk(o)
    BY <1>2 DEF WInv, Telling
  <2>2. RecordOk(Done(object[o].status))
    BY <1>3, <1>5, <1>7, <2>1 DEF RecordOk, EndedWell, StatusOk, ExitCode
  <2> QED
    BY <1>3, <1>5, <1>7, <2>2, WaitStep, SameKept DEF WInv, WinTypeOK
<1>8. CASE ~Asks(o) /\ UNCHANGED object /\ AfterWait(w, Denied)
  <2>1. wait[w].held = "limited"
    BY <1>2, <1>8 DEF OfItsObject, Asks, WInv, Telling, HolderOk
  <2>2. RecordOk(Denied)
    BY <1>6, <2>1 DEF RecordOk, EndedWell
  <2> QED
    BY <1>6, <1>8, <2>2, WaitStep, SameKept DEF WInv, WinTypeOK
<1>9. CASE /\ Store(o, ExitCode(o))
           /\ \/ AfterWait(w, Again)
              \/ ExitCode(o) # still_active /\ AfterWait(w, Done(ExitCode(o)))
  <2>1. UNCHANGED process
    BY <1>9 DEF AfterWait
  <2>2. ObjectsKept /\ object' \in [Objects -> Made \cup {none}]
    BY <1>2, <1>9, <2>1, CodeKept
  <2>3. CASE AfterWait(w, Again)
    <3>1. RecordOk(Again)
      BY <1>2, <1>6, SameRecord DEF RecordOk
    <3> QED
      BY <1>6, <2>2, <2>3, <3>1, WaitStep
  <2>4. CASE ExitCode(o) # still_active /\ AfterWait(w, Done(ExitCode(o)))
    <3>1. ExitCode(o) \in ExitCodes /\ Ended(object[o].of) /\ process[object[o].of].code = ExitCode(o)
      BY <1>3, <2>4 DEF ExitCode
    <3>2. RecordOk(Done(ExitCode(o))) /\ Done(ExitCode(o)) \in Begun
      BY <1>3, <1>5, <3>1 DEF RecordOk, EndedWell
    <3> QED
      BY <2>2, <2>4, <3>2, WaitStep
  <2> QED
    BY <1>9, <2>3, <2>4
<1> QED
  BY <1>4, <1>7, <1>8, <1>9

LEMMA HandlerAbortedStep ==
  ASSUME WInv, NEW w \in Waits, HandlerAborted(w)
  PROVE  WInv'
<1> DEFINE Aborted == [wait[w] EXCEPT !.state = "done", !.ec = "aborted"]
           Again   == [wait[w] EXCEPT !.state = "pending"]
<1>1. wait[w] # none /\ wait[w].state = "aborted" /\ UNCHANGED object
  BY DEF HandlerAborted
<1>2. (wait[w].cancelled /\ AfterWait(w, Aborted)) \/ AfterWait(w, Again)
  BY DEF HandlerAborted
<1>3. wait[w] \in Begun /\ wait[w].ec = "ok" /\ OfItsObject(wait[w])
  BY <1>1, BegunWait
<1>4. /\ Aborted \in Begun /\ Aborted.state = "done" /\ Aborted.ec = "aborted"
      /\ Aborted.cancelled = wait[w].cancelled
      /\ Again \in Begun /\ Again.state = "pending" /\ Again.ec = "ok"
      /\ Again.on = wait[w].on /\ Again.of = wait[w].of /\ Again.held = wait[w].held
  BY <1>3 DEF Begun
<1> HIDE DEF Aborted, Again
<1>5. ObjectsKept /\ object' \in [Objects -> Made \cup {none}]
  BY <1>1, SameKept DEF WInv, WinTypeOK
<1>6. CASE wait[w].cancelled /\ AfterWait(w, Aborted)
  <2>1. RecordOk(Aborted)
    BY <1>4, <1>6 DEF RecordOk, EndedWell
  <2> QED
    BY <1>4, <1>5, <1>6, <2>1, WaitStep
<1>7. CASE AfterWait(w, Again)
  <2>1. RecordOk(Again)
    BY <1>3, <1>4, SameRecord DEF RecordOk
  <2> QED
    BY <1>4, <1>5, <1>7, <2>1, WaitStep
<1> QED
  BY <1>2, <1>6, <1>7

LEMMA CancelStep ==
  ASSUME WInv, NEW w \in Waits, Cancel(w)
  PROVE  WInv'
<1> DEFINE Hit(v) == wait[v] # none /\ wait[v].on = wait[w].on /\ wait[v].state \in {"pending", "aborted"}
           New(v) == [wait[v] EXCEPT !.state = "aborted", !.cancelled = @ \/ v = w]
<1>1. /\ wait' = [v \in Waits |-> IF Hit(v) THEN New(v) ELSE wait[v]]
      /\ UNCHANGED <<handle, launchVars, process, object, blocked>>
  BY DEF Cancel
<1>2. ASSUME NEW v \in Waits, Hit(v)
      PROVE  New(v) \in Begun /\ New(v).state = "aborted" /\ New(v).ec = "ok" /\ OfItsObject(New(v))
  <2>1. wait[v] \in Begun /\ wait[v].ec = "ok" /\ OfItsObject(wait[v])
    BY <1>2, BegunWait
  <2>2. /\ New(v) \in Begun /\ New(v).state = "aborted" /\ New(v).ec = "ok"
        /\ New(v).on = wait[v].on /\ New(v).of = wait[v].of /\ New(v).held = wait[v].held
    BY <2>1 DEF Begun
  <2> QED
    BY <2>1, <2>2, SameRecord
<1> HIDE DEF Hit, New
<1>3. wait' \in [Waits -> Begun \cup {none}]
  BY <1>1, <1>2 DEF WInv, WinTypeOK
<1>4. ObjectsKept /\ ProcessEnds /\ process' \in Processes
  BY <1>1, SameKept, SameProcess
<1>5. WinTypeOK'
  BY <1>1, <1>3, <1>4, CallTypes DEF WInv, WinTypeOK
<1>6. ASSUME NEW v \in Waits PROVE WaitOk(v)'
  <2>1. CASE Hit(v)
    <3>1. PICK rec \in Begun : rec = New(v)
      BY <1>2, <2>1
    <3>2. wait'[v] = rec /\ rec.state = "aborted" /\ rec.ec = "ok" /\ OfItsObject(rec)
      BY <1>1, <1>2, <2>1, <3>1
    <3>3. OfItsObject(rec)'
      BY <1>1, <1>4, <3>2, RecordKept
    <3> QED
      BY <3>2, <3>3 DEF WaitOk
  <2>2. CASE ~Hit(v)
    BY <1>1, <1>4, <2>2, WaitKept
  <2> QED
    BY <2>1, <2>2
<1> QED
  BY <1>1, <1>4, <1>5, <1>6, CallStep, BlockedKept

-------------------------------------------------------------------------------
(***************************************************************************)
(* detach, the destructor and move assignment: what the object held is     *)
(* closed; objects keep what they have or get what another one had.        *)
(***************************************************************************)
\* Each object is afterwards what src says, or holds nothing.
Rearranged(o, src) ==
  /\ \A q \in Objects :
       \/ object'[q] = none
       \/ object'[q] = object[src[q]] /\ object[src[q]] # none
       \/ object[q] # none /\ object'[q] # none /\ object'[q].handle = INVALID
          /\ object'[q].of = object[q].of /\ object'[q].status = object[q].status
  /\ \A q \in Objects : object[q] = none => object'[q] = none
  /\ \A q \in Objects : Has(q)' => src[q] # o
  /\ \A q, r \in Objects : Has(q)' /\ Has(r)' /\ src[q] = src[r] => q = r
  /\ \A r \in Objects \ {o} : Has(r) => \E q \in Objects : Has(q)' /\ src[q] = r
  /\ \A q \in Objects : ~Quiet(q) => object'[q] = object[q]

LEMMA DropStep ==
  ASSUME WInv, WinTypeOK', Calm, blocked = none, NEW o \in Objects, object[o] # none, Drop(o), ProcessEnds,
         UNCHANGED <<launchVars, wait, blocked>>, NEW src \in [Objects -> Objects], Rearranged(o, src)
  PROVE  WInv'
<1> USE DEF WInv
<1>1. ASSUME NEW h \in Handles
      PROVE  /\ Has(o) /\ object[o].handle = h => handle'[h] = none
             /\ ~(Has(o) /\ object[o].handle = h) => handle'[h] = handle[h]
  BY DEF Drop, Has, HasHandle, WinTypeOK
<1>2. ASSUME NEW h \in Handles, handle[h] # none, handle[h].what \notin {"process", "limited"}
      PROVE  handle'[h] = handle[h]
  BY <1>1, <1>2 DEF Telling, HolderOk
<1>3. \A a \in WinLaunches : stage[a] \in {"idle", "done"}
  BY DEF Calm
<1>4. ASSUME NEW q \in Objects, Has(q)'
      PROVE  object'[q] = object[src[q]] /\ Has(src[q]) /\ src[q] # o
  BY <1>4 DEF Rearranged, Has, HasHandle
<1>5. Launching'
  <2>1. ASSUME NEW a \in WinLaunches PROVE CreationOk(a)' /\ BindingOk(a)' /\ MakingOk(a)'
    <3>1. CreationOk(a) /\ BindingOk(a) /\ a \in Children /\ a \in Objects
      BY DEF Launching, Children, Objects
    <3>2. CreationOk(a)'
      BY <1>3, <3>1 DEF CreationOk, Lasts, ProcessEnds, Rearranged, launchVars
    <3>3. StillOpen(a) => bound[a].handle \in Handles
      BY DEF StillOpen, WinTypeOK
    <3>4. BindingOk(a)'
      BY <1>2, <3>1, <3>3 DEF BindingOk, StillOpen, Shared, launchVars
    <3>5. MakingOk(a)'
      BY <1>3 DEF MakingOk, launchVars
    <3> QED
      BY <3>2, <3>4, <3>5
  <2>2. ASSUME NEW f \in DOMAIN Files PROVE FileOk(f)'
    <3>1. FileOk(f) /\ Files[f] \in Handles
      BY FilesType DEF Launching
    <3>2. handle'[Files[f]] = handle[Files[f]]
      BY <1>2, <3>1 DEF FileOk
    <3> QED
      BY <3>1, <3>2 DEF FileOk, Shared, launchVars
  <2>3. ASSUME NEW h \in Handles PROVE HandleOk(h)'
    <3> SUFFICES ASSUME handle'[h] # none PROVE HandleOk(h)'
      BY DEF HandleOk
    <3>1. HandleOk(h) /\ handle'[h] = handle[h] /\ handle[h] # none /\ ~(Has(o) /\ object[o].handle = h)
      BY <1>1 DEF Launching
    <3>2. ASSUME handle[h].what \in {"process", "limited"}
          PROVE  \E q \in Objects : object'[q] # none /\ object'[q].handle = h
      <4>1. PICK r \in Objects : object[r] # none /\ object[r].handle = h
        BY <1>3, <3>1, <3>2 DEF HandleOk
      <4>2. Has(r) /\ r # o
        BY <3>1, <4>1, NoneApart DEF Has, HasHandle
      <4>3. PICK q \in Objects : Has(q)' /\ src[q] = r
        BY <4>2 DEF Rearranged
      <4> QED
        BY <1>4, <4>1, <4>3
    <3> QED
      BY <3>1, <3>2 DEF HandleOk, launchVars
  <2> QED
    BY <2>1, <2>2, <2>3 DEF Launching
<1>6. InheritsGiven'
  <2>1. ASSUME NEW a \in WinLaunches, process'[a].state # "none"
        PROVE  process[a].state # "none" /\ process'[a].files = process[a].files
    BY <2>1 DEF ProcessEnds, Children
  <2> QED
    BY <2>1 DEF InheritsGiven, Passed, launchVars
<1>7. ASSUME NEW c \in Children, process'[c].state = "running" PROVE process'[c].code = still_active
  BY <1>7 DEF ProcessEnds, Telling
<1>8. ASSUME NEW q \in Objects PROVE HolderOk(q)'
  <2> SUFFICES ASSUME Has(q)' PROVE HolderOk(q)'
    BY DEF HolderOk
  <2> DEFINE r == src[q]
  <2>1. object'[q] = object[r] /\ Has(r) /\ r # o /\ r \in Objects
    BY <1>4
  <2>2. HolderOk(r) /\ object[r].handle \in Handles
    BY <2>1, Holder DEF Telling
  <2>3. handle'[object[r].handle] = handle[object[r].handle]
    BY <1>1, <2>1, <2>2 DEF HolderOk
  <2>4. ASSUME NEW p2 \in Objects, p2 # q, Has(p2)' PROVE object'[p2].handle # object'[q].handle
    <3>1. object'[p2] = object[src[p2]] /\ Has(src[p2]) /\ src[p2] \in Objects
      BY <1>4, <2>4
    <3>2. src[p2] # r
      BY <2>4 DEF Rearranged
    <3> QED
      BY <2>1, <2>2, <3>1, <3>2 DEF HolderOk
  <2>5. process'[object[r].of].pid = process[object[r].of].pid /\ process'[object[r].of].state # "none"
    BY <2>1, <2>2 DEF HolderOk, ProcessEnds
  <2> QED
    BY <2>1, <2>2, <2>3, <2>4, <2>5 DEF HolderOk
<1>9. ASSUME NEW q \in Objects PROVE StatusOk(q)'
  <2>1. ASSUME NEW r \in Objects, object[r] # none PROVE StatusOk(r) /\ object[r].of \in Children
    BY <2>1 DEF Telling, WinTypeOK, Made
  <2>2. CASE object'[q] = object[src[q]] /\ object[src[q]] # none
    BY <2>1, <2>2, EndedStays DEF StatusOk, ExitCode, Ended
  <2>3. CASE object[q] # none /\ object'[q].of = object[q].of /\ object'[q].status = object[q].status
    BY <2>1, <2>3, EndedStays DEF StatusOk, ExitCode, Ended
  <2> QED
    BY <2>2, <2>3 DEF Rearranged, StatusOk
<1>10. ASSUME NEW w \in Waits PROVE WaitOk(w)'
  <2> SUFFICES ASSUME wait[w] # none PROVE WaitOk(w)'
    BY DEF WaitOk
  <2>1. WaitOk(w) /\ wait[w] \in Begun /\ wait[w].on \in Objects /\ wait[w].of \in Children
    BY NoneApart DEF Telling, WinTypeOK, Begun
  <2>2. CASE wait[w].state = "done"
    BY <2>1, <2>2, EndedStays DEF WaitOk, EndedWell
  <2>3. CASE wait[w].state # "done"
    <3> DEFINE q == wait[w].on
    <3>1. wait[w].ec = "ok" /\ OfItsObject(wait[w]) /\ Has(q)
      BY <2>1, <2>3 DEF WaitOk, OfItsObject
    <3>2. object'[q] = object[q]
      BY <2>1, <2>3 DEF Quiet, Rearranged
    <3>3. Has(q)'
      BY <3>1, <3>2 DEF Has, HasHandle
    <3>4. object[q].handle \in Handles /\ ~(Has(o) /\ object[o].handle = object[q].handle)
      <4>1. object[q] = object[src[q]] /\ src[q] # o /\ Has(src[q]) /\ src[q] \in Objects
        BY <1>4, <2>1, <3>2, <3>3
      <4>2. Has(o) => object[o].handle # object[src[q]].handle
        BY <4>1 DEF Telling, HolderOk
      <4> QED
        BY <2>1, <3>1, <4>1, <4>2, Holder
    <3>5. handle'[object[q].handle] = handle[object[q].handle]
      BY <1>1, <3>4
    <3> QED
      BY <2>3, <3>1, <3>2, <3>3, <3>5 DEF WaitOk, OfItsObject
  <2> QED
    BY <2>2, <2>3
<1> QED
  BY <1>5, <1>6, <1>7, <1>8, <1>9, <1>10 DEF Telling

LEMMA DropTypes ==
  ASSUME WInv, NEW o \in Objects, object[o] # none, Drop(o), UNCHANGED <<launchVars, wait, blocked>>,
         process' \in Processes, object' \in [Objects -> Made \cup {none}]
  PROVE  WinTypeOK'
<1>1. handle \in [Handles -> Entries \cup {none}]
  BY DEF WInv, WinTypeOK
<1>2. handle' \in [Handles -> Entries \cup {none}]
  BY <1>1 DEF Drop
<1> QED
  BY <1>2 DEF WInv, WinTypeOK, launchVars, Processes

LEMMA EmptiedType ==
  ASSUME NEW rec \in Made, NEW pid \in {0, -1}
  PROVE  /\ Emptied(rec, pid) \in Made /\ Emptied(rec, pid).handle = INVALID
         /\ Emptied(rec, pid).of = rec.of /\ Emptied(rec, pid).status = rec.status
BY DEF Emptied, Made

LEMMA ObjectType ==
  ASSUME WInv, NEW o \in Objects, object[o] # none
  PROVE  object[o] \in Made /\ object[o].status \in ExitCodes
BY DEF WInv, WinTypeOK, Made

\* Objects keep their own, but for o, which holds nothing any more.
LEMMA AloneRearranged ==
  ASSUME WInv, NEW o \in Objects, object[o] # none, Quiet(o), NEW rec, object' = [object EXCEPT ![o] = rec],
         rec = none \/ (rec.handle = INVALID /\ rec.of = object[o].of /\ rec.status = object[o].status)
  PROVE  Rearranged(o, [q \in Objects |-> q])
<1> DEFINE src == [q \in Objects |-> q]
<1>1. object'[o] = rec /\ \A q \in Objects \ {o} : object'[q] = object[q]
  BY DEF WInv, WinTypeOK
<1>2. ~Has(o)'
  BY <1>1 DEF Has, HasHandle
<1>3. ASSUME NEW q \in Objects, q # o PROVE Has(q)' <=> Has(q)
  BY <1>1, <1>3 DEF Has, HasHandle
<1>4. \A q \in Objects : src[q] = q
  OBVIOUS
<1> HIDE DEF src
<1>5. \A q \in Objects : ~Quiet(q) => object'[q] = object[q]
  BY <1>1
<1> QED
  BY <1>1, <1>2, <1>3, <1>4, <1>5 DEF Rearranged, src

LEMMA DetachStep ==
  ASSUME WInv, NEW o \in Objects, detach(o)
  PROVE  WInv'
<1> DEFINE rec == Emptied(object[o], 0)
<1>1. /\ Calm /\ blocked = none /\ object[o] # none /\ Quiet(o) /\ Drop(o)
      /\ UNCHANGED <<launchVars, process, blocked, wait>>
      /\ object' = [object EXCEPT ![o] = rec]
  BY DEF detach, Idle, WInv, WinTypeOK
<1>2. rec \in Made /\ rec.handle = INVALID /\ rec.of = object[o].of /\ rec.status = object[o].status
  BY <1>1, ObjectType, EmptiedType
<1> HIDE DEF rec
<1>3. object' \in [Objects -> Made \cup {none}]
  BY <1>1, <1>2 DEF WInv, WinTypeOK
<1>4. WinTypeOK' /\ ProcessEnds
  BY <1>1, <1>3, SameProcess, DropTypes
<1>5. Rearranged(o, [q \in Objects |-> q]) /\ [q \in Objects |-> q] \in [Objects -> Objects]
  BY <1>1, <1>2, AloneRearranged
<1> QED
  BY <1>1, <1>4, <1>5, DropStep

LEMMA DestroyStep ==
  ASSUME WInv, NEW o \in Objects, destroy(o)
  PROVE  WInv'
<1>1. /\ Calm /\ blocked = none /\ object[o] # none /\ Quiet(o) /\ Drop(o)
      /\ UNCHANGED <<launchVars, blocked, wait>>
      /\ object' = [object EXCEPT ![o] = none]
  BY DEF destroy, Idle
<1>2. ProcessEnds /\ process' \in Processes
  <2>1. CASE HasHandle(o) /\ Asks(o) /\ process[object[o].of].state = "running"
    <3>1. object[o].of \in Children /\ Killed \in ExitCodes
      BY <1>1, <2>1, Holder DEF Has, ExitCodes
    <3> QED
      BY <2>1, <3>1, OneEnding DEF destroy
  <2>2. CASE ~(HasHandle(o) /\ Asks(o) /\ process[object[o].of].state = "running")
    BY <2>2, SameProcess DEF destroy
  <2> QED
    BY <2>1, <2>2
<1>3. object' \in [Objects -> Made \cup {none}]
  BY <1>1 DEF WInv, WinTypeOK
<1>4. WinTypeOK'
  BY <1>1, <1>2, <1>3, DropTypes
<1>5. Rearranged(o, [q \in Objects |-> q]) /\ [q \in Objects |-> q] \in [Objects -> Objects]
  BY <1>1, AloneRearranged
<1> QED
  BY <1>1, <1>2, <1>4, <1>5, DropStep

LEMMA MoveStep ==
  ASSUME WInv, NEW o \in Objects, NEW other \in Objects, move(o, other)
  PROVE  WInv'
<1> DEFINE rec == Emptied(object[other], -1)
           src == [q \in Objects |-> IF q = o THEN other ELSE q]
<1>1. /\ Calm /\ blocked = none /\ object[o] # none /\ Quiet(o) /\ Drop(o)
      /\ object[other] # none /\ Quiet(other) /\ o # other
      /\ UNCHANGED <<launchVars, process, blocked, wait>>
  BY DEF move, Idle
<1>2. object' = [object EXCEPT ![o] = object[other], ![other] = rec]
  BY <1>1 DEF move, WInv, WinTypeOK
<1>3. rec \in Made /\ rec.handle = INVALID /\ rec.of = object[other].of /\ rec.status = object[other].status
      /\ object[other] \in Made
  BY <1>1, ObjectType, EmptiedType
<1> HIDE DEF rec
<1>4. object' \in [Objects -> Made \cup {none}]
  BY <1>2, <1>3 DEF WInv, WinTypeOK
<1>5. WinTypeOK' /\ ProcessEnds
  BY <1>1, <1>4, SameProcess, DropTypes
<1>6. /\ object'[o] = object[other] /\ object'[other] = rec
      /\ \A q \in Objects \ {o, other} : object'[q] = object[q]
  BY <1>1, <1>2 DEF WInv, WinTypeOK
<1>7. /\ src \in [Objects -> Objects] /\ src[o] = other
      /\ \A q \in Objects \ {o} : src[q] = q
  OBVIOUS
<1> HIDE DEF src
<1>8. ~Has(other)' /\ (Has(o)' <=> Has(other))
  BY <1>3, <1>6 DEF Has, HasHandle
<1>9. ASSUME NEW q \in Objects, q \notin {o, other} PROVE Has(q)' <=> Has(q)
  BY <1>6, <1>9 DEF Has, HasHandle
<1>10. ASSUME NEW q \in Objects
       PROVE  \/ object'[q] = none
              \/ object'[q] = object[src[q]] /\ object[src[q]] # none
              \/ object[q] # none /\ object'[q] # none /\ object'[q].handle = INVALID
                 /\ object'[q].of = object[q].of /\ object'[q].status = object[q].status
  BY <1>1, <1>3, <1>6, <1>7, NoneApart
<1>11. /\ \A q \in Objects : object[q] = none => object'[q] = none
       /\ \A q \in Objects : ~Quiet(q) => object'[q] = object[q]
  BY <1>1, <1>6
<1>12. /\ \A q \in Objects : Has(q)' => src[q] # o
       /\ \A q, r \in Objects : Has(q)' /\ Has(r)' /\ src[q] = src[r] => q = r
       /\ \A r \in Objects \ {o} : Has(r) => \E q \in Objects : Has(q)' /\ src[q] = r
  BY <1>1, <1>7, <1>8, <1>9
<1>13. Rearranged(o, src)
  BY <1>10, <1>11, <1>12 DEF Rearranged
<1> QED
  BY <1>1, <1>5, <1>7, <1>13, DropStep

-------------------------------------------------------------------------------
(***************************************************************************)
(* The launches.  What a step must leave alone for another launch, for a   *)
(* file and for a handle.                                                  *)
(***************************************************************************)
SameLaunch(b) ==
  /\ stage'[b] = stage[b] /\ bound'[b] = bound[b] /\ info'[b] = info[b] /\ outcome'[b] = outcome[b]
  /\ process'[b] = process[b] /\ object'[b] = object[b]

\* The handle is the same one, inheritable or not.
SameHandle(h) ==
  handle[h] # none => handle'[h] # none /\ handle'[h].what = handle[h].what /\ handle'[h].of = handle[h].of

SharedStays == \A h \in Handles : Shared(h) => Shared(h)'

LEMMA OtherLaunch ==
  ASSUME WInv, NEW b \in WinLaunches, SameLaunch(b), SharedStays,
         \A h \in Handles : handle[h] # none /\ handle[h].of = b => SameHandle(h),
         \A o \in Objects : Has(o)' => \/ object'[o] = object[o]
                                       \/ stage[b] = "success" => object'[o].handle # info[b].process
  PROVE  CreationOk(b)' /\ BindingOk(b)' /\ MakingOk(b)'
<1>1. CreationOk(b) /\ BindingOk(b) /\ MakingOk(b) /\ b \in Children /\ b \in Objects
  BY DEF WInv, Launching, Children, Objects
<1>2. CreationOk(b)'
  BY <1>1 DEF CreationOk, Lasts, SameLaunch
<1>3. BindingOk(b)'
  <2>1. bound[b].kind \in {"std", "handle"} => bound[b].handle \in Handles
    BY <1>1, FilesType DEF BindingOk
  <2>2. StillOpen(b) => bound[b].handle \in Handles
    BY DEF StillOpen, WInv, WinTypeOK
  <2> QED
    BY <1>1, <2>1, <2>2 DEF BindingOk, StillOpen, SameLaunch, SameHandle, SharedStays
<1>4. MakingOk(b)'
  <2>1. info[b].process \in Handles \cup {INVALID} /\ info[b].thread \in Handles \cup {INVALID}
    BY DEF WInv, WinTypeOK
  <2> QED
    BY <1>1, <2>1 DEF MakingOk, SameLaunch, SameHandle, Has, HasHandle
<1> QED
  BY <1>2, <1>3, <1>4

\* A file of the program: either it is not touched, or a launch has just made it inheritable.
LEMMA FileKept ==
  ASSUME WInv, NEW f \in DOMAIN Files, SameHandle(Files[f]), SharedStays,
         handle'[Files[f]].inherit =>
           \/ /\ handle[Files[f]].inherit
              /\ \A a \in WinLaunches : bound[a].handle = Files[f] /\ (bound[a].kind = "std" \/ stage[a] # "done")
                   => bound'[a] = bound[a] /\ (bound[a].kind = "std" \/ stage'[a] # "done")
           \/ Shared(Files[f])'
           \/ \E a \in WinLaunches : bound'[a].handle = Files[f] /\ (bound'[a].kind = "std" \/ stage'[a] # "done")
  PROVE  FileOk(f)'
<1>1. FileOk(f) /\ Files[f] \in Handles
  BY FilesType DEF WInv, Launching
<1> QED
  BY <1>1 DEF FileOk, SameHandle, SharedStays

\* A handle that is kept, with the one who has to close it.
LEMMA HandleKept ==
  ASSUME WInv, NEW h \in Handles, handle[h] # none, SameHandle(h), ObjectsAdded,
         handle[h].what \in {"process", "limited"} =>
           \A a \in WinLaunches : stage[a] = "success" /\ info[a].process = h =>
             \/ stage'[a] = "success" /\ info'[a] = info[a]
             \/ \E o \in Objects : object'[o] # none /\ object'[o].handle = h,
         handle[h].what \in {"thread", "opened"} =>
           \A a \in WinLaunches : handle[h].of = a =>
             /\ stage'[a] # "done" /\ bound'[a] = bound[a]
             /\ stage[a] = "success" /\ handle[h].what = "thread" => stage'[a] = "success" /\ info'[a] = info[a]
  PROVE  HandleOk(h)'
<1>1. HandleOk(h)
  BY DEF WInv, Launching
<1>2. CASE handle[h].what \in {"process", "limited"}
  BY <1>1, <1>2 DEF HandleOk, SameHandle, ObjectsAdded
<1>3. CASE handle[h].what = "thread"
  BY <1>1, <1>3 DEF HandleOk, SameHandle
<1>4. CASE handle[h].what = "opened"
  BY <1>1, <1>4 DEF HandleOk, SameHandle
<1>5. CASE handle[h].what = "file"
  BY <1>5 DEF HandleOk, SameHandle
<1> QED
  BY <1>2, <1>3, <1>4, <1>5 DEF WInv, WinTypeOK, Entries

LEMMA InheritsKept ==
  ASSUME WInv, UNCHANGED launcher,
         NEW a \in WinLaunches,
         \A b \in WinLaunches \ {a} : process'[b] = process[b] /\ bound'[b] = bound[b],
         process'[a].state # "none" =>
           {f.of : f \in process'[a].files} =
             IF launcher[a] \in {"with_token", "with_logon"} THEN {} ELSE Passed(a)'
  PROVE  InheritsGiven'
<1>1. ASSUME NEW b \in WinLaunches \ {a}, process'[b].state # "none"
      PROVE  {f.of : f \in process'[b].files} =
               IF launcher'[b] \in {"with_token", "with_logon"} THEN {} ELSE Passed(b)'
  <2>1. process'[b] = process[b] /\ bound'[b] = bound[b] /\ process[b].state # "none"
    BY <1>1
  <2>2. Passed(b)' = Passed(b)
    BY <2>1 DEF Passed
  <2> QED
    BY <2>1, <2>2 DEF WInv, InheritsGiven
<1> QED
  BY <1>1 DEF InheritsGiven

-------------------------------------------------------------------------------
LEMMA AttachStep ==
  ASSUME WInv, NEW c \in Children, attach(c)
  PROVE  WInv'
<1> DEFINE h == Lowest
           new == Entry("limited", c)
           rec == [pid |-> process[c].pid, handle |-> Lowest, status |-> still_active, of |-> c]
<1> USE NoneApart, FilesType
<1>1. /\ Calm /\ blocked = none /\ object[Attached] = none /\ process[c].state # "none" /\ FreeHandles # {}
      /\ handle' = [handle EXCEPT ![h] = new] /\ object' = [object EXCEPT ![Attached] = rec]
      /\ UNCHANGED <<launchVars, process, blocked, wait>>
  BY DEF attach
<1>2. h \in Handles /\ handle[h] = none /\ h # INVALID
  BY <1>1, LowestFree DEF FreeHandles
<1>3. /\ new \in Entries /\ new.what = "limited" /\ new.of = c /\ new # none
      /\ rec \in Made /\ rec # none /\ rec.pid = process[c].pid /\ rec.handle = h
      /\ rec.status = still_active /\ rec.of = c
  <2>1. process[c].pid \in Pids \cup {0}
    BY DEF WInv, WinTypeOK
  <2>2. new \in Entries /\ new.what = "limited" /\ new.of = c
    BY DEF Entry, Entries, Children
  <2>3. rec \in Made
    BY <1>2, <2>1 DEF Made, ExitCodes
  <2> QED
    BY <2>2, <2>3
<1> HIDE DEF new, rec, h
<1>4. /\ handle'[h] = new /\ \A k \in Handles \ {h} : handle'[k] = handle[k]
      /\ Attached \in Objects /\ object'[Attached] = rec
      /\ \A o \in Objects \ {Attached} : object'[o] = object[o]
  BY <1>1, <1>2 DEF WInv, WinTypeOK, Objects
<1>5. WinTypeOK'
  BY <1>1, <1>2, <1>3 DEF WInv, WinTypeOK, launchVars
<1>6. \A k \in Handles : handle[k] # none => k # h /\ handle'[k] = handle[k]
  BY <1>2, <1>4
<1>7. /\ \A a \in WinLaunches : stage[a] \in {"idle", "done"} /\ SameLaunch(a)
      /\ SharedStays /\ \A k \in Handles : SameHandle(k)
      /\ ObjectsAdded /\ ProcessStarts
  <2>1. \A a \in WinLaunches : stage[a] \in {"idle", "done"} /\ SameLaunch(a)
    BY <1>1, <1>4, WindowsAssumption DEF Calm, SameLaunch, launchVars, Objects
  <2>2. SharedStays
    BY <1>1 DEF SharedStays, Shared, launchVars
  <2>3. \A k \in Handles : SameHandle(k)
    BY <1>6 DEF SameHandle
  <2>4. ObjectsAdded /\ ProcessStarts
    BY <1>1, <1>3, <1>4 DEF ObjectsAdded, ProcessStarts
  <2> QED
    BY <2>1, <2>2, <2>3, <2>4
<1>8. Launching'
  <2>1. ASSUME NEW a \in WinLaunches PROVE CreationOk(a)' /\ BindingOk(a)' /\ MakingOk(a)'
    BY <1>7, OtherLaunch
  <2>2. ASSUME NEW f \in DOMAIN Files PROVE FileOk(f)'
    <3>1. handle'[Files[f]] = handle[Files[f]]
      BY <1>6 DEF WInv, Launching, FileOk
    <3> QED
      BY <1>1, <1>7, <3>1, FileKept DEF launchVars
  <2>3. ASSUME NEW k \in Handles PROVE HandleOk(k)'
    <3>1. CASE k = h
      BY <1>3, <1>4, <3>1 DEF HandleOk
    <3>2. CASE handle[k] # none
      <4>1. HandleOk(k)
        BY DEF WInv, Launching
      <4>2. \A a \in WinLaunches : stage[a] # "success" /\ stage'[a] # "success"
        BY <1>1, <1>7 DEF launchVars
      <4> QED
        BY <1>1, <1>6, <1>7, <3>2, <4>1, <4>2 DEF HandleOk, launchVars, ObjectsAdded
    <3>3. CASE k # h /\ handle[k] = none
      BY <1>4, <3>3 DEF HandleOk
    <3> QED
      BY <3>1, <3>2, <3>3
  <2> QED
    BY <2>1, <2>2, <2>3 DEF Launching
<1>9. InheritsGiven'
  BY <1>1 DEF WInv, InheritsGiven, Passed, launchVars
<1>10. ASSUME NEW o \in Objects PROVE HolderOk(o)'
  <2>1. \A q \in Objects \ {Attached} : Has(q) => object[q].handle # h
    BY <1>2 DEF WInv, Telling, HolderOk
  <2>2. CASE o = Attached
    BY <1>1, <1>3, <1>4, <2>1, <2>2 DEF HolderOk, Has, HasHandle
  <2>3. CASE o # Attached
    <3>1. HolderOk(o) /\ (Has(o) => object[o].handle \in Handles)
      BY Holder DEF WInv, Telling
    <3> QED
      BY <1>1, <1>3, <1>4, <1>6, <2>1, <2>3, <3>1 DEF HolderOk, Has, HasHandle
  <2> QED
    BY <2>2, <2>3
<1>11. Telling'
  BY <1>1, <1>5, <1>6, <1>7, <1>10, TellingAdded
<1> QED
  BY <1>5, <1>8, <1>9, <1>11 DEF WInv

-------------------------------------------------------------------------------
(***************************************************************************)
(* The steps of a launch before there is a process.                        *)
(***************************************************************************)
\* A launch a changes nothing but its own place, what it was given and what it reports; processes
\* and objects stay, with their handles.
OwnStep(a) ==
  /\ UNCHANGED <<launcher, info, process, callVars>>
  /\ \A b \in WinLaunches \ {a} : stage'[b] = stage[b] /\ bound'[b] = bound[b] /\ outcome'[b] = outcome[b]
  /\ \A h \in Handles : handle[h] # none /\ handle[h].what \in {"process", "limited", "thread"} => handle'[h] = handle[h]

LEMMA OwnStepParts ==
  ASSUME WInv, WinTypeOK', NEW a \in WinLaunches, OwnStep(a)
  PROVE  Telling' /\ ProcessStarts /\ ObjectsAdded
<1>1. ProcessStarts /\ ObjectsAdded
  BY DEF OwnStep, ProcessStarts, ObjectsAdded, callVars
<1>2. \A o \in Objects : HolderOk(o)'
  BY <1>1, HoldersStay DEF OwnStep, callVars
<1> QED
  BY <1>1, <1>2, TellingAdded DEF OwnStep, callVars

LEMMA OwnStepOthers ==
  ASSUME WInv, NEW a \in WinLaunches, OwnStep(a), SharedStays,
         \A h \in Handles : handle[h] # none /\ handle[h].of # a => SameHandle(h),
         NEW b \in WinLaunches, b # a
  PROVE  CreationOk(b)' /\ BindingOk(b)' /\ MakingOk(b)'
<1>1. SameLaunch(b)
  BY DEF OwnStep, SameLaunch, callVars
<1>2. \A o \in Objects : object'[o] = object[o]
  BY DEF OwnStep, callVars
<1> QED
  BY <1>1, <1>2, OtherLaunch

\* A launch fails, or goes on from one place to the next, and may make the handle inheritable that it was given.
LEMMA PlaceStep ==
  ASSUME WInv, WinTypeOK', NEW a \in WinLaunches, Lasts(a), stage[a] # "success",
         UNCHANGED <<launcher, bound, info, process, callVars>>,
         NEW s \in {"list", "create", "unbind", "done"}, NEW r \in {"none", "error"},
         stage[a] = "idle" <=> s = "done",
         stage' = [stage EXCEPT ![a] = s], outcome' = [outcome EXCEPT ![a] = r],
         r = "none" <=> s \in {"list", "create"},
         \A h \in Handles :
           \/ handle'[h] = handle[h]
           \/ /\ h = bound[a].handle /\ s # "done" /\ handle[h] # none /\ handle[h].what \in {"file", "opened"}
              /\ SameHandle(h)
  PROVE  WInv'
<1>1. /\ stage'[a] = s /\ \A b \in WinLaunches \ {a} : stage'[b] = stage[b]
      /\ outcome'[a] = r /\ \A b \in WinLaunches \ {a} : outcome'[b] = outcome[b]
  BY DEF WInv, WinTypeOK
<1>2. \A h \in Handles : handle[h] = none => handle'[h] = none
  OBVIOUS
<1>3. OwnStep(a) /\ SharedStays /\ \A h \in Handles : SameHandle(h)
  BY <1>1 DEF OwnStep, SharedStays, Shared, SameHandle
<1>4. Telling' /\ ObjectsAdded
  BY <1>3, OwnStepParts
<1>5. a \in Objects /\ a \in Children /\ CreationOk(a) /\ BindingOk(a)
  BY DEF WInv, Launching, Objects, Children
<1>6. Launching'
  <2>1. ASSUME NEW b \in WinLaunches PROVE CreationOk(b)' /\ BindingOk(b)' /\ MakingOk(b)'
    <3>1. CASE b # a
      BY <1>3, <3>1, OwnStepOthers
    <3>2. CASE b = a
      <4>1. process[a].state = "none"
        BY <1>5 DEF CreationOk, Lasts, WInv, WinTypeOK
      <4>2. CreationOk(a)'
        BY <1>1, <1>5, <4>1 DEF CreationOk, Lasts, callVars
      <4>3. BindingOk(a)'
        <5>1. StillOpen(a)' => StillOpen(a) /\ bound[a].handle \in Handles
          BY DEF StillOpen, Lasts, WInv, WinTypeOK
        <5>2. \A h \in Handles : Shared(h) => Shared(h)'
          BY <1>3 DEF SharedStays
        <5>3. bound[a].kind = "handle" => bound[a].handle \in Handles
          BY <1>5, FilesType DEF BindingOk
        <5> QED
          BY <1>3, <1>5, <5>1, <5>2, <5>3 DEF BindingOk, SameHandle
      <4>4. MakingOk(a)'
        BY <1>1 DEF MakingOk
      <4> QED
        BY <3>2, <4>2, <4>3, <4>4
    <3> QED
      BY <3>1, <3>2
  <2>2. ASSUME NEW f \in DOMAIN Files PROVE FileOk(f)'
    <3>1. bound[a].handle = Files[f] => stage[a] # "idle"
      BY <1>5, FilesType, NoneApart DEF CreationOk, NoBinding
    <3> QED
      BY <1>1, <1>3, <3>1, FileKept, FilesType
  <2>3. ASSUME NEW h \in Handles PROVE HandleOk(h)'
    <3>1. handle[h] = none => HandleOk(h)'
      BY <1>2 DEF HandleOk
    <3>2. stage[a] = "idle" => ~(handle[h] # none /\ handle[h].of = a /\ handle[h].what \in {"thread", "opened"})
      BY <1>5 DEF WInv, Launching, HandleOk, CreationOk, NoBinding
    <3>3. ASSUME handle[h] # none PROVE HandleOk(h)'
      <4>1. ASSUME NEW b \in WinLaunches, stage[b] = "success" PROVE stage'[b] = "success" /\ info'[b] = info[b]
        BY <1>1, <4>1
      <4>2. ASSUME NEW b \in WinLaunches, handle[h].of = b, handle[h].what \in {"thread", "opened"}
            PROVE  stage'[b] # "done" /\ bound'[b] = bound[b]
        <5>1. stage[b] # "done"
          BY <3>3, <4>2 DEF WInv, Launching, HandleOk
        <5> QED
          BY <1>1, <3>2, <3>3, <4>2, <5>1
      <4> QED
        BY <1>3, <1>4, <3>3, <4>1, <4>2, HandleKept
    <3> QED
      BY <3>1, <3>3
  <2> QED
    BY <2>1, <2>2, <2>3 DEF Launching
<1>7. InheritsGiven'
  BY DEF WInv, InheritsGiven, Passed
<1> QED
  BY <1>4, <1>6, <1>7 DEF WInv

\* The same without a change of a handle.
LEMMA PlaceTypes ==
  ASSUME WInv, NEW a \in WinLaunches, UNCHANGED <<launcher, handle, bound, info, process, callVars>>,
         NEW s \in {"list", "create", "unbind", "done"}, NEW r \in {"none", "error"},
         stage' = [stage EXCEPT ![a] = s], outcome' = [outcome EXCEPT ![a] = r]
  PROVE  WinTypeOK' /\ \A h \in Handles : handle'[h] = handle[h]
BY DEF WInv, WinTypeOK, callVars

LEMMA FailingStep ==
  ASSUME WInv, NEW a \in WinLaunches,
         \/ BindThrows(a)
         \/ set_handle_list(a)
         \/ stage[a] = "create" /\ CreateFails(a)
  PROVE  WInv'
<1>1. outcome[a] = "none" \/ ~Lasts(a)
  BY DEF WInv, Launching, CreationOk
<1>2. CASE BindThrows(a)
  BY <1>2, PlaceStep, PlaceTypes DEF BindThrows, Lasts
<1>3. CASE stage[a] = "create" /\ CreateFails(a)
  BY <1>3, PlaceStep, PlaceTypes DEF CreateFails, Leave, Lasts
<1>4. CASE set_handle_list(a)
  <2>1. CASE Leave(a, "error")
    BY <1>4, <2>1, PlaceStep, PlaceTypes DEF set_handle_list, Leave, Lasts
  <2>2. CASE stage' = [stage EXCEPT ![a] = "create"] /\ UNCHANGED outcome
    <3>1. outcome' = [outcome EXCEPT ![a] = "none"]
      BY <1>1, <1>4, <2>2 DEF set_handle_list, Lasts, WInv, WinTypeOK
    <3> QED
      BY <1>4, <2>2, <3>1, PlaceStep, PlaceTypes DEF set_handle_list, Lasts
  <2> QED
    BY <1>4, <2>1, <2>2 DEF set_handle_list
<1> QED
  BY <1>2, <1>3, <1>4

\* What a launch is given: nb, and the handles that were opened for it.
Binds(a, nb) ==
  /\ stage[a] = "idle" /\ stage' = [stage EXCEPT ![a] = "setup"]
  /\ UNCHANGED <<launcher, info, outcome, process, callVars>>
  /\ bound' = [bound EXCEPT ![a] = nb]
  /\ \A h \in Handles : handle[h] # none => handle'[h] = handle[h]
  /\ \A h \in Handles : handle[h] = none /\ handle'[h] # none =>
       \/ handle'[h].what = "opened" /\ handle'[h].of = a /\ nb.kind \in {"file", "pipe"} /\ nb.handle = h
       \/ handle'[h].what = "file"
  /\ nb.kind = "none" => nb.handle = INVALID
  /\ nb.kind \in {"std", "handle"} =>
       \E f \in DOMAIN Files : nb.handle = Files[f] /\ (nb.inherit => handle[Files[f]].inherit)
  /\ nb.kind \in {"file", "pipe"} /\ nb.handle # INVALID =>
       handle'[nb.handle] # none /\ handle'[nb.handle].what = "opened" /\ handle'[nb.handle].of = a

LEMMA BindStep ==
  ASSUME WInv, WinTypeOK', NEW a \in WinLaunches, NEW nb, Binds(a, nb)
  PROVE  WInv'
<1> USE DEF Binds
<1>1. /\ stage'[a] = "setup" /\ \A b \in WinLaunches \ {a} : stage'[b] = stage[b]
      /\ bound'[a] = nb /\ \A b \in WinLaunches \ {a} : bound'[b] = bound[b]
  BY DEF WInv, WinTypeOK
<1>2. a \in Objects /\ a \in Children /\ CreationOk(a) /\ bound[a].handle = INVALID /\ bound[a].kind = "none"
  <2>1. a \in Objects /\ a \in Children /\ CreationOk(a)
    BY DEF WInv, Launching, Objects, Children
  <2>2. bound[a] = NoBinding
    BY <2>1 DEF CreationOk
  <2>3. NoBinding.handle = INVALID /\ NoBinding.kind = "none"
    BY DEF NoBinding
  <2> QED
    BY <2>1, <2>2, <2>3, Zenon
<1>3. OwnStep(a) /\ \A h \in Handles : SameHandle(h)
  BY <1>1 DEF OwnStep, SameHandle
<1>4. SharedStays
  BY <1>1, <1>2, NoneApart DEF SharedStays, Shared
<1>5. Telling' /\ ObjectsAdded
  BY <1>3, OwnStepParts
<1>6. CreationOk(a)'
  BY <1>1, <1>2 DEF CreationOk, Lasts, callVars
<1>7. BindingOk(a)'
  <2>1. ASSUME nb.kind = "handle", nb.inherit PROVE Shared(nb.handle)'
    <3>1. PICK f \in DOMAIN Files : nb.handle = Files[f] /\ handle[Files[f]].inherit
      BY <2>1
    <3>2. Files[f] \in Handles /\ (\/ Shared(Files[f]) \/ \E c \in WinLaunches : bound[c].handle = Files[f])
      BY <3>1, FilesType DEF WInv, Launching, FileOk
    <3>3. CASE Shared(Files[f])
      BY <1>4, <3>1, <3>2, <3>3 DEF SharedStays
    <3>4. CASE \E c \in WinLaunches : bound[c].handle = Files[f]
      BY <1>1, <1>2, <2>1, <3>1, <3>2, <3>4, NoneApart DEF Shared
    <3> QED
      BY <3>2, <3>3, <3>4
  <2> QED
    BY <1>1, <2>1 DEF BindingOk, StillOpen
<1>8. MakingOk(a)'
  BY <1>1 DEF MakingOk
<1>9. Launching'
  <2>1. ASSUME NEW b \in WinLaunches PROVE CreationOk(b)' /\ BindingOk(b)' /\ MakingOk(b)'
    <3>1. CASE b # a
      BY <1>3, <1>4, <3>1, OwnStepOthers
    <3>2. CASE b = a
      BY <1>6, <1>7, <1>8, <3>2
    <3> QED
      BY <3>1, <3>2
  <2>2. ASSUME NEW f \in DOMAIN Files PROVE FileOk(f)'
    <3>1. handle'[Files[f]] = handle[Files[f]] /\ Files[f] \in Handles /\ bound[a].handle # Files[f]
      BY <1>2, NoneApart, FilesType DEF WInv, Launching, FileOk
    <3> QED
      BY <1>1, <1>3, <1>4, <3>1, FileKept
  <2>3. ASSUME NEW h \in Handles PROVE HandleOk(h)'
    <3>1. CASE handle[h] = none
      BY <1>1, <3>1 DEF HandleOk
    <3>2. CASE handle[h] # none
      <4>1. ASSUME NEW b \in WinLaunches, stage[b] = "success" PROVE stage'[b] = "success" /\ info'[b] = info[b]
        BY <1>1, <4>1
      <4>2. ASSUME NEW b \in WinLaunches, handle[h].of = b, handle[h].what \in {"thread", "opened"}
            PROVE  stage'[b] # "done" /\ bound'[b] = bound[b]
        <5>1. stage[b] \notin {"done", "idle"}
          BY <3>2, <4>2 DEF WInv, Launching, HandleOk, CreationOk, NoBinding
        <5> QED
          BY <1>1, <5>1
      <4> QED
        BY <1>3, <1>5, <3>2, <4>1, <4>2, HandleKept
    <3> QED
      BY <3>1, <3>2
  <2> QED
    BY <2>1, <2>2, <2>3 DEF Launching
<1>10. InheritsGiven'
  <2>1. process'[a].state = "none"
    BY <1>2 DEF CreationOk
  <2>3. \A b \in WinLaunches \ {a} : process'[b] = process[b] /\ bound'[b] = bound[b]
    BY <1>1
  <2>4. UNCHANGED launcher
    OBVIOUS
  <2> QED
    BY <2>1, <2>3, <2>4, InheritsKept
<1> QED
  BY <1>5, <1>9, <1>10 DEF WInv

LEMMA BindingStep ==
  ASSUME WInv, NEW a \in WinLaunches, NEW b \in WinBindings, Bind(a, b)
  PROVE  WInv'
<1> USE NoneApart, FilesType
<1>1. /\ stage[a] = "idle" /\ stage' = [stage EXCEPT ![a] = "setup"]
      /\ UNCHANGED <<launcher, info, outcome, process, callVars>>
      /\ b.kind \in {"none", "std", "handle", "file", "pipe"} /\ b.file \in DOMAIN Files
      /\ bound[a] = NoBinding
  BY WindowsAssumption DEF Bind, WInv, Launching, CreationOk
<1>2. ASSUME NEW nb, nb \in [kind : {"none", "std", "handle", "file", "pipe"},
                             handle : Handles \cup {INVALID}, inherit : BOOLEAN],
             bound' = [bound EXCEPT ![a] = nb], handle' \in [Handles -> Entries \cup {none}]
      PROVE  WinTypeOK'
  BY <1>1, <1>2 DEF WInv, WinTypeOK, callVars
<1>3. CASE b.kind = "none"
  <2>1. bound' = [bound EXCEPT ![a] = NoBinding] /\ UNCHANGED handle
    BY <1>1, <1>3 DEF Bind, WInv, WinTypeOK
  <2>2. WinTypeOK'
    BY <1>2, <2>1 DEF NoBinding, WInv, WinTypeOK
  <2>3. Binds(a, NoBinding)
    BY <1>1, <2>1 DEF NoBinding, Binds
  <2> QED
    BY <2>2, <2>3, BindStep
<1>4. CASE b.kind \in {"std", "handle"}
  <2> DEFINE nb == [kind |-> b.kind, handle |-> Files[b.file],
                    inherit |-> IF b.kind = "std" THEN FALSE ELSE handle[Files[b.file]].inherit]
  <2>1. bound' = [bound EXCEPT ![a] = nb] /\ UNCHANGED handle
    BY <1>4 DEF Bind
  <2>2. handle[Files[b.file]] # none
    BY <1>1 DEF WInv, Launching, FileOk
  <2>3. /\ nb \in [kind : {"none", "std", "handle", "file", "pipe"},
                   handle : Handles \cup {INVALID}, inherit : BOOLEAN]
        /\ nb.kind = b.kind /\ nb.handle = Files[b.file]
        /\ nb.inherit => handle[Files[b.file]].inherit
    BY <1>1, <2>2 DEF WInv, WinTypeOK, Entries
  <2> HIDE DEF nb
  <2>4. WinTypeOK'
    BY <1>2, <2>1, <2>3 DEF WInv, WinTypeOK
  <2>5. Binds(a, nb)
    BY <1>1, <1>4, <2>1, <2>3 DEF Binds
  <2> QED
    BY <2>4, <2>5, BindStep
<1>5. CASE b.kind \in {"file", "pipe"}
  <2>1. \/ /\ bound' = [bound EXCEPT ![a] = [kind |-> "file", handle |-> INVALID, inherit |-> FALSE]]
           /\ UNCHANGED handle
        \/ /\ FreeHandles # {}
           /\ bound' = [bound EXCEPT ![a] = [kind |-> "file", handle |-> Lowest, inherit |-> FALSE]]
           /\ handle' = [handle EXCEPT ![Lowest] = Entry("opened", a)]
        \/ /\ Cardinality(FreeHandles) >= 2
           /\ bound' = [bound EXCEPT ![a] = [kind |-> "pipe", handle |-> Lowest, inherit |-> FALSE]]
           /\ handle' = [handle EXCEPT ![Lowest] = Entry("opened", a), ![Second] = Entry("file", a)]
    BY <1>5 DEF Bind
  <2>2. CASE /\ bound' = [bound EXCEPT ![a] = [kind |-> "file", handle |-> INVALID, inherit |-> FALSE]]
             /\ UNCHANGED handle
    <3>1. WinTypeOK'
      BY <1>2, <2>2 DEF WInv, WinTypeOK
    <3>2. Binds(a, [kind |-> "file", handle |-> INVALID, inherit |-> FALSE])
      BY <1>1, <2>2 DEF Binds
    <3> QED
      BY <3>1, <3>2, BindStep
  <2>3. ASSUME NEW kind2 \in {"file", "pipe"}, NEW l \in Handles, handle[l] = none,
               bound' = [bound EXCEPT ![a] = [kind |-> kind2, handle |-> l, inherit |-> FALSE]],
               handle' \in [Handles -> Entries \cup {none}],
               handle'[l] = Entry("opened", a),
               \A h \in Handles \ {l} : handle'[h] = handle[h] \/ (handle[h] = none /\ handle'[h] = Entry("file", a))
        PROVE  WInv'
    <3> DEFINE nb == [kind |-> kind2, handle |-> l, inherit |-> FALSE]
    <3>1. /\ nb \in [kind : {"none", "std", "handle", "file", "pipe"},
                     handle : Handles \cup {INVALID}, inherit : BOOLEAN]
          /\ nb.kind = kind2 /\ nb.handle = l
      OBVIOUS
    <3>2. /\ Entry("opened", a).what = "opened" /\ Entry("opened", a).of = a
          /\ Entry("file", a).what = "file" /\ Entry("opened", a) \in Entries
      BY DEF Entry, Entries
    <3>3. bound' = [bound EXCEPT ![a] = nb]
      BY <2>3
    <3> HIDE DEF nb
    <3>4. WinTypeOK'
      BY <1>2, <2>3, <3>1, <3>3
    <3>5. \A h \in Handles : handle[h] # none => handle'[h] = handle[h]
      BY <2>3
    <3>6. \A h \in Handles : handle[h] = none /\ handle'[h] # none =>
            \/ handle'[h].what = "opened" /\ handle'[h].of = a /\ nb.kind \in {"file", "pipe"} /\ nb.handle = h
            \/ handle'[h].what = "file"
      BY <2>3, <3>1, <3>2
    <3>7. handle'[nb.handle] # none /\ handle'[nb.handle].what = "opened" /\ handle'[nb.handle].of = a
      BY <2>3, <3>1, <3>2
    <3>8. /\ nb.kind = "none" => nb.handle = INVALID
          /\ nb.kind \in {"std", "handle"} =>
               \E f \in DOMAIN Files : nb.handle = Files[f] /\ (nb.inherit => handle[Files[f]].inherit)
      BY <3>1
    <3>9. stage[a] = "idle" /\ stage' = [stage EXCEPT ![a] = "setup"]
          /\ UNCHANGED <<launcher, info, outcome, process, callVars>>
      BY <1>1
    <3>10. Binds(a, nb)
      BY <3>3, <3>5, <3>6, <3>7, <3>8, <3>9 DEF Binds
    <3> QED
      BY <3>4, <3>10, BindStep
  <2>4. Entry("opened", a) \in Entries /\ Entry("file", a) \in Entries /\ handle \in [Handles -> Entries \cup {none}]
    BY DEF Entry, Entries, WInv, WinTypeOK
  <2>5. CASE /\ FreeHandles # {}
             /\ bound' = [bound EXCEPT ![a] = [kind |-> "file", handle |-> Lowest, inherit |-> FALSE]]
             /\ handle' = [handle EXCEPT ![Lowest] = Entry("opened", a)]
    <3>1. Lowest \in Handles /\ handle[Lowest] = none
      BY <2>5, LowestFree DEF FreeHandles
    <3> QED
      BY <2>3, <2>4, <2>5, <3>1
  <2>6. CASE /\ Cardinality(FreeHandles) >= 2
             /\ bound' = [bound EXCEPT ![a] = [kind |-> "pipe", handle |-> Lowest, inherit |-> FALSE]]
             /\ handle' = [handle EXCEPT ![Lowest] = Entry("opened", a), ![Second] = Entry("file", a)]
    <3>1. Lowest \in Handles /\ handle[Lowest] = none /\ Second \in Handles /\ handle[Second] = none /\ Lowest # Second
      BY <2>6, LowestFree DEF FreeHandles
    <3> QED
      BY <2>3, <2>4, <2>6, <3>1
  <2> QED
    BY <2>1, <2>2, <2>5, <2>6
<1> QED
  BY <1>1, <1>3, <1>4, <1>5

\* The handle that a launch was given, as long as it needs it.
LEMMA GivenHandle ==
  ASSUME WInv, NEW a \in WinLaunches, bound[a].handle # INVALID
  PROVE  /\ bound[a].handle \in Handles
         /\ bound[a].kind \in {"std", "handle"} =>
              \E f \in DOMAIN Files : /\ bound[a].handle = Files[f] /\ handle[Files[f]] # none
                                      /\ handle[Files[f]].what = "file" /\ handle[Files[f]].of = f
         /\ bound[a].kind \in {"file", "pipe"} /\ stage[a] # "done" =>
              /\ handle[bound[a].handle] # none /\ handle[bound[a].handle].what = "opened"
              /\ handle[bound[a].handle].of = a
         /\ bound[a].kind \in {"std", "handle", "file", "pipe"}
<1>1. BindingOk(a) /\ \A f \in DOMAIN Files : FileOk(f)
  BY DEF WInv, Launching
<1>2. bound[a].handle \in Handles /\ bound[a].kind \in {"none", "std", "handle", "file", "pipe"}
  BY DEF WInv, WinTypeOK
<1> QED
  BY <1>1, <1>2 DEF BindingOk, FileOk, StillOpen

LEMMA OnSetupStep ==
  ASSUME WInv, NEW a \in WinLaunches, OnSetup(a)
  PROVE  WInv'
<1> DEFINE h == bound[a].handle
<1>1. stage[a] = "setup" /\ Lasts(a) /\ UNCHANGED <<launcher, bound, info, process, callVars>>
      /\ handle' = IF h = INVALID THEN handle ELSE [handle EXCEPT ![h].inherit = TRUE]
  BY DEF OnSetup, Lasts
<1>2. outcome[a] = "none"
  BY <1>1 DEF WInv, Launching, CreationOk
<1>3. PICK s \in {"list", "unbind"}, r \in {"none", "error"} :
        /\ stage' = [stage EXCEPT ![a] = s] /\ outcome' = [outcome EXCEPT ![a] = r]
        /\ r = "none" <=> s = "list"
  <2>1. outcome = [outcome EXCEPT ![a] = "none"]
    BY <1>2 DEF WInv, WinTypeOK
  <2> QED
    BY <2>1 DEF OnSetup, Leave
<1>4. /\ WinTypeOK'
      /\ \A k \in Handles :
           \/ handle'[k] = handle[k]
           \/ /\ k = h /\ handle[k] # none /\ handle[k].what \in {"file", "opened"} /\ SameHandle(k)
  <2>1. CASE h = INVALID
    BY <1>1, <1>3, <2>1 DEF WInv, WinTypeOK, callVars
  <2>2. CASE h # INVALID
    <3>1. h \in Handles /\ handle[h] # none /\ handle[h].what \in {"file", "opened"} /\ handle[h] \in Entries
      BY <1>1, <2>2, GivenHandle DEF WInv, WinTypeOK
    <3>2. handle' = [handle EXCEPT ![h] = [handle[h] EXCEPT !.inherit = TRUE]]
      BY <1>1, <2>2
    <3>3. PICK new \in Entries : new = [handle[h] EXCEPT !.inherit = TRUE]
      BY <3>1 DEF Entries
    <3>4. new.what = handle[h].what /\ new.of = handle[h].of /\ new # none
      BY <3>1, <3>3, NoneApart DEF Entries
    <3>5. handle' = [handle EXCEPT ![h] = new]
      BY <3>2, <3>3
    <3>6. handle' \in [Handles -> Entries \cup {none}]
      BY <3>5 DEF WInv, WinTypeOK
    <3>7. handle'[h] = new /\ \A k \in Handles \ {h} : handle'[k] = handle[k]
      BY <3>1, <3>5 DEF WInv, WinTypeOK
    <3> QED
      BY <1>1, <1>3, <3>1, <3>4, <3>6, <3>7 DEF WInv, WinTypeOK, callVars, SameHandle
  <2> QED
    BY <2>1, <2>2
<1> HIDE DEF h
<1>5. stage[a] # "success" /\ (stage[a] = "idle" <=> s = "done") /\ s # "done"
      /\ (r = "none" <=> s \in {"list", "create"})
  BY <1>1, <1>3
<1>6. \A k \in Handles :
           \/ handle'[k] = handle[k]
           \/ /\ k = bound[a].handle /\ s # "done" /\ handle[k] # none /\ handle[k].what \in {"file", "opened"}
              /\ SameHandle(k)
  BY <1>4, <1>5 DEF h
<1>7. s \in {"list", "create", "unbind", "done"}
  BY <1>3
<1>8. WinTypeOK' /\ Lasts(a) /\ stage' = [stage EXCEPT ![a] = s] /\ outcome' = [outcome EXCEPT ![a] = r]
      /\ UNCHANGED <<launcher, bound, info, process, callVars>>
  BY <1>1, <1>3, <1>4
<1> HIDE DEF h
<1> QED
  BY <1>5, <1>6, <1>7, <1>8, PlaceStep

\* The end of a launch closes the handle that was opened for it, or gives the program's its flags back.
LEMMA UnbindStep ==
  ASSUME WInv, NEW a \in WinLaunches, Unbind(a)
  PROVE  WInv'
<1> DEFINE h == bound[a].handle
<1> USE NoneApart, FilesType
<1>1. /\ stage[a] = "unbind" /\ stage' = [stage EXCEPT ![a] = "done"]
      /\ UNCHANGED <<launcher, bound, info, outcome, process, callVars>>
  BY DEF Unbind
<1>2. /\ stage'[a] = "done" /\ \A b \in WinLaunches \ {a} : stage'[b] = stage[b]
  BY <1>1 DEF WInv, WinTypeOK
<1>3. /\ CreationOk(a) /\ BindingOk(a) /\ bound[a].kind \in {"none", "std", "handle", "file", "pipe"}
      /\ bound[a].inherit \in BOOLEAN /\ (h # INVALID => h \in Handles)
      /\ bound[a].kind = "handle" => h # INVALID
  BY DEF WInv, Launching, WinTypeOK, BindingOk
<1>4. /\ WinTypeOK'
      /\ \A k \in Handles : k # h => handle'[k] = handle[k]
      /\ bound[a].kind \in {"file", "pipe"} /\ h # INVALID => handle'[h] = none
      /\ bound[a].kind = "handle" => SameHandle(h) /\ handle'[h].inherit = bound[a].inherit
      /\ bound[a].kind \in {"none", "std"} => UNCHANGED handle
  <2>1. CASE UNCHANGED handle /\ ~(bound[a].kind \in {"file", "pipe"} /\ h # INVALID) /\ bound[a].kind # "handle"
    BY <1>1, <2>1 DEF WInv, WinTypeOK, callVars
  <2>2. CASE bound[a].kind \in {"file", "pipe"} /\ h # INVALID /\ handle' = [handle EXCEPT ![h] = none]
    BY <1>1, <1>3, <2>2 DEF WInv, WinTypeOK, callVars
  <2>3. CASE bound[a].kind = "handle" /\ handle' = [handle EXCEPT ![h].inherit = bound[a].inherit]
    <3>1. h \in Handles /\ handle[h] # none /\ handle[h] \in Entries
      BY <1>3, <2>3, GivenHandle DEF WInv, WinTypeOK
    <3>2. PICK new \in Entries : new = [handle[h] EXCEPT !.inherit = bound[a].inherit]
      BY <1>3, <3>1 DEF Entries
    <3>3. new.what = handle[h].what /\ new.of = handle[h].of /\ new.inherit = bound[a].inherit /\ new # none
      BY <3>1, <3>2 DEF Entries
    <3>4. handle' = [handle EXCEPT ![h] = new]
      BY <2>3, <3>2
    <3>5. handle' \in [Handles -> Entries \cup {none}]
      BY <3>4 DEF WInv, WinTypeOK
    <3>6. handle'[h] = new /\ \A k \in Handles \ {h} : handle'[k] = handle[k]
      BY <3>1, <3>4 DEF WInv, WinTypeOK
    <3> QED
      BY <1>1, <2>3, <3>1, <3>3, <3>5, <3>6 DEF WInv, WinTypeOK, callVars, SameHandle
  <2> QED
    BY <1>3, <2>1, <2>2, <2>3 DEF Unbind, Close
<1>5. \A k \in Handles : handle[k] # none /\ ~(k = h /\ bound[a].kind \in {"file", "pipe"}) => SameHandle(k)
  BY <1>3, <1>4 DEF SameHandle
<1>6. \A k \in Handles : handle[k] # none /\ k = h /\ bound[a].kind \in {"file", "pipe"} =>
        handle[k].what = "opened" /\ handle[k].of = a
  BY <1>1, GivenHandle
<1>7. \A k \in Handles : handle[k] # none /\ handle[k].what \in {"process", "limited", "thread"} => handle'[k] = handle[k]
  <2> SUFFICES ASSUME NEW k \in Handles, handle[k] # none, handle[k].what \in {"process", "limited", "thread"}, k = h
               PROVE  handle'[k] = handle[k]
    BY <1>4
  <2>1. bound[a].kind \notin {"file", "pipe", "std", "handle"}
    BY <1>1, GivenHandle
  <2> QED
    BY <1>3, <1>4, <2>1
<1> HIDE DEF h
<1>8. OwnStep(a) /\ SharedStays
  BY <1>1, <1>2, <1>7 DEF OwnStep, SharedStays, Shared
<1>9. Telling' /\ ObjectsAdded
  BY <1>4, <1>8, OwnStepParts
<1>10. Launching'
  <2>1. ASSUME NEW b \in WinLaunches PROVE CreationOk(b)' /\ BindingOk(b)' /\ MakingOk(b)'
    <3>1. CASE b # a
      <4>1. \A k \in Handles : handle[k] # none /\ handle[k].of # a => SameHandle(k)
        BY <1>5, <1>6
      <4> QED
        BY <1>8, <3>1, <4>1, OwnStepOthers
    <3>2. CASE b = a
      <4>1. CreationOk(a)'
        BY <1>1, <1>2, <1>3 DEF CreationOk, Lasts
      <4>2. BindingOk(a)'
        BY <1>1, <1>2, <1>3 DEF BindingOk, StillOpen, Shared
      <4>3. MakingOk(a)'
        BY <1>2 DEF MakingOk
      <4> QED
        BY <3>2, <4>1, <4>2, <4>3
    <3> QED
      BY <3>1, <3>2
  <2>2. ASSUME NEW f \in DOMAIN Files PROVE FileOk(f)'
    <3>1. FileOk(f) /\ Files[f] \in Handles
      BY DEF WInv, Launching
    <3>2. SameHandle(Files[f]) /\ ~(Files[f] = h /\ bound[a].kind \in {"file", "pipe"})
      BY <1>5, <1>6, <3>1 DEF FileOk
    <3>3. CASE Files[f] = h /\ bound[a].kind = "handle"
      <4>1. handle'[Files[f]].inherit => Shared(Files[f])'
        BY <1>3, <1>4, <1>8, <3>1, <3>3 DEF BindingOk, SharedStays, h
      <4> QED
        BY <1>8, <3>1, <3>2, <4>1, FileKept
    <3>4. CASE ~(Files[f] = h /\ bound[a].kind = "handle")
      <4>1. bound[a].handle = Files[f] => bound[a].kind = "std"
        BY <1>3, <3>1, <3>2, <3>4 DEF BindingOk, h
      <4>2. handle'[Files[f]] = handle[Files[f]]
        BY <1>3, <1>4, <3>1, <3>2, <3>4 DEF BindingOk
      <4>3. ASSUME NEW b \in WinLaunches, bound[b].handle = Files[f], bound[b].kind = "std" \/ stage[b] # "done"
            PROVE  bound'[b] = bound[b] /\ (bound[b].kind = "std" \/ stage'[b] # "done")
        BY <1>1, <1>2, <4>1, <4>3
      <4> QED
        BY <1>8, <3>1, <3>2, <4>2, <4>3, FileKept
    <3> QED
      BY <3>3, <3>4
  <2>3. ASSUME NEW k \in Handles PROVE HandleOk(k)'
    <3>1. handle[k] = none => handle'[k] = none
      BY <1>1, <1>3, <1>4, GivenHandle DEF h
    <3>2. CASE handle[k] = none \/ handle'[k] = none
      BY <3>1, <3>2 DEF HandleOk
    <3>3. CASE handle[k] # none /\ handle'[k] # none
      <4>1. ~(k = h /\ bound[a].kind \in {"file", "pipe"})
        BY <1>4, <3>3
      <4>2. SameHandle(k)
        BY <1>5, <3>3, <4>1
      <4>3. ASSUME NEW b \in WinLaunches, stage[b] = "success" PROVE stage'[b] = "success" /\ info'[b] = info[b]
        BY <1>1, <1>2, <4>3
      <4>4. ASSUME NEW b \in WinLaunches, handle[k].of = b, handle[k].what \in {"thread", "opened"}
            PROVE  stage'[b] # "done" /\ bound'[b] = bound[b]
        <5>1. HandleOk(k)
          BY DEF WInv, Launching
        <5>2. stage[b] # "done" /\ b # a
          BY <1>1, <3>3, <4>1, <4>4, <5>1 DEF HandleOk, h
        <5> QED
          BY <1>1, <1>2, <5>2
      <4> QED
        BY <1>9, <3>3, <4>2, <4>3, <4>4, HandleKept
    <3> QED
      BY <3>2, <3>3
  <2> QED
    BY <2>1, <2>2, <2>3 DEF Launching
<1>11. InheritsGiven'
  BY <1>1 DEF WInv, InheritsGiven, Passed
<1> QED
  BY <1>4, <1>9, <1>10, <1>11 DEF WInv

\* The list of handles of a launch is what it was given, by name.
LEMMA ListPasses ==
  ASSUME WInv, NEW a \in WinLaunches, stage[a] # "done",
         \A h \in inherited_handles(a) : h # INVALID
  PROVE  /\ \A h \in inherited_handles(a) : h \in Handles /\ handle[h] \in Entries
         /\ {f.of : f \in {handle[h] : h \in inherited_handles(a)}} = Passed(a)
<1> USE NoneApart, FilesType
<1>1. CASE bound[a].kind = "none"
  BY <1>1 DEF inherited_handles, Passed
<1>2. CASE bound[a].kind # "none"
  <2>1. inherited_handles(a) = {bound[a].handle} /\ bound[a].handle # INVALID
    BY <1>2 DEF inherited_handles
  <2>2. handle[bound[a].handle] # none /\ bound[a].handle \in Handles
    BY <2>1, GivenHandle
  <2>3. handle[bound[a].handle] \in Entries
    BY <2>2 DEF WInv, WinTypeOK
  <2>4. {f.of : f \in {handle[h] : h \in inherited_handles(a)}} = {handle[bound[a].handle].of}
    BY <2>1
  <2>5. Passed(a) = {handle[bound[a].handle].of}
    <3>1. CASE bound[a].kind \in {"file", "pipe"}
      BY <2>1, <3>1, GivenHandle DEF Passed
    <3>2. CASE bound[a].kind \in {"std", "handle"}
      <4>1. PICK f \in DOMAIN Files : bound[a].handle = Files[f] /\ handle[Files[f]].of = f
        BY <2>1, <3>2, GivenHandle
      <4>2. Passed(a) = {g \in DOMAIN Files : Files[g] = bound[a].handle}
        BY <3>2 DEF Passed
      <4>3. \A g \in DOMAIN Files : Files[g] = bound[a].handle => g = f
        BY <4>1
      <4> QED
        BY <4>1, <4>2, <4>3
    <3> QED
      BY <2>1, <3>1, <3>2, GivenHandle
  <2> QED
    BY <2>1, <2>2, <2>3, <2>4, <2>5
<1> QED
  BY <1>1, <1>2

LEMMA CreatedStep ==
  ASSUME WInv, NEW a \in WinLaunches, stage[a] = "create", NEW list, Created(a, list),
         \A h \in list : handle[h] \in Entries,
         {f.of : f \in {handle[h] : h \in list}} =
           IF launcher[a] \in {"with_token", "with_logon"} THEN {} ELSE Passed(a)
  PROVE  WInv'
<1> DEFINE l == Lowest  s2 == Second  new == Entry("process", a)  thr == Entry("thread", a)
           made == [process |-> Lowest, thread |-> Second]
<1> USE NoneApart, FilesType
<1>1. PICK pid \in Pids :
        process' = [process EXCEPT ![a] = [state |-> "running", pid |-> pid, code |-> still_active,
                                           files |-> {handle[h] : h \in list}]]
  BY DEF Created
<1>2. /\ handle' = [handle EXCEPT ![l] = new, ![s2] = thr]
      /\ info' = [info EXCEPT ![a] = made] /\ stage' = [stage EXCEPT ![a] = "success"]
      /\ UNCHANGED <<launcher, bound, outcome, callVars>>
      /\ l \in Handles /\ s2 \in Handles /\ l # s2 /\ handle[l] = none /\ handle[s2] = none
  BY LowestFree DEF Created, FreeHandles
<1>3. /\ new \in Entries /\ new.what = "process" /\ new.of = a
      /\ thr \in Entries /\ thr.what = "thread" /\ thr.of = a
      /\ made \in [process : Handles \cup {INVALID}, thread : Handles \cup {INVALID}]
      /\ made.process = l /\ made.thread = s2
  BY <1>2 DEF Entry, Entries
<1> DEFINE begun == [state |-> "running", pid |-> pid, code |-> still_active, files |-> {handle[h] : h \in list}]
<1>4. /\ begun.state = "running" /\ begun.code = still_active /\ begun.files = {handle[h] : h \in list}
      /\ begun \in [state : {"none", "running", "ended"}, pid : Pids \cup {0}, code : ExitCodes, files : SUBSET Entries]
      /\ process' = [process EXCEPT ![a] = begun]
  BY <1>1 DEF ExitCodes
<1> HIDE DEF l, s2, new, thr, made, begun
<1>5. a \in Objects /\ a \in Children /\ CreationOk(a) /\ BindingOk(a)
  BY DEF WInv, Launching, Objects, Children
<1>6. WinTypeOK'
  BY <1>2, <1>3, <1>4, <1>5 DEF WInv, WinTypeOK, callVars
<1>7. /\ handle'[l] = new /\ handle'[s2] = thr /\ \A h \in Handles \ {l, s2} : handle'[h] = handle[h]
      /\ stage'[a] = "success" /\ \A b \in WinLaunches \ {a} : stage'[b] = stage[b]
      /\ info'[a] = made /\ \A b \in WinLaunches \ {a} : info'[b] = info[b]
      /\ process'[a] = begun /\ \A c \in Children \ {a} : process'[c] = process[c]
  BY <1>2, <1>4, <1>5 DEF WInv, WinTypeOK
<1>8. /\ \A h \in Handles : handle[h] # none => handle'[h] = handle[h]
      /\ \A h \in Handles : SameHandle(h)
  BY <1>2, <1>7 DEF SameHandle
<1>9. SharedStays
  BY <1>2 DEF SharedStays, Shared
<1>10. process[a].state = "none" /\ outcome[a] = "none" /\ object[a] = none
  BY <1>5 DEF CreationOk, Lasts
<1>11. ProcessStarts /\ ObjectsAdded
  BY <1>2, <1>4, <1>7, <1>10 DEF ProcessStarts, ObjectsAdded, callVars
<1>12. \A o \in Objects : HolderOk(o)'
  <2>1. \A c \in Children : process'[c] = process[c] \/ process[c].state = "none"
    BY <1>7, <1>10
  <2>2. UNCHANGED object
    BY <1>2 DEF callVars
  <2> QED
    BY <1>6, <1>8, <1>11, <2>1, <2>2, HoldersStay
<1>13. Telling'
  <2>1. UNCHANGED <<blocked, wait>>
    BY <1>2 DEF callVars
  <2> QED
    BY <1>6, <1>8, <1>11, <1>12, <2>1, TellingAdded
<1>14. Launching'
  <2>1. ASSUME NEW b \in WinLaunches PROVE CreationOk(b)' /\ BindingOk(b)' /\ MakingOk(b)'
    <3>1. CASE b # a
      <4>1. SameLaunch(b)
        BY <1>2, <1>7, <3>1 DEF SameLaunch, callVars, Children
      <4>2. \A o \in Objects : object'[o] = object[o]
        BY <1>2 DEF callVars
      <4> QED
        BY <1>8, <1>9, <4>1, <4>2, OtherLaunch
    <3>2. CASE b = a
      <4>1. CreationOk(a)'
        BY <1>2, <1>4, <1>7, <1>10 DEF CreationOk, Lasts, callVars
      <4>2. BindingOk(a)'
        <5>1. StillOpen(a)' => StillOpen(a) /\ bound[a].handle \in Handles
          BY <1>2 DEF StillOpen, WInv, WinTypeOK
        <5>2. bound[a].kind = "handle" => bound[a].handle \in Handles
          BY <1>5 DEF BindingOk
        <5> QED
          BY <1>2, <1>5, <1>8, <1>9, <5>1, <5>2 DEF BindingOk, SharedStays
      <4>3. MakingOk(a)'
        <5>1. ASSUME NEW o \in Objects, Has(o)' PROVE object'[o].handle # l
          <6>1. Has(o) /\ object'[o] = object[o]
            BY <1>2, <5>1 DEF Has, HasHandle, callVars
          <6>2. handle[object[o].handle] # none
            BY <6>1 DEF WInv, Telling, HolderOk
          <6> QED
            BY <1>2, <6>1, <6>2
        <5> QED
          BY <1>2, <1>3, <1>7, <5>1 DEF MakingOk
      <4> QED
        BY <3>2, <4>1, <4>2, <4>3
    <3> QED
      BY <3>1, <3>2
  <2>2. ASSUME NEW f \in DOMAIN Files PROVE FileOk(f)'
    <3>1. FileOk(f) /\ Files[f] \in Handles
      BY DEF WInv, Launching
    <3>2. handle'[Files[f]] = handle[Files[f]]
      BY <1>8, <3>1 DEF FileOk
    <3>3. \A b \in WinLaunches : stage[b] # "done" => stage'[b] # "done"
      BY <1>7
    <3> QED
      BY <1>2, <1>8, <1>9, <3>1, <3>2, <3>3, FileKept
  <2>3. ASSUME NEW h \in Handles PROVE HandleOk(h)'
    <3>1. CASE h = l
      BY <1>3, <1>7, <3>1 DEF HandleOk
    <3>2. CASE h = s2
      BY <1>3, <1>7, <3>2 DEF HandleOk
    <3>3. CASE h \notin {l, s2} /\ handle[h] = none
      BY <1>7, <3>3 DEF HandleOk
    <3>4. CASE h \notin {l, s2} /\ handle[h] # none
      <4>1. ASSUME NEW b \in WinLaunches, stage[b] = "success" PROVE stage'[b] = "success" /\ info'[b] = info[b]
        BY <1>7, <4>1
      <4>2. ASSUME NEW b \in WinLaunches, handle[h].of = b, handle[h].what \in {"thread", "opened"}
            PROVE  stage'[b] # "done" /\ bound'[b] = bound[b]
        <5>1. stage[b] # "done"
          BY <3>4, <4>2 DEF WInv, Launching, HandleOk
        <5> QED
          BY <1>2, <1>7, <5>1
      <4> QED
        BY <1>8, <1>11, <3>4, <4>1, <4>2, HandleKept
    <3> QED
      BY <3>1, <3>2, <3>3, <3>4
  <2> QED
    BY <2>1, <2>2, <2>3 DEF Launching
<1>15. InheritsGiven'
  <2>1. Passed(a)' = Passed(a)
    BY <1>2 DEF Passed
  <2>2. process'[a].files = {handle[h] : h \in list}
    BY <1>4, <1>7
  <2>3. \A b \in WinLaunches \ {a} : process'[b] = process[b] /\ bound'[b] = bound[b]
    BY <1>2, <1>7 DEF Children
  <2>4. {f.of : f \in process'[a].files} = IF launcher[a] \in {"with_token", "with_logon"} THEN {} ELSE Passed(a)'
    BY <2>1, <2>2
  <2>5. UNCHANGED launcher
    BY <1>2
  <2> QED
    BY <2>3, <2>4, <2>5, InheritsKept
<1> QED
  BY <1>6, <1>13, <1>14, <1>15 DEF WInv

LEMMA CreateStep ==
  ASSUME WInv, NEW a \in WinLaunches,
         \/ CreateProcessW(a) \/ CreateProcessAsUserW(a)
         \/ CreateProcessWithTokenW(a) \/ CreateProcessWithLogonW(a)
  PROVE  WInv'
<1>1. stage[a] = "create"
  BY DEF CreateProcessW, CreateProcessAsUserW, CreateProcessWithTokenW, CreateProcessWithLogonW
<1>2. CASE CreateFails(a)
  BY <1>1, <1>2, FailingStep
<1>3. CASE Created(a, inherited_handles(a)) /\ launcher[a] \in {"default", "as_user"}
  <2>1. \A h \in inherited_handles(a) : h # INVALID
    BY <1>3 DEF Created
  <2>2. /\ \A h \in inherited_handles(a) : handle[h] \in Entries
        /\ {f.of : f \in {handle[h] : h \in inherited_handles(a)}} = Passed(a)
    BY <1>1, <2>1, ListPasses
  <2>3. launcher[a] \notin {"with_token", "with_logon"}
    BY <1>3
  <2> QED
    BY <1>1, <1>3, <2>2, <2>3, CreatedStep
<1>4. CASE Created(a, {}) /\ launcher[a] \in {"with_token", "with_logon"}
  <2>1. {f.of : f \in {handle[h] : h \in {}}} = {} /\ \A h \in {} : handle[h] \in Entries
    OBVIOUS
  <2> QED
    BY <1>1, <1>4, <2>1, CreatedStep
<1> QED
  BY <1>2, <1>3, <1>4 DEF CreateProcessW, CreateProcessAsUserW, CreateProcessWithTokenW, CreateProcessWithLogonW

\* The handle of the thread is closed, and that of the process has an object instead of the launch.
LEMMA SuccessStep ==
  ASSUME WInv, NEW a \in WinLaunches, Success(a)
  PROVE  WInv'
<1> DEFINE rec == [pid |-> process[a].pid, handle |-> info[a].process, status |-> still_active, of |-> a]
           own == info[a].process  thr == info[a].thread
<1> USE NoneApart, FilesType
<1>1. /\ stage[a] = "success" /\ stage' = [stage EXCEPT ![a] = "unbind"]
      /\ outcome' = [outcome EXCEPT ![a] = "ok"] /\ handle' = [handle EXCEPT ![thr] = none]
      /\ object' = [object EXCEPT ![a] = rec]
      /\ UNCHANGED <<launcher, bound, info, process, blocked, wait, done>>
  BY DEF Success, Leave, Close
<1>2. a \in Objects /\ a \in Children /\ CreationOk(a) /\ BindingOk(a) /\ MakingOk(a)
  BY DEF WInv, Launching, Objects, Children
<1>3. /\ own \in Handles /\ thr \in Handles /\ handle[own] # none /\ handle[thr] # none
      /\ handle[own].what = "process" /\ handle[own].of = a
      /\ handle[thr].what = "thread" /\ handle[thr].of = a
      /\ \A o \in Objects : Has(o) => object[o].handle # own
  <2>1. own \in Handles \cup {INVALID} /\ thr \in Handles \cup {INVALID}
    BY DEF WInv, WinTypeOK
  <2> QED
    BY <1>1, <1>2, <2>1 DEF MakingOk
<1>4. /\ rec \in Made /\ rec # none /\ rec.pid = process[a].pid /\ rec.handle = own
      /\ rec.status = still_active /\ rec.of = a
  <2>1. process[a].pid \in Pids \cup {0}
    BY <1>2 DEF WInv, WinTypeOK
  <2>2. rec \in Made
    BY <1>2, <1>3, <2>1 DEF Made, ExitCodes
  <2> QED
    BY <2>2
<1>5. own # INVALID
  BY <1>3
<1> HIDE DEF rec
<1>6. /\ handle'[thr] = none /\ \A h \in Handles \ {thr} : handle'[h] = handle[h]
      /\ object'[a] = rec /\ \A o \in Objects \ {a} : object'[o] = object[o]
      /\ stage'[a] = "unbind" /\ \A b \in WinLaunches \ {a} : stage'[b] = stage[b]
      /\ outcome'[a] = "ok" /\ \A b \in WinLaunches \ {a} : outcome'[b] = outcome[b]
  BY <1>1, <1>2, <1>3 DEF WInv, WinTypeOK
<1>7. object[a] = none /\ process[a].state # "none"
  BY <1>1, <1>2 DEF CreationOk, Lasts
<1>8. WinTypeOK'
  BY <1>1, <1>2, <1>3, <1>4 DEF WInv, WinTypeOK
<1>9. ProcessStarts /\ ObjectsAdded /\ SharedStays
  BY <1>1, <1>4, <1>6, <1>7 DEF ProcessStarts, ObjectsAdded, SharedStays, Shared
<1>10. \A h \in Handles : handle[h] # none /\ h # thr => SameHandle(h)
  BY <1>6 DEF SameHandle
<1>11. ASSUME NEW o \in Objects PROVE HolderOk(o)'
  <2>1. CASE o = a
    <3>1. \A q \in Objects : q # a /\ Has(q)' => object'[q].handle # own
      BY <1>3, <1>6 DEF Has, HasHandle
    <3>2. own # thr
      BY <1>3
    <3> QED
      BY <1>1, <1>2, <1>3, <1>4, <1>6, <1>7, <2>1, <3>1, <3>2 DEF HolderOk, Has, HasHandle
  <2>2. CASE o # a
    <3>1. HolderOk(o) /\ (Has(o) => object[o].handle \in Handles)
      BY Holder DEF WInv, Telling
    <3>2. Has(o) => handle'[object[o].handle] = handle[object[o].handle]
      BY <1>3, <1>6, <3>1 DEF HolderOk
    <3>3. (Has(o)' <=> Has(o)) /\ object'[o] = object[o]
      BY <1>6, <2>2 DEF Has, HasHandle
    <3>4. ASSUME NEW q \in Objects, q # o, Has(q)', Has(o) PROVE object'[q].handle # object[o].handle
      <4>1. CASE q = a
        BY <1>3, <1>4, <1>6, <3>4, <4>1
      <4>2. CASE q # a
        BY <1>6, <3>1, <3>4, <4>2 DEF HolderOk, Has, HasHandle
      <4> QED
        BY <4>1, <4>2
    <3> QED
      BY <1>1, <3>1, <3>2, <3>3, <3>4 DEF HolderOk
  <2> QED
    BY <2>1, <2>2
<1>12. Telling'
  <2>1. \A h \in Handles : handle[h] # none /\ handle[h].what \in {"process", "limited"} => handle'[h].what = handle[h].what
    BY <1>3, <1>6
  <2> QED
    BY <1>1, <1>8, <1>9, <1>11, <2>1, TellingAdded
<1>13. Launching'
  <2>1. ASSUME NEW b \in WinLaunches PROVE CreationOk(b)' /\ BindingOk(b)' /\ MakingOk(b)'
    <3>1. CASE b # a
      <4>1. SameLaunch(b)
        BY <1>1, <1>6, <3>1 DEF SameLaunch, Objects
      <4>2. \A h \in Handles : handle[h] # none /\ handle[h].of = b => SameHandle(h)
        BY <1>3, <1>10, <3>1
      <4>3. ASSUME stage[b] = "success" PROVE info[b].process # own
        BY <1>3, <3>1, <4>3 DEF WInv, Launching, MakingOk
      <4>4. \A o \in Objects : \/ object'[o] = object[o]
                               \/ stage[b] = "success" => object'[o].handle # info[b].process
        BY <1>4, <1>6, <4>3
      <4> QED
        BY <1>9, <4>1, <4>2, <4>4, OtherLaunch
    <3>2. CASE b = a
      <4>1. CreationOk(a)'
        BY <1>1, <1>6, <1>7 DEF CreationOk, Lasts
      <4>2. BindingOk(a)'
        <5>1. StillOpen(a)' => /\ bound[a].handle \in Handles /\ handle[bound[a].handle] # none
                               /\ handle[bound[a].handle].what = "opened" /\ handle[bound[a].handle].of = a
          BY <1>1, <1>2, GivenHandle DEF StillOpen
        <5>2. bound[a].kind = "handle" => bound[a].handle \in Handles
          BY <1>2 DEF BindingOk
        <5>3. StillOpen(a)' => handle'[bound[a].handle] = handle[bound[a].handle]
          BY <1>3, <1>6, <5>1
        <5> QED
          BY <1>1, <1>2, <1>9, <5>1, <5>2, <5>3 DEF BindingOk, SharedStays
      <4>3. MakingOk(a)'
        BY <1>6 DEF MakingOk
      <4> QED
        BY <3>2, <4>1, <4>2, <4>3
    <3> QED
      BY <3>1, <3>2
  <2>2. ASSUME NEW f \in DOMAIN Files PROVE FileOk(f)'
    <3>1. FileOk(f) /\ Files[f] \in Handles
      BY DEF WInv, Launching
    <3>2. handle'[Files[f]] = handle[Files[f]] /\ SameHandle(Files[f])
      BY <1>3, <1>6, <1>10, <3>1 DEF FileOk
    <3>3. \A b \in WinLaunches : stage[b] # "done" => stage'[b] # "done"
      BY <1>6
    <3> QED
      BY <1>1, <1>9, <3>1, <3>2, <3>3, FileKept
  <2>3. ASSUME NEW h \in Handles PROVE HandleOk(h)'
    <3>1. CASE handle[h] = none \/ h = thr
      BY <1>3, <1>6, <3>1 DEF HandleOk
    <3>2. CASE handle[h] # none /\ h # thr
      <4>1. HandleOk(h)
        BY DEF WInv, Launching
      <4>2. ASSUME NEW b \in WinLaunches, stage[b] = "success", info[b].process = h
            PROVE  \/ stage'[b] = "success" /\ info'[b] = info[b]
                   \/ \E o \in Objects : object'[o] # none /\ object'[o].handle = h
        BY <1>1, <1>2, <1>4, <1>6, <4>2
      <4>3. ASSUME NEW b \in WinLaunches, handle[h].of = b, handle[h].what \in {"thread", "opened"}
            PROVE  /\ stage'[b] # "done" /\ bound'[b] = bound[b]
                   /\ stage[b] = "success" /\ handle[h].what = "thread" => stage'[b] = "success" /\ info'[b] = info[b]
        <5>1. stage[b] # "done" /\ (handle[h].what = "thread" => b # a)
          BY <3>2, <4>1, <4>3 DEF HandleOk
        <5> QED
          BY <1>1, <1>6, <5>1
      <4> QED
        BY <1>9, <1>10, <3>2, <4>2, <4>3, HandleKept
    <3> QED
      BY <3>1, <3>2
  <2> QED
    BY <2>1, <2>2, <2>3 DEF Launching
<1>14. InheritsGiven'
  BY <1>1 DEF WInv, InheritsGiven, Passed
<1> QED
  BY <1>8, <1>12, <1>13, <1>14 DEF WInv

LEMMA StutterStep ==
  ASSUME WInv, UNCHANGED winVars
  PROVE  WInv'
<1>1. /\ UNCHANGED <<handle, launchVars, callVars, process>>
      /\ UNCHANGED object /\ UNCHANGED blocked /\ UNCHANGED wait
  BY DEF winVars, callVars
<1>2. WinTypeOK'
  BY <1>1 DEF WInv, WinTypeOK, launchVars, callVars
<1>3. ProcessEnds /\ ObjectsKept
  BY <1>1, SameProcess, SameKept
<1>4. \A w \in Waits : WaitOk(w)'
  BY <1>1, <1>3, WaitKept
<1> QED
  BY <1>1, <1>2, <1>3, <1>4, CallStep, BlockedKept

LEMMA WInvStep == WInv /\ [WinNext]_winVars => WInv'
<1> SUFFICES ASSUME WInv, [WinNext]_winVars PROVE WInv'
  OBVIOUS
<1>1. ASSUME NEW a \in WinLaunches, (\E b \in WinBindings : Bind(a, b)) \/ BindThrows(a) \/ LaunchStep(a)
      PROVE  WInv'
  BY <1>1, BindingStep, FailingStep, OnSetupStep, SuccessStep, UnbindStep, CreateStep DEF LaunchStep
<1>2. ASSUME NEW c \in Children, (\E code \in Codes : Exits(c, code)) \/ attach(c)
      PROVE  WInv'
  BY <1>2, EndingStep, AttachStep
<1>3. ASSUME NEW o \in Objects, \/ running(o) \/ wait_(o) \/ terminate(o) \/ by_pid(o)
                                \/ detach(o) \/ destroy(o) \/ \E other \in Objects : move(o, other)
                                \/ \E w \in Waits : async_wait(w, o)
      PROVE  WInv'
  BY <1>3, AskingStep, EndingStep, DetachStep, DestroyStep, MoveStep, AsyncWaitStep
<1>4. ASSUME NEW w \in Waits, Cancel(w) \/ LoopStep(w)
      PROVE  WInv'
  BY <1>4, CancelStep, SignalStep, HandlerSignalledStep, HandlerAbortedStep DEF LoopStep
<1> QED
  BY <1>1, <1>2, <1>3, <1>4, WaitedStep, StutterStep DEF WinNext

LEMMA WInvariance == WinSpec => []WInv
BY WInvInit, WInvStep, PTL DEF WinSpec

-------------------------------------------------------------------------------
(***************************************************************************)
(* WinTypeOK: whatever the threads, the calls and the waits do, a handle is *)
(* a number of the table or INVALID_HANDLE_VALUE, every entry of the table  *)
(* has one of the kinds, and a code is one that a process can end with.     *)
(***************************************************************************)
THEOREM WinTypeCorrect == WinSpec => []WinTypeOK
<1>1. WInv => WinTypeOK
  BY DEF WInv
<1> QED
  BY <1>1, WInvariance, PTL

(***************************************************************************)
(* WaitsTruthful: the status an object knows is the exit code of its own    *)
(* child, which has ended, after moves and detach too; a wait that ends     *)
(* without an error has the code of the child its object had when it began, *)
(* and it ends with an error only when it was cancelled, had no handle or   *)
(* a handle of a pid; for any number of children, objects, waits and calls. *)
(***************************************************************************)
THEOREM WaitsTruthfulHolds == WinSpec => []WaitsTruthful
<1>1. WInv => WaitsTruthful
  <2> SUFFICES ASSUME WInv PROVE WaitsTruthful
    OBVIOUS
  <2>1. ASSUME NEW o \in Objects, object[o] # none, object[o].status # still_active
        PROVE  Ended(object[o].of) /\ object[o].status = ExitCode(o)
    BY <2>1 DEF WInv, Telling, StatusOk
  <2>2. ASSUME NEW w \in Waits, wait[w] # none, wait[w].state = "done"
        PROVE  EndedWell(wait[w])
    BY <2>2 DEF WInv, Telling, WaitOk
  <2> QED
    BY <2>1, <2>2 DEF WaitsTruthful, EndedWell
<1> QED
  BY <1>1, WInvariance, PTL

\* Of those who hold a handle of a process there is one.
LEMMA OneHolder ==
  ASSUME WInv, NEW h \in Handles, handle[h] # none, handle[h].what \in {"process", "limited"}
  PROVE  Cardinality({o \in Objects : object[o] # none /\ object[o].handle = h}
                     \cup {a \in WinLaunches : stage[a] = "success" /\ info[a].process = h}) = 1
<1> DEFINE Has1 == {o \in Objects : object[o] # none /\ object[o].handle = h}
           Has2 == {a \in WinLaunches : stage[a] = "success" /\ info[a].process = h}
<1>1. /\ \A o \in Has1 : o \in Objects /\ Has(o) /\ object[o].handle = h
      /\ \A a \in Has2 : a \in WinLaunches /\ stage[a] = "success" /\ info[a].process = h
  BY NoneApart DEF Has, HasHandle
<1>2. ASSUME NEW o \in Has1, NEW q \in Has1 PROVE q = o
  BY <1>1 DEF WInv, Telling, HolderOk
<1>3. ASSUME NEW a \in Has2, NEW b \in Has2 PROVE b = a
  BY <1>1 DEF WInv, Launching, MakingOk
<1>4. ASSUME NEW o \in Has1, NEW a \in Has2 PROVE FALSE
  BY <1>1 DEF WInv, Launching, MakingOk
<1>5. PICK x : x \in Has1 \cup Has2
  BY DEF WInv, Launching, HandleOk
<1>6. Has1 \cup Has2 = {x}
  BY <1>2, <1>3, <1>4, <1>5
<1> QED
  BY <1>6, FS_Singleton

LEMMA OwnedFromInv == WInv => HandlesOwned
<1> SUFFICES ASSUME WInv PROVE HandlesOwned
  OBVIOUS
<1>1. ASSUME NEW h \in Handles, handle[h] # none
      PROVE  CASE handle[h].what \in {"process", "limited"} ->
                    Cardinality({o \in Objects : object[o] # none /\ object[o].handle = h}
                                \cup {a \in WinLaunches : stage[a] = "success" /\ info[a].process = h}) = 1
               [] handle[h].what = "thread" -> stage[handle[h].of] = "success" /\ info[handle[h].of].thread = h
               [] handle[h].what = "opened" -> stage[handle[h].of] # "done" /\ bound[handle[h].of].handle = h
               [] handle[h].what = "file"   -> TRUE
  <2>1. HandleOk(h) /\ handle[h].what \in {"process", "limited", "thread", "opened", "file"}
    BY <1>1 DEF WInv, Launching, WinTypeOK, Entries
  <2>2. CASE handle[h].what \in {"process", "limited"}
    BY <1>1, <2>2, OneHolder
  <2>3. CASE handle[h].what = "thread"
    BY <1>1, <2>1, <2>3 DEF HandleOk
  <2>4. CASE handle[h].what = "opened"
    BY <1>1, <2>1, <2>4 DEF HandleOk
  <2>5. CASE handle[h].what = "file"
    BY <2>5
  <2> QED
    BY <2>1, <2>2, <2>3, <2>4, <2>5
<1>2. ASSUME NEW o \in Objects, object[o] # none, HasHandle(o)
      PROVE  /\ handle[object[o].handle] # none /\ handle[object[o].handle].of = object[o].of
             /\ process[object[o].of].pid = object[o].pid
  BY <1>2 DEF WInv, Telling, HolderOk, Has
<1>3. ASSUME NEW f \in DOMAIN Files
      PROVE  /\ handle[Files[f]] # none /\ handle[Files[f]].of = f
             /\ handle[Files[f]].inherit =>
                  Shared(Files[f]) \/ \E a \in WinLaunches : bound[a].handle = Files[f] /\ (bound[a].kind = "std" \/ stage[a] # "done")
  BY DEF WInv, Launching, FileOk
<1> QED
  BY <1>1, <1>2, <1>3 DEF HandlesOwned

(***************************************************************************)
(* NothingLeft: no path out of a launch, on POSIX or on Windows, leaves a   *)
(* descriptor or a handle open that it opened, and every handle of a        *)
(* process has exactly one who will close it, for any number of launches    *)
(* that overlap, of files and of calls.                                    *)
(***************************************************************************)
THEOREM NothingLeftHolds == Spec /\ WinSpec => []NothingLeft
<1>1. NoLeak /\ WInv => NothingLeft
  BY OwnedFromInv DEF NothingLeft
<1> QED
  BY <1>1, NoLeakHolds, WInvariance, PTL

(***************************************************************************)
(* LaunchesTruthful: a launch that reports success has a child and one that *)
(* reports an error has none, on both systems, whatever other launches do   *)
(* with descriptors and handles meanwhile; on POSIX with bindings that do   *)
(* not overwrite each other.                                               *)
(***************************************************************************)
THEOREM LaunchesTruthfulHolds ==
  ASSUME BindingsApart, ErrnoSet
  PROVE  Spec /\ WinSpec => []LaunchesTruthful
<1>1. LaunchTruthful /\ NoZombie /\ WInv => LaunchesTruthful
  BY DEF LaunchesTruthful, WinLaunchTruthful, WInv, Launching, CreationOk
<1>2. Spec => []LaunchTruthful
  BY LaunchTruthfulHolds
<1> QED
  BY <1>1, <1>2, NoZombieHolds, WInvariance, PTL

(***************************************************************************)
(* InheritsOnlyGiven: a child has what its launch gave it: on POSIX no      *)
(* descriptor but the whitelist's when the launcher is not shared, on       *)
(* Windows exactly the handles its launch bound, though other launches make *)
(* theirs inheritable at the same time.                                    *)
(***************************************************************************)
THEOREM InheritsOnlyGivenHolds ==
  ASSUME OwnLauncher
  PROVE  Spec /\ WinSpec => []InheritsOnlyGiven
<1>1. OnlyWhitelisted /\ WInv => InheritsOnlyGiven
  BY DEF InheritsOnlyGiven, WInv
<1>2. Spec => []OnlyWhitelisted
  BY OnlyWhitelistedHolds
<1> QED
  BY <1>1, <1>2, WInvariance, PTL

(***************************************************************************)
(* The run's specification, which looks at one system at a time and at a   *)
(* few scenarios of Windows, is one of both systems: what is proved of them *)
(* holds of the run.                                                       *)
(***************************************************************************)
THEOREM AllIsBoth == AllSpec => Spec /\ WinSpec
<1>1. AllInit => Init /\ WinInit
  BY DEF AllInit
<1>2. [AllNext]_allVars => [Next]_vars
  BY DEF AllNext, OnlyPosix, OnlyWindows, allVars
<1>3. [AllNext]_allVars => [WinNext]_winVars
  BY DEF AllNext, OnlyPosix, OnlyWindows, allVars
<1> QED
  BY <1>1, <1>2, <1>3, PTL DEF AllSpec, Spec, WinSpec
===============================================================================
