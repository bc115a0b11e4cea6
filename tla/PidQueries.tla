----------------------------- MODULE PidQueries -----------------------------
(***************************************************************************)
(* all_pids, parent_pid and child_pids of src/src/pid.cpp.  Where the       *)
(* platform gives a snapshot of all processes a query is one step; Linux,   *)
(* macOS and Solaris ask several times while the processes go on.           *)
(***************************************************************************)
EXTENDS Queries

CONSTANTS Spaced,     \* the images with a space in the name of the process
          NameWords,  \* the numbers that words of such names begin with
          PidSize,    \* sizeof(pid_type)
          Slack       \* up to how many more pids than needed the kernel of macOS asks room for

VARIABLES cursor,     \* the last pid a walk over all processes has passed
          todo,       \* the pids child_pids still has to look at
          possible, certain,  \* the right answers: at some time, all the time
          unread      \* the pids whose parent was not read: no descriptor, no snapshot, a space

\* Pids are positive, and there is room for so many of them; PidSize is that of a type.
PidsNumbered == /\ Pids \subseteq Nat \ {0} /\ IsFiniteSet(Pids) /\ 1 \in Pids /\ NameWords \subseteq Int
                /\ PidSize \in Nat \ {0} /\ Slack \in Nat

query == <<platform, pc, call, cursor, todo, held, answer, ec, unread>>
vars  == <<procs, events, query, possible, certain>>

nothing == [pid |-> 0, born |-> 0, parent |-> 0]
None    == -1

PidInit == /\ platform \in Platforms
           /\ pc = "idle" /\ call = [op |-> "none", pid |-> 0]
           /\ cursor = 0 /\ todo = <<>> /\ held = nothing /\ answer = <<>> /\ ec = "none"
           /\ possible = {} /\ certain = {} /\ unread = {}
Init == ProcessesInit /\ PidInit

\* What is true of the pid asked about.
Truth == CASE call.op = "all"      -> {p \in Pids : Exists(p)}
           [] call.op = "children" -> ChildrenOf(call.pid)
           [] call.op = "parent"   -> {IF Exists(call.pid) THEN procs[call.pid].parent ELSE None}
           [] OTHER                -> {}

Collects(s)     == answer' = answer \o s
Returns(s)      == Goto("done") /\ answer' = s /\ UNCHANGED <<cursor, todo, held, ec, unread>>
Fails(e)        == Goto("done") /\ ec' = e /\ UNCHANGED <<cursor, todo, held, answer, unread>>
At(l, op)       == pc = l /\ call.op = op

Start == /\ pc = "idle"
         /\ \E op \in {"all", "children", "parent"}, p \in Pids :
              /\ op = "all" => p = 1
              /\ call' = [op |-> op, pid |-> p]
         /\ pc' = "begin"
         /\ UNCHANGED <<platform, procs, events, cursor, todo, held, answer, ec, unread>>

Nothing == IF call.op = "parent" THEN <<None>> ELSE <<>>
FailsEmpty(e) == Goto("done") /\ ec' = e /\ answer' = Nothing /\ UNCHANGED <<cursor, todo, held, unread>>

\* opendir, kvm_openfiles or kvm_open fails.
OpenFails == /\ pc = "begin" /\ platform \in {"linux", "sun"} \cup Bsd
             /\ platform = "linux" => call.op # "parent"
             /\ FailsEmpty("EMFILE")
\* CreateToolhelp32Snapshot fails with INVALID_HANDLE_VALUE, which the code takes for a
\* snapshot: Process32First fails on it and there is no error.
ToolhelpFails == /\ pc = "begin" /\ platform = "windows"
                 /\ Goto("done") /\ answer' = Nothing /\ unread' = Pids
                 /\ UNCHANGED <<cursor, todo, held, ec>>

-------------------------------------------------------------------------------
(* One snapshot, in the order of the kernel's table, which is none of the  *)
(* library's: any will do.                                                 *)
Listing(S)   == SetToSeq(S)
Existing     == {p \in Pids : Exists(p)}
Asked(p)     == call.op = "all" \/ procs[p].parent = call.pid
Listed       == {p \in Pids : Exists(p) /\ Asked(p)}

ToolhelpAllPids   == platform = "windows" /\ At("begin", "all") /\ Returns(Listing(Listed))
ToolhelpParentPid == /\ platform = "windows" /\ At("begin", "parent")
                     /\ Returns(<<IF Exists(call.pid) THEN procs[call.pid].parent ELSE None>>)
ToolhelpChildPids == platform = "windows" /\ At("begin", "children") /\ Returns(Listing(Listed))

KvmAllPids     == platform = "freebsd" /\ At("begin", "all") /\ Returns(Listing(Listed))
KvmParentPid   == /\ platform \in {"freebsd", "netbsd"} /\ At("begin", "parent")
                  /\ IF Exists(call.pid) THEN Returns(<<procs[call.pid].parent>>)
                     ELSE FailsEmpty("ESRCH")
KvmChildPids   == platform = "freebsd" /\ At("begin", "children") /\ Returns(Listing(Listed))
Kvm2AllPids    == platform = "netbsd" /\ At("begin", "all") /\ Returns(Reverse(Listing(Listed)))
Kvm2ChildPids  == platform = "netbsd" /\ At("begin", "children") /\ Returns(Reverse(Listing(Listed)))

\* DragonFly lists the threads of its kernel as processes with the pid and the parent -1.
KernelPids          == {-1} \cup Existing
ParentIn(p)         == IF p = -1 THEN -1 ELSE procs[p].parent
DragonFlyAllPids    == /\ platform = "dragonfly" /\ At("begin", "all")
                       /\ Returns(Listing({p \in KernelPids : p >= 0}))
DragonFlyChildPids  == /\ platform = "dragonfly" /\ At("begin", "children")
                       /\ Returns(Listing({p \in KernelPids :
                                    p >= 0 /\ ParentIn(p) >= 0 /\ ParentIn(p) = call.pid}))
OpenBsdAllPids      == /\ platform = "openbsd" /\ At("begin", "all")
                       /\ Returns(Reverse(Listing({p \in Existing : p >= 0})))
OpenBsdChildPids    == /\ platform = "openbsd" /\ At("begin", "children")
                       /\ Returns(Reverse(Listing(Listed)))
BsdParentPid        == /\ platform \in {"dragonfly", "openbsd"} /\ At("begin", "parent")
                       /\ IF ~Exists(call.pid) THEN FailsEmpty("ESRCH")
                          ELSE Returns(<<IF ParentIn(call.pid) >= 0 THEN ParentIn(call.pid) ELSE None>>)

Unsupported == /\ platform = "other" /\ pc = "begin"
               /\ Goto("done") /\ ec' = "ENOTSUP"
               /\ answer' = IF call.op = "parent" THEN <<call.pid>> ELSE <<>>
               /\ UNCHANGED <<cursor, todo, held, unread>>

-------------------------------------------------------------------------------
(* Linux: /proc is read entry by entry, and each stat file is opened and   *)
(* read.                                                                   *)
Later(S) == {p \in S : p > cursor}
Lowest(S) == CHOOSE p \in S : \A q \in S : p <= q

\* all_pids: one readdir.
ReadDir ==
  /\ platform = "linux" /\ pc \in {"begin", "readdir"} /\ call.op # "parent"
  /\ IF Later(Existing) # {}
       THEN /\ Goto("readdir")
            /\ cursor' = Lowest(Later(Existing))
            /\ Collects(<<cursor'>>)
            /\ UNCHANGED <<todo, held, ec, unread>>
       ELSE IF call.op = "all" THEN Returns(answer)
       ELSE /\ Goto("next")
            /\ todo' = answer /\ answer' = <<>>
            /\ UNCHANGED <<cursor, held, ec, unread>>

Parent_CollectsParent(ppid, e) ==    \* Mutant: the parent is collected, not the child.
  /\ held' = nothing
  /\ UNCHANGED cursor
  /\ IF call.op = "parent"
       THEN Goto("done") /\ answer' = <<ppid>> /\ ec' = e /\ UNCHANGED todo
       ELSE /\ Goto("next") /\ todo' = Tail(todo)
            /\ Collects(IF ppid = call.pid THEN <<call.pid>> ELSE <<>>)
            /\ ec' = IF ppid # call.pid /\ e = "ESRCH" THEN "none" ELSE e

\* What parent_pid gave for the pid at hand, and what its caller does with it.
Parent(ppid, e) ==
  /\ held' = nothing
  /\ UNCHANGED cursor
  /\ IF call.op = "parent"
       THEN Goto("done") /\ answer' = <<ppid>> /\ ec' = e /\ UNCHANGED todo
       ELSE /\ Goto("next") /\ todo' = Tail(todo)
            /\ Collects(IF ppid = call.pid THEN <<Head(todo)>> ELSE <<>>)
            /\ ec' = IF ppid # call.pid /\ e = "ESRCH" THEN "none" ELSE e

Subject == IF call.op = "parent" THEN call.pid ELSE Head(todo)

\* fopen of /proc/<pid>/stat.
OpenStat ==
  /\ platform = "linux"
  /\ At("begin", "parent") \/ (pc = "next" /\ todo # <<>>)
  /\ \/ /\ Exists(Subject)
        /\ Goto("read")
        /\ held' = [pid |-> Subject, born |-> procs[Subject].born, parent |-> 0]
        /\ UNCHANGED <<cursor, todo, answer, ec, unread>>
     \/ ~Exists(Subject) /\ Parent(None, "ESRCH") /\ UNCHANGED unread
     \/ Parent(None, "EMFILE") /\ unread' = unread \cup {Subject}

\* fread: nothing once the process is gone, else the fourth word of the line.  Behind a name
\* with a space that is the state of the process, which is no number, or, with another space,
\* a word of the name.
FourthWord_Third(r) == {0}     \* Mutant: the word before it, a letter
FourthWord(r) == IF r.image \in Spaced THEN {0} \cup NameWords ELSE {r.parent}
ReadStat ==
  /\ platform = "linux" /\ pc = "read"
  /\ \/ /\ Is(held.pid, held.born)
        /\ \E word \in FourthWord(procs[held.pid]) : Parent(word, ec)
        /\ unread' = IF procs[held.pid].image \in Spaced THEN unread \cup {held.pid} ELSE unread
     \/ /\ ~Is(held.pid, held.born)
        /\ Parent(None, ec) /\ UNCHANGED unread

NoMorePids == /\ pc = "next" /\ todo = <<>> /\ Returns(answer)

-------------------------------------------------------------------------------
(* macOS: the number of pids, then the pids for which there is room, in a   *)
(* vector resized to the number of bytes.                                   *)
CountPids == /\ platform = "macos" /\ pc = "begin" /\ call.op # "parent"
             /\ Goto("list") /\ \E more \in 0..Slack : cursor' = Cardinality(Listed) + more
             /\ UNCHANGED <<todo, held, answer, ec, unread>>
ListPids  == /\ platform = "macos" /\ pc = "list"
             /\ \E S \in SUBSET Listed :
                  /\ Cardinality(S) = IF Cardinality(Listed) <= cursor THEN Cardinality(Listed) ELSE cursor
                  /\ answer' = Listing(S) \o [i \in 1..((PidSize - 1) * Cardinality(S)) |-> 0]
             /\ Goto("done") /\ UNCHANGED <<cursor, todo, held, ec, unread>>
BsdInfo   == /\ platform = "macos" /\ At("begin", "parent")
             /\ IF Exists(call.pid) THEN Returns(<<procs[call.pid].parent>>) ELSE FailsEmpty("ESRCH")

-------------------------------------------------------------------------------
(* Solaris: a walk over the kernel's list, the pid of each process read by  *)
(* its address.                                                             *)
NextProc ==
  /\ platform = "sun" /\ pc \in {"begin", "walk"} /\ call.op # "parent"
  /\ IF Later(Listed) = {} THEN Returns(answer)
     ELSE /\ Goto("kread")
          /\ cursor' = Lowest(Later(Listed))
          /\ held' = [pid |-> cursor', born |-> procs[cursor'].born, parent |-> procs[cursor'].parent]
          /\ UNCHANGED <<todo, answer, ec, unread>>
ReadKernel ==
  /\ platform = "sun" /\ pc = "kread"
  /\ IF Is(held.pid, held.born)
       THEN Goto("walk") /\ answer' = <<held.pid>> \o answer /\ UNCHANGED <<cursor, todo, held, ec, unread>>
       ELSE Fails("EFAULT")
GetProc == /\ platform = "sun" /\ At("begin", "parent")
           /\ IF Exists(call.pid) THEN Returns(<<procs[call.pid].parent>>) ELSE FailsEmpty("ESRCH")

-------------------------------------------------------------------------------
\* The caller has its answer, or the error: the overload without an error_code throws it.
Return == /\ pc = "done" /\ pc' = "idle"
          /\ call' = [op |-> "none", pid |-> 0] /\ cursor' = 0 /\ todo' = <<>> /\ held' = nothing
          /\ answer' = <<>> /\ ec' = "none" /\ unread' = {}
          /\ UNCHANGED <<platform, procs, events>>

Step == \/ Start \/ OpenFails \/ ToolhelpFails \/ Unsupported \/ Return
        \/ ToolhelpAllPids \/ ToolhelpParentPid \/ ToolhelpChildPids
        \/ KvmAllPids \/ KvmParentPid \/ KvmChildPids \/ Kvm2AllPids \/ Kvm2ChildPids
        \/ DragonFlyAllPids \/ DragonFlyChildPids \/ OpenBsdAllPids \/ OpenBsdChildPids \/ BsdParentPid
        \/ ReadDir \/ OpenStat \/ ReadStat \/ NoMorePids
        \/ CountPids \/ ListPids \/ BsdInfo
        \/ NextProc \/ ReadKernel \/ GetProc

Others == ProcessStep(platform = "windows") /\ UNCHANGED query

\* The history of the right answers, kept while the query runs.
Remember == \E now \in {Truth'} :
              IF "idle" \in {pc, pc'} THEN possible' = now /\ certain' = now
              ELSE IF pc = "done" THEN UNCHANGED <<possible, certain>>
              ELSE possible' = possible \cup now /\ certain' = certain \cap now

Next == (Step \/ Others) /\ Remember
Spec == Init /\ [][Next]_vars

-------------------------------------------------------------------------------
Done(op) == pc = "done" /\ call.op = op
Pidded   == {p \in ToSet(answer) : p # 0}
\* macOS fills all the room it was given and says nothing of the processes it has left out.
Filled == platform = "macos" /\ Cardinality(Pidded) = cursor
\* What all_pids and child_pids return was true at some moment of the call, for each pid
\* once (the zeros of macOS aside), and without an error nobody is missing who belonged
\* to the answer all along.  There are three exceptions, none of them reported: on Linux a
\* process with a space in its name may be taken for anybody's child; a parent that could not
\* be read (no descriptor free, no snapshot) leaves its child out; and on macOS those are
\* missing for whom there was no room between the two calls.
ListsTruthful ==
  Done("all") \/ Done("children") =>
    /\ Pidded \ unread \subseteq possible
    /\ \A i, j \in DOMAIN answer : answer[i] = answer[j] /\ answer[i] # 0 => i = j
    /\ ec = "none" /\ ~Filled => certain \ unread \subseteq Pidded

\* parent_pid returns a parent the process had during the call, or -1 when it was gone at some
\* moment of it (unless its stat line or the snapshot could not be read), and reports no such
\* process only when there was none.
ParentTruthful ==
  Done("parent") => /\ ec = "none" /\ unread = {} => ToSet(answer) \subseteq possible
                    /\ ec = "ESRCH" => None \in possible
===============================================================================
