---------------------------- MODULE WindowsProcess ----------------------------
(***************************************************************************)
(* Processes on Windows, version 2: the launchers (default, as_user,        *)
(* with_token, with_logon) with process_stdio, which share the handle table *)
(* of the program, and basic_process on basic_process_handle_win with its   *)
(* waits.                                                                  *)
(***************************************************************************)
EXTENDS Integers, Sequences, FiniteSets, FiniteSetsExt

CONSTANTS
  WinLaunches, \* the launches, each on a thread of its own; they give their child its name
  WinKinds,    \* the [WinLaunches -> type of launcher] to look at
  Attached,    \* an object that is made of a pid
  Waits,       \* the calls of async_wait
  Pids,        \* the pids of the system
  MaxHandle,   \* bound: the handles of the program
  Files,       \* [name -> handle], the files the program has opened
  WinBindings, \* what a launch may be given: [kind, file]
  Codes,       \* the exit codes of the children
  MaxCalls,    \* bound: the calls on objects
  none

Handles      == 1..MaxHandle
INVALID      == 0           \* INVALID_HANDLE_VALUE
still_active == 259
Killed       == 260
Objects      == WinLaunches \cup {Attached}
Children     == WinLaunches

Entries  == [what : {"process", "limited", "thread", "opened", "file"}, of : WinLaunches \cup DOMAIN Files,
             inherit : BOOLEAN]
ExitCodes == Codes \cup {0, still_active, Killed}
Made     == [pid : Pids \cup {0, -1}, handle : Handles \cup {INVALID}, status : ExitCodes,
             of : Children]
Calls    == [object : Objects, call : {"wait", "terminate"}]
Begun    == [on : Objects, of : Children, held : {"process", "limited", "nothing"},
             state : {"pending", "signalled", "aborted", "done"}, cancelled : BOOLEAN,
             ec : {"ok", "bad_handle", "denied", "aborted"}, code : ExitCodes]

ASSUME WindowsAssumption ==
  /\ MaxHandle \in Nat
  /\ WinKinds \subseteq [WinLaunches -> {"default", "as_user", "with_token", "with_logon"}]
  /\ Attached \notin WinLaunches
  /\ Files \in [DOMAIN Files -> Handles]
  /\ \A f, g \in DOMAIN Files : Files[f] = Files[g] => f = g
  /\ DOMAIN Files \cap WinLaunches = {}    \* no file has the name of a child
  /\ WinBindings \subseteq [kind : {"none", "std", "handle", "file", "pipe"}, file : DOMAIN Files]
  /\ \A S \in {Entries, Made, Calls, Begun, Children} : none \notin S

VARIABLES
  handle,     \* [Handles -> [what, of, inherit], or none]
  launcher,   \* [WinLaunches -> the type of its launcher]
  stage,      \* [WinLaunches -> where its thread is]
  bound,      \* [WinLaunches -> its binding [kind, handle, inherit]]
  info,       \* [WinLaunches -> process_information: [process, thread]]
  outcome,    \* [WinLaunches -> "none", "ok" or "error"]
  process,    \* [Children -> [state, pid, code, files]]
  object,     \* [Objects -> [pid, handle, status, of], or none; of: the child whose handle it has,
              \*             or had last]
  blocked,    \* the call the program is in: [object, call], or none
  wait,       \* [Waits -> [on, of, held, state, cancelled, ec, code], or none; of: the child its
              \*           object had when it began, and held: the handle of it]
  done        \* the number of calls

launchVars == <<launcher, stage, bound, info, outcome>>
callVars   == <<object, blocked, wait, done>>
winVars    == <<handle, launchVars, process, callVars>>

WinTypeOK ==
  /\ handle \in [Handles -> Entries \cup {none}]
  /\ launcher \in WinKinds
  /\ stage \in [WinLaunches -> {"idle", "setup", "list", "create", "success", "unbind", "done"}]
  /\ bound \in [WinLaunches -> [kind : {"none", "std", "handle", "file", "pipe"},
                                handle : Handles \cup {INVALID}, inherit : BOOLEAN]]
  /\ info \in [WinLaunches -> [process : Handles \cup {INVALID}, thread : Handles \cup {INVALID}]]
  /\ outcome \in [WinLaunches -> {"none", "ok", "error"}]
  /\ process \in [Children -> [state : {"none", "running", "ended"}, pid : Pids \cup {0},
                               code : ExitCodes, files : SUBSET Entries]]
  /\ object \in [Objects -> Made \cup {none}]
  /\ blocked \in Calls \cup {none}
  /\ wait \in [Waits -> Begun \cup {none}]

Entry(what, of) == [what |-> what, of |-> of, inherit |-> FALSE]
FreeHandles == {h \in Handles : handle[h] = none}
Lowest      == Min(FreeHandles)
Second      == Min(FreeHandles \ {Lowest})
Holds(c)    == \E h \in Handles : handle[h] # none /\ handle[h].what \in {"process", "limited"} /\ handle[h].of = c
\* A pid is in use while its process runs or a handle of it is open.
InUse(c)    == process[c].state = "running" \/ Holds(c)
Taken       == {process[c].pid : c \in {d \in Children : InUse(d)}}

NoBinding == [kind |-> "none", handle |-> INVALID, inherit |-> FALSE]

WinInit ==
  /\ handle = [h \in Handles |->
                 IF \E f \in DOMAIN Files : Files[f] = h
                 THEN Entry("file", CHOOSE f \in DOMAIN Files : Files[f] = h) ELSE none]
  /\ launcher \in WinKinds
  /\ stage = [a \in WinLaunches |-> "idle"]
  /\ bound = [a \in WinLaunches |-> NoBinding]
  /\ info = [a \in WinLaunches |-> [process |-> INVALID, thread |-> INVALID]]
  /\ outcome = [a \in WinLaunches |-> "none"]
  /\ process = [c \in Children |-> [state |-> "none", pid |-> 0, code |-> 0, files |-> {}]]
  /\ object = [o \in Objects |-> none]
  /\ blocked = none /\ wait = [w \in Waits |-> none] /\ done = 0

-------------------------------------------------------------------------------
(***************************************************************************)
(* process_io_binding: a standard handle, which is only made inheritable;   *)
(* a handle of the program, whose flags are restored; a file or a pipe,     *)
(* whose handle is closed.  The other end of the pipe is the program's.  A  *)
(* file that cannot be opened leaves INVALID_HANDLE_VALUE.                 *)
(***************************************************************************)
Bind(a, b) ==
  /\ stage[a] = "idle"
  /\ stage' = [stage EXCEPT ![a] = "setup"]
  /\ CASE b.kind = "none" -> UNCHANGED <<handle, bound>>
       [] b.kind = "std" ->
            /\ bound' = [bound EXCEPT ![a] = [kind |-> "std", handle |-> Files[b.file], inherit |-> FALSE]]
            /\ UNCHANGED handle
       [] b.kind = "handle" ->
            /\ bound' = [bound EXCEPT ![a] = [kind |-> "handle", handle |-> Files[b.file],
                                              inherit |-> handle[Files[b.file]].inherit]]
            /\ UNCHANGED handle
       [] b.kind = "file" ->
            \/ /\ bound' = [bound EXCEPT ![a] = [kind |-> "file", handle |-> INVALID, inherit |-> FALSE]]
               /\ UNCHANGED handle
            \/ /\ FreeHandles # {}
               /\ bound' = [bound EXCEPT ![a] = [kind |-> "file", handle |-> Lowest, inherit |-> FALSE]]
               /\ handle' = [handle EXCEPT ![Lowest] = Entry("opened", a)]
       [] b.kind = "pipe" ->
            /\ Cardinality(FreeHandles) >= 2
            /\ bound' = [bound EXCEPT ![a] = [kind |-> "pipe", handle |-> Lowest, inherit |-> FALSE]]
            /\ handle' = [handle EXCEPT ![Lowest] = Entry("opened", a), ![Second] = Entry("file", a)]
  /\ UNCHANGED <<launcher, info, outcome, process, callVars>>

\* A pipe that cannot be made: the constructor throws.
BindThrows(a) ==
  /\ stage[a] = "idle" /\ \E b \in WinBindings : b.kind = "pipe"
  /\ Cardinality(FreeHandles) < 2
  /\ stage' = [stage EXCEPT ![a] = "done"] /\ outcome' = [outcome EXCEPT ![a] = "error"]
  /\ UNCHANGED <<launcher, handle, bound, info, process, callVars>>

Close(h) == handle' = [handle EXCEPT ![h] = none]
Leave(a, r) == stage' = [stage EXCEPT ![a] = "unbind"] /\ outcome' = [outcome EXCEPT ![a] = r]

\* on_setup of process_stdio; a later initializer may fail: on_error is called.
OnSetup(a) ==
  /\ stage[a] = "setup"
  /\ handle' = IF bound[a].handle = INVALID THEN handle ELSE [handle EXCEPT ![bound[a].handle].inherit = TRUE]
  /\ \/ stage' = [stage EXCEPT ![a] = "list"] /\ UNCHANGED outcome
     \/ Leave(a, "error")
  /\ UNCHANGED <<launcher, bound, info, process, callVars>>

inherited_handles(a) == IF bound[a].kind = "none" THEN {} ELSE {bound[a].handle}

\* Only the default and the as_user launcher make a list of handles; it may fail.
set_handle_list(a) ==
  /\ stage[a] = "list"
  /\ \/ stage' = [stage EXCEPT ![a] = "create"] /\ UNCHANGED outcome
     \/ inherited_handles(a) # {} /\ launcher[a] \in {"default", "as_user"} /\ Leave(a, "error")
  /\ UNCHANGED <<launcher, handle, bound, info, process, callVars>>

(***************************************************************************)
(* The CreateProcess functions: the child gets the handles of the list,     *)
(* which must be open and inheritable.                                     *)
(***************************************************************************)
Created(a, list) ==
  /\ \A h \in list : h # INVALID /\ handle[h].inherit
  /\ Cardinality(FreeHandles) >= 2
  /\ \E pid \in Pids \ Taken :
       process' = [process EXCEPT ![a] = [state |-> "running", pid |-> pid, code |-> still_active,
                                          files |-> {handle[h] : h \in list}]]
  /\ handle' = [handle EXCEPT ![Lowest] = Entry("process", a), ![Second] = Entry("thread", a)]
  /\ info' = [info EXCEPT ![a] = [process |-> Lowest, thread |-> Second]]
  /\ stage' = [stage EXCEPT ![a] = "success"]
  /\ UNCHANGED <<launcher, bound, outcome, callVars>>

\* Nothing to be closed: process_information has no handles yet.
CreateFails(a) == Leave(a, "error") /\ UNCHANGED <<launcher, handle, bound, info, process, callVars>>

\* Mutant: every inheritable handle goes to the child.
CreateProcessW_All(a) ==
  /\ stage[a] = "create" /\ launcher[a] = "default"
  /\ Created(a, {h \in Handles : handle[h] # none /\ handle[h].inherit}) \/ CreateFails(a)

CreateProcessW(a) ==
  stage[a] = "create" /\ launcher[a] = "default" /\ (Created(a, inherited_handles(a)) \/ CreateFails(a))
CreateProcessAsUserW(a) ==
  stage[a] = "create" /\ launcher[a] = "as_user" /\ (Created(a, inherited_handles(a)) \/ CreateFails(a))
CreateProcessWithTokenW(a) == stage[a] = "create" /\ launcher[a] = "with_token" /\ (Created(a, {}) \/ CreateFails(a))
CreateProcessWithLogonW(a) == stage[a] = "create" /\ launcher[a] = "with_logon" /\ (Created(a, {}) \/ CreateFails(a))

\* Mutant: the handle of the thread stays open.
Success_KeepsThread(a) ==
  /\ stage[a] = "success" /\ Leave(a, "ok")
  /\ object' = [object EXCEPT ![a] = [pid |-> process[a].pid, handle |-> info[a].process,
                                      status |-> still_active, of |-> a]]
  /\ UNCHANGED <<launcher, handle, bound, info, process, blocked, wait, done>>

\* on_success; the thread's handle is closed, and the object made.
Success(a) ==
  /\ stage[a] = "success" /\ Leave(a, "ok")
  /\ Close(info[a].thread)
  /\ object' = [object EXCEPT ![a] = [pid |-> process[a].pid, handle |-> info[a].process,
                                      status |-> still_active, of |-> a]]
  /\ UNCHANGED <<launcher, bound, info, process, blocked, wait, done>>

\* handle_closer, with the initializer's end.
Unbind(a) ==
  /\ stage[a] = "unbind" /\ stage' = [stage EXCEPT ![a] = "done"]
  /\ CASE bound[a].kind \in {"file", "pipe"} ->
            IF bound[a].handle = INVALID THEN UNCHANGED handle ELSE Close(bound[a].handle)
       [] bound[a].kind = "handle" -> handle' = [handle EXCEPT ![bound[a].handle].inherit = bound[a].inherit]
       [] bound[a].kind \in {"none", "std"} -> UNCHANGED handle
  /\ UNCHANGED <<launcher, bound, info, outcome, process, callVars>>

-------------------------------------------------------------------------------
(***************************************************************************)
(* The children, and the calls on objects, one after another.              *)
(***************************************************************************)
Exits(c, code) ==
  /\ process[c].state = "running"
  /\ process' = [process EXCEPT ![c].state = "ended", ![c].code = code]
  /\ UNCHANGED <<handle, launchVars, callVars>>

Ended(c) == process[c].state = "ended"
\* GetExitCodeProcess: an attached object has no right to ask.
Asks(o)     == handle[object[o].handle].what = "process"
ExitCode(o) == process[object[o].of].code

\* Bound: no call is made during a launch, with which it shares the table of handles only.
Calm    == \A a \in WinLaunches : stage[a] \in {"idle", "done"}
Idle(o) == Calm /\ blocked = none /\ done < MaxCalls /\ done' = done + 1 /\ object[o] # none
Quiet(o) == \A w \in Waits : wait[w] # none /\ wait[w].on = o => wait[w].state = "done"
HasHandle(o) == object[o].handle # INVALID

Store(o, code) == object' = [object EXCEPT ![o].status = IF code = still_active THEN @ ELSE code]
\* basic_process::running asks while the status is unknown; a call without a handle is an error.
Running(o) == object[o].status = still_active /\ HasHandle(o) /\ Asks(o) /\ ExitCode(o) = still_active
Poll(o)    == IF object[o].status = still_active /\ HasHandle(o) /\ Asks(o) THEN Store(o, ExitCode(o)) ELSE UNCHANGED object

running(o) == Idle(o) /\ Poll(o) /\ UNCHANGED <<handle, launchVars, process, blocked, wait>>

\* wait: running, and then the handle is waited for.
wait_(o) ==
  /\ Idle(o) /\ Poll(o)
  /\ blocked' = IF Running(o) THEN [object |-> o, call |-> "wait"] ELSE none
  /\ UNCHANGED <<handle, launchVars, process, wait>>

\* terminate waits when it could terminate: it cannot when the child has ended.
terminate(o) ==
  /\ Idle(o)
  /\ IF HasHandle(o) /\ process[object[o].of].state = "running"
       THEN /\ process' = [process EXCEPT ![object[o].of].state = "ended", ![object[o].of].code = Killed]
            /\ blocked' = [object |-> o, call |-> "terminate"]
       ELSE UNCHANGED <<process, blocked>>
  /\ UNCHANGED <<handle, launchVars, object, wait>>

\* The wait on the handle ends with the child.
Waited ==
  /\ blocked # none
  /\ \E o \in {blocked.object} :
       /\ Ended(object[o].of)
       /\ IF Asks(o) THEN Store(o, ExitCode(o)) ELSE UNCHANGED object
  /\ blocked' = none
  /\ UNCHANGED <<handle, launchVars, process, wait, done>>

\* interrupt and request_exit go by the pid: whoever has it may end.
by_pid(o) ==
  /\ Idle(o) /\ object[o].pid # 0
  /\ process' = [c \in Children |->
       IF InUse(c) /\ process[c].pid = object[o].pid /\ process[c].state = "running"
       THEN [process[c] EXCEPT !.state = "ended", !.code = 0] ELSE process[c]]
  /\ UNCHANGED <<handle, launchVars, object, blocked, wait>>

\* detach: the handle is given away, and here closed at once; the status stays as it is.
Emptied(rec, pid) == [rec EXCEPT !.pid = pid, !.handle = INVALID]
Drop(o) == handle' = IF HasHandle(o) THEN [handle EXCEPT ![object[o].handle] = none] ELSE handle
detach(o) ==
  /\ Idle(o) /\ Quiet(o) /\ Drop(o)
  /\ object' = [object EXCEPT ![o] = Emptied(@, 0)]
  /\ UNCHANGED <<launchVars, process, blocked, wait>>

\* Mutant: the destructor of the handle does not close it.
destroy_KeepsHandle(o) ==
  /\ Idle(o) /\ Quiet(o)
  /\ object' = [object EXCEPT ![o] = none]
  /\ process' = IF HasHandle(o) /\ Asks(o) /\ process[object[o].of].state = "running"
                THEN [process EXCEPT ![object[o].of].state = "ended", ![object[o].of].code = Killed]
                ELSE process
  /\ UNCHANGED <<handle, launchVars, blocked, wait>>

\* The destructor: terminate_if_running, and the handle closes.
destroy(o) ==
  /\ Idle(o) /\ Quiet(o) /\ Drop(o)
  /\ object' = [object EXCEPT ![o] = none]
  /\ process' = IF HasHandle(o) /\ Asks(o) /\ process[object[o].of].state = "running"
                THEN [process EXCEPT ![object[o].of].state = "ended", ![object[o].of].code = Killed]
                ELSE process
  /\ UNCHANGED <<launchVars, blocked, wait>>

\* Mutant: the status is not moved with the handle.
move_KeepsStatus(o, other) ==
  /\ Idle(o) /\ Quiet(o) /\ object[other] # none /\ Quiet(other) /\ o # other
  /\ Drop(o)
  /\ object' = [object EXCEPT ![o] = [object[other] EXCEPT !.status = object[o].status],
                              ![other] = Emptied(@, -1)]
  /\ UNCHANGED <<launchVars, process, blocked, wait>>

\* Move assignment: what the object held is closed, and not terminated; the other one has no pid.
move(o, other) ==
  /\ Idle(o) /\ Quiet(o) /\ object[other] # none /\ Quiet(other) /\ o # other
  /\ Drop(o)
  /\ object' = [object EXCEPT ![o] = object[other], ![other] = Emptied(@, -1)]
  /\ UNCHANGED <<launchVars, process, blocked, wait>>

\* process(executor, pid): open_process_ asks for the rights to terminate and to wait.
attach(c) ==
  /\ Calm /\ blocked = none /\ done < MaxCalls /\ done' = done + 1
  /\ object[Attached] = none /\ process[c].state # "none" /\ InUse(c) /\ FreeHandles # {}
  /\ handle' = [handle EXCEPT ![Lowest] = Entry("limited", c)]
  /\ object' = [object EXCEPT ![Attached] = [pid |-> process[c].pid, handle |-> Lowest,
                                             status |-> still_active, of |-> c]]
  /\ UNCHANGED <<launchVars, process, blocked, wait>>

-------------------------------------------------------------------------------
(***************************************************************************)
(* async_wait: an operation of basic_process around one of the handle.  The *)
(* object must stay where it is meanwhile.                                 *)
(***************************************************************************)
Beginning(o) ==
  [on |-> o, of |-> object[o].of, held |-> IF HasHandle(o) THEN handle[object[o].handle].what ELSE "nothing",
   state |-> "pending", cancelled |-> FALSE, ec |-> "ok", code |-> still_active]
AfterWait(w, rec) == wait' = [wait EXCEPT ![w] = rec] /\ UNCHANGED <<handle, launchVars, process, blocked, done>>

async_wait(w, o) ==
  /\ Calm /\ wait[w] = none /\ object[o] # none
  /\ UNCHANGED object
  /\ LET begun == Beginning(o)
     IN  CASE object[o].status # still_active ->
                AfterWait(w, [begun EXCEPT !.state = "done", !.code = object[o].status])
           [] object[o].status = still_active /\ HasHandle(o) -> AfterWait(w, begun)
           [] object[o].status = still_active /\ ~HasHandle(o) ->
                AfterWait(w, [begun EXCEPT !.state = "done", !.ec = "bad_handle"])

\* The io_context reports that the child has ended.
Signal(w) ==
  /\ wait[w] # none /\ wait[w].state = "pending" /\ Ended(object[wait[w].on].of)
  /\ UNCHANGED object /\ AfterWait(w, [wait[w] EXCEPT !.state = "signalled"])

\* The handler of the handle asks for the code unless another call has; the one of the process
\* waits again while the code says that the child runs.
HandlerSignalled(w) ==
  /\ wait[w] # none /\ wait[w].state = "signalled"
  /\ \E o \in {wait[w].on} :
       IF object[o].status # still_active
       THEN UNCHANGED object /\ AfterWait(w, [wait[w] EXCEPT !.state = "done", !.code = object[o].status])
       ELSE IF ~Asks(o)
       THEN UNCHANGED object /\ AfterWait(w, [wait[w] EXCEPT !.state = "done", !.ec = "denied"])
       ELSE /\ Store(o, ExitCode(o))
            /\ AfterWait(w, IF ExitCode(o) = still_active THEN [wait[w] EXCEPT !.state = "pending"]
                            ELSE [wait[w] EXCEPT !.state = "done", !.code = ExitCode(o)])

\* The slot cancels all waits on the handle.
Cancel(w) ==
  /\ Calm /\ wait[w] # none /\ wait[w].state \in {"pending", "aborted"} /\ done < MaxCalls /\ done' = done + 1
  /\ wait' = [v \in Waits |->
       IF wait[v] # none /\ wait[v].on = wait[w].on /\ wait[v].state \in {"pending", "aborted"}
       THEN [wait[v] EXCEPT !.state = "aborted", !.cancelled = @ \/ v = w] ELSE wait[v]]
  /\ UNCHANGED <<handle, launchVars, process, object, blocked>>

\* Mutant: a wait that was aborted for another one is forgotten.
HandlerAborted_Forgets(w) ==
  /\ wait[w] # none /\ wait[w].state = "aborted"
  /\ UNCHANGED object
  /\ AfterWait(w, IF wait[w].cancelled THEN [wait[w] EXCEPT !.state = "done", !.ec = "aborted"]
                  ELSE [wait[w] EXCEPT !.state = "forgotten"])

\* Whose wait was not cancelled waits again.
HandlerAborted(w) ==
  /\ wait[w] # none /\ wait[w].state = "aborted"
  /\ UNCHANGED object
  /\ AfterWait(w, IF wait[w].cancelled THEN [wait[w] EXCEPT !.state = "done", !.ec = "aborted"]
                  ELSE [wait[w] EXCEPT !.state = "pending"])

-------------------------------------------------------------------------------
LaunchStep(a) ==
  \/ OnSetup(a) \/ set_handle_list(a) \/ Success(a) \/ Unbind(a)
  \/ CreateProcessW(a) \/ CreateProcessAsUserW(a) \/ CreateProcessWithTokenW(a) \/ CreateProcessWithLogonW(a)
LoopStep(w) == Signal(w) \/ HandlerSignalled(w) \/ HandlerAborted(w)

WinNext ==
  \/ \E a \in WinLaunches : (\E b \in WinBindings : Bind(a, b)) \/ BindThrows(a) \/ LaunchStep(a)
  \/ \E c \in Children : (\E code \in Codes : Exits(c, code)) \/ attach(c)
  \/ \E o \in Objects : \/ running(o) \/ wait_(o) \/ terminate(o) \/ by_pid(o) \/ detach(o) \/ destroy(o)
                        \/ \E other \in Objects : move(o, other)
                        \/ \E w \in Waits : async_wait(w, o)
  \/ Waited
  \/ \E w \in Waits : Cancel(w) \/ LoopStep(w)

\* The threads run, and so does the io_context, which calls the handlers in their order.
WinFairness == /\ \A a \in WinLaunches : WF_winVars(LaunchStep(a))
            /\ WF_winVars(Waited) /\ \A w \in Waits : WF_winVars(LoopStep(w))

WinSpec == WinInit /\ [][WinNext]_winVars

-------------------------------------------------------------------------------
\* A handle of the program that two launches were given: the one's end undoes the other's setup.
Shared(h) == \E a, b \in WinLaunches : /\ a # b /\ bound[a].handle = h /\ bound[b].handle = h
                                       /\ bound[a].kind = "handle"

\* A launch that reports success has made a child, and one that reports an error none, also
\* while another launch opens, closes and passes on its own handles.
WinLaunchTruthful ==
  \A a \in WinLaunches :
    /\ outcome[a] = "ok" => process[a].state # "none"
    /\ outcome[a] = "error" => process[a].state = "none"

\* A child inherits what its launch bound, and nothing that another one had made inheritable;
\* the launchers that log a user on pass no handles.
Passed(a) == CASE bound[a].kind = "none"              -> {}
               [] bound[a].kind \in {"file", "pipe"}  -> {a}
               [] bound[a].kind \in {"handle", "std"} -> {f \in DOMAIN Files : Files[f] = bound[a].handle}
InheritsGiven == \A a \in WinLaunches : process[a].state # "none" =>
  {f.of : f \in process[a].files} = IF launcher[a] \in {"with_token", "with_logon"} THEN {} ELSE Passed(a)

\* Every handle of a process has one object, or a launch that is about to make it; those of
\* threads, files and pipes have a launch that has not ended; and the program's files stay
\* open, and inheritable only during a launch, but for standard handles and handles that
\* two launches were given.
HandlesOwned ==
  /\ \A h \in Handles : handle[h] # none =>
       CASE handle[h].what \in {"process", "limited"} ->
              Cardinality({o \in Objects : object[o] # none /\ object[o].handle = h}
                          \cup {a \in WinLaunches : stage[a] = "success" /\ info[a].process = h}) = 1
         [] handle[h].what = "thread" -> stage[handle[h].of] = "success" /\ info[handle[h].of].thread = h
         [] handle[h].what = "opened" -> stage[handle[h].of] # "done" /\ bound[handle[h].of].handle = h
         [] handle[h].what = "file"   -> TRUE
  /\ \A o \in Objects : object[o] # none /\ HasHandle(o) =>
       /\ handle[object[o].handle] # none /\ handle[object[o].handle].of = object[o].of
       /\ process[object[o].of].pid = object[o].pid
  /\ \A f \in DOMAIN Files :
       /\ handle[Files[f]] # none /\ handle[Files[f]].of = f
       /\ handle[Files[f]].inherit =>
            Shared(Files[f]) \/ \E a \in WinLaunches : bound[a].handle = Files[f] /\ (bound[a].kind = "std" \/ stage[a] # "done")

\* The status that an object knows is the exit code of its own child, the one whose handle it
\* has or had last, which has ended.  A wait that ends without an error has that of the child
\* its object had when it began.  It ends with an error only if it was cancelled ("aborted"),
\* if the object had no handle ("bad_handle"), or if that one came from a pid ("denied").
WaitsTruthful ==
  /\ \A o \in Objects : object[o] # none /\ object[o].status # still_active =>
       Ended(object[o].of) /\ object[o].status = ExitCode(o)
  /\ \A w \in Waits : wait[w] # none /\ wait[w].state = "done" =>
       \/ wait[w].ec = "ok" /\ Ended(wait[w].of) /\ wait[w].code = process[wait[w].of].code
       \/ wait[w].ec = "aborted" /\ wait[w].cancelled
       \/ wait[w].ec = "bad_handle" /\ wait[w].held = "nothing"
       \/ wait[w].ec = "denied" /\ wait[w].held = "limited"

\* On Windows a blocked call returns once its child has ended, and an async_wait completes,
\* unless the code of the child says that it still runs; for the call and all waits in one, as
\* each wait is made once.
Stuck == IF blocked = none THEN FALSE ELSE Ended(object[blocked.object].of)
Due(w) == IF wait[w] = none \/ wait[w].state = "done" THEN FALSE
          ELSE \E c \in {object[wait[w].on].of} : Ended(c) /\ process[c].code # still_active
Owed == Stuck \/ \E w \in Waits : Due(w)
WaitsEnd == Owed ~> ~Owed
===============================================================================
