-------------------------------- MODULE Executor --------------------------------
(***************************************************************************)
(* The POSIX executor of version 1: one call of executor::invoke with the  *)
(* initializers it was given, in its three error modes (throw, code, the   *)
(* mode with an error_code or throw_on_error, and ignore) and with fork or *)
(* vfork.  The launching thread calls on_setup, on_fork_error, on_error    *)
(* and on_success of every initializer; the child calls on_exec_setup.     *)
(* Another thread of the parent opens a file and starts a child meanwhile. *)
(*                                                                         *)
(* A descriptor is a number; what it refers to is a pair: <<"std", d>> is  *)
(* a standard stream, <<"own", i>> the end that initializer i hands to the *)
(* child, or its file, <<"opp", i>> the opposite end, <<"er", 0>> and      *)
(* <<"ew", 0>> the ends of the error pipe, <<"other", 0>> the file of the  *)
(* other thread.                                                           *)
(***************************************************************************)
EXTENDS Integers, Sequences, FiniteSets, FiniteSetsExt, Functions

CONSTANTS
  Modes,     \* subset of {"throw", "code", "ignore"}
  Forks,     \* subset of {"fork", "vfork"}
  Plans,     \* the sequences of initializers [kind, to] a call may be given
  MaxFd      \* bound: the highest descriptor, RLIMIT_NOFILE

Fds    == 0..MaxFd
Std    == 0..2
Closed == <<"none", 0>>
Other  == <<"other", 0>>

\* Kinds of initializers: those that take an end of a pipe, those that hold a
\* file, those that close a stream (close_in and close_out, and close_fd_ with the
\* number), limit_handles_ and the handlers of the program that call set_error in a
\* phase.
Takers == {"pipe", "async_pipe"}
Asyncs == {"async", "future"}
Pipers == Takers \cup Asyncs
Binders == Pipers \cup {"file"}
Closers == {"close", "close_fd"}

\* What std_in, and std_out, std_err or both joined with &, make of what they are given;
\* null is a file, and only output can go to a future.
StdIn    == [kind : (Binders \ {"future"}) \cup {"close"}, to : {{0}}]
StdOut   == [kind : Binders \cup {"close"}, to : {{1}, {2}, {1, 2}}]
CloseFd  == [kind : {"close_fd"}, to : {{d} : d \in Std}]
Handlers == [kind : {"limit", "throw_on_error", "bad_setup", "bad_exec_setup", "bad_success"},
             to : {{}}]
Initializers == StdIn \cup StdOut \cup CloseFd \cup Handlers

VARIABLES
  mode, how, plan,
  pc,        \* where the launching thread is
  at,        \* the initializer whose handler it calls next
  table,     \* [Fds -> what the parent has open there]
  own, opp,  \* the numbers initializers hold for their ends, -1 if none
  shut,      \* the initializers whose stream or pipe object is closed or given up
  guard,     \* the numbers pipe_guard closes when it goes out of scope
  cloexec,   \* the write end of the error pipe has FD_CLOEXEC
  used,      \* used_handles of limit_handles_
  ec,        \* _ec: "ok" or "error"
  handle,    \* the child object: "none" or "local"
  child,     \* the state of the child process
  step,      \* the initializer whose on_exec_setup it calls next
  fds,       \* [Fds -> what the child has open there]
  told,      \* the error pipe has an error to read
  fate,      \* how its setup ended: "none", "ran", "failed", "killed"
  twice,     \* on_error is being called after on_success
  sibling,   \* the other thread's child: "none", "holds" the write end, "gone"
  result     \* what the caller gets

callVars   == <<mode, how, plan>>
parentVars == <<pc, at, table, guard, own, opp, shut, cloexec, used, ec, handle, twice, result>>
childVars  == <<child, step, fds, fate>>
vars       == <<callVars, parentVars, childVars, told, sibling>>

Nth(i)       == plan[i]
Inits        == DOMAIN plan
IsOpen(t, d) == d \in Fds /\ t[d] # Closed
Held(t, f)   == \E d \in Fds : t[d] = f
FreeIn(t)    == {d \in Fds : t[d] = Closed}
Lowest(t)    == Min(FreeIn(t))
Without(t, ds) == [d \in Fds |-> IF d \in ds THEN Closed ELSE t[d]]
HasErrorPipe == how = "fork" /\ mode # "ignore"

\* pipe(2): the two lowest free numbers.
PipeIn(t, r, w) ==
  LET d == Lowest(t)
      e == Min(FreeIn(t) \ {d})
  IN  [fd |-> <<d, e>>, table |-> [t EXCEPT ![d] = r, ![e] = w]]
TwoFree(t) == Cardinality(FreeIn(t)) >= 2

\* The initializer at index i is built around the descriptors 2i + 1 and 2i + 2.
Init ==
  /\ mode \in Modes /\ how \in Forks
  /\ plan \in {p \in Plans : Range(p) \subseteq Initializers}
  /\ mode = "throw" => \A i \in Inits : Nth(i).kind # "throw_on_error"
  /\ own = [i \in Inits |-> IF Nth(i).kind \in Takers \cup {"file"} THEN 2 * i + 1 ELSE -1]
  /\ opp = [i \in Inits |-> IF Nth(i).kind \in Takers THEN 2 * i + 2 ELSE -1]
  /\ table = [d \in Fds |->
       IF d \in Std THEN <<"std", d>>
       ELSE IF \E i \in Inits : d = own[i] THEN <<"own", CHOOSE i \in Inits : d = own[i]>>
       ELSE IF \E i \in Inits : d = opp[i] THEN <<"opp", CHOOSE i \in Inits : d = opp[i]>>
       ELSE Closed]
  /\ pc = IF HasErrorPipe THEN "pipe" ELSE "setup"
  /\ at = 1 /\ guard = {} /\ cloexec = FALSE /\ used = {} /\ shut = {} /\ ec = "ok" /\ handle = "none"
  /\ child = "none" /\ step = 1 /\ fds = [d \in Fds |-> Closed]
  /\ told = FALSE /\ fate = "none" /\ twice = FALSE /\ sibling = "none"
  /\ result = "none"

-------------------------------------------------------------------------------
(***************************************************************************)
(* Leaving invoke.  pipe_guard closes what is left of the error pipe; a    *)
(* child object that is not returned is destroyed: ~child terminates and   *)
(* reaps a child that has not been reaped.                                 *)
(***************************************************************************)
Leave_NoDestructor(r, t) ==     \* Mutant: the child object is just dropped.
  /\ pc' = "done"
  /\ result' = r
  /\ table' = Without(t, guard) /\ guard' = {}
  /\ handle' = "none"
  /\ UNCHANGED <<at, own, opp, shut, cloexec, used, ec, twice, childVars>>

Leave(r, t) ==
  /\ pc' = "done"
  /\ result' = r
  /\ table' = Without(t, guard) /\ guard' = {}
  /\ handle' = "none"
  /\ child' = IF handle = "local" /\ r # "child" THEN "reaped" ELSE child
  /\ UNCHANGED <<at, own, opp, shut, cloexec, used, ec, twice, step, fds, fate>>

Goto(next) == pc' = next /\ at' = 1
NextInit   == at' = at + 1 /\ UNCHANGED pc
Calls(phase) == pc = phase /\ at \in Inits
Called(phase) == pc = phase /\ at \notin Inits

(***************************************************************************)
(* set_error in the parent: an exception, _ec for on_error, or nothing.    *)
(***************************************************************************)
SetError(t) ==
  \/ /\ mode = "throw"
     /\ Leave("throw", t)
  \/ /\ mode = "code"
     /\ ec' = "error" /\ NextInit /\ table' = t
     /\ UNCHANGED <<guard, own, opp, shut, cloexec, used, handle, twice, result, childVars>>
  \/ /\ mode = "ignore"
     /\ NextInit /\ table' = t
     /\ UNCHANGED <<guard, own, opp, shut, cloexec, used, ec, handle, twice, result, childVars>>

(***************************************************************************)
(* The error pipe: pipe(2) fails at the limit of descriptors; in the       *)
(* throwing mode that is an exception, else an empty child.  FD_CLOEXEC is *)
(* set by a second call.                                                   *)
(***************************************************************************)
OpenPipe ==
  /\ pc = "pipe"
  /\ IF TwoFree(table)
     THEN /\ LET pair == PipeIn(table, <<"er", 0>>, <<"ew", 0>>)
             IN  table' = pair.table /\ guard' = {pair.fd[1], pair.fd[2]}
          /\ Goto("flag")
          /\ UNCHANGED <<own, opp, shut, cloexec, used, ec, handle, twice, result, childVars>>
     ELSE Leave(IF mode = "throw" THEN "throw" ELSE "empty", table)
  /\ UNCHANGED <<callVars, told, sibling>>

SetCloexec ==
  /\ pc = "flag"
  /\ cloexec' = TRUE
  /\ Goto("setup")
  /\ UNCHANGED <<callVars, table, guard, own, opp, shut, used, ec, handle, twice, result, childVars,
                 told, sibling>>

(***************************************************************************)
(* on_setup.  on_setup_t calls none after an error.  The asynchronous      *)
(* buffers open their pipe here, whose constructor throws in every mode,   *)
(* and limit_handles_ takes the numbers in use: those of an asynchronous   *)
(* buffer only if it is set up already; async_out_future and close_out are *)
(* no uses_handles, so that theirs are not among them.                     *)
(***************************************************************************)
UsedBy_EndsOnly(i) ==       \* Mutant: the targets are not among the handles in use.
  IF Nth(i).kind = "future" THEN {} ELSE {own[i], opp[i]} \ {-1}

UsedBy(i) ==
  CASE Nth(i).kind \in Binders \ {"future"} -> Nth(i).to \cup ({own[i], opp[i]} \ {-1})
    [] Nth(i).kind = "close_fd" -> Nth(i).to
    [] Nth(i).kind = "close" -> Nth(i).to \cap {0}
    [] OTHER -> {}

UsedHandles ==
  (UNION {UsedBy(i) : i \in Inits}) \cup {d \in Fds : table[d] = <<"ew", 0>>}

OnSetup ==
  /\ Calls("setup")
  /\ \/ /\ ec = "error"
        /\ NextInit
        /\ UNCHANGED <<table, guard, own, opp, shut, used, ec, handle, cloexec, twice, result, childVars>>
     \/ /\ ec = "ok" /\ Nth(at).kind \in Asyncs /\ TwoFree(table)
        /\ LET pair == PipeIn(table, <<"own", at>>, <<"opp", at>>)
           IN  /\ table' = pair.table
               /\ own' = [own EXCEPT ![at] = pair.fd[1]]
               /\ opp' = [opp EXCEPT ![at] = pair.fd[2]]
        /\ NextInit
        /\ UNCHANGED <<guard, shut, used, ec, handle, cloexec, twice, result, childVars>>
     \/ /\ ec = "ok" /\ Nth(at).kind \in Asyncs /\ ~TwoFree(table)
        /\ Leave("throw", table)
     \/ /\ ec = "ok" /\ Nth(at).kind = "limit"
        /\ used' = UsedHandles
        /\ NextInit
        /\ UNCHANGED <<table, guard, own, opp, shut, ec, handle, cloexec, twice, result, childVars>>
     \/ /\ ec = "ok" /\ Nth(at).kind = "bad_setup"
        /\ SetError(table)
     \/ /\ ec = "ok" /\ Nth(at).kind \notin Asyncs \cup {"limit", "bad_setup"}
        /\ NextInit
        /\ UNCHANGED <<table, guard, own, opp, shut, used, ec, handle, cloexec, twice, result, childVars>>
  /\ UNCHANGED <<callVars, told, sibling>>

\* An error of on_setup: on_error, and the caller gets an empty child.
SetUp ==
  /\ Called("setup")
  /\ Goto(IF ec = "error" THEN "error" ELSE "fork")
  /\ UNCHANGED <<callVars, table, guard, own, opp, shut, cloexec, used, ec, handle, twice, result,
                 childVars, told, sibling>>

(***************************************************************************)
(* fork and vfork.  Their failure is stored in _ec and given to on_error   *)
(* in every mode but ignore: nothing throws.  The parent of a vfork is     *)
(* suspended until its child has called execve or _exit.                   *)
(***************************************************************************)
ForkFails ==
  /\ pc = "fork"
  /\ IF mode = "ignore"
     THEN Leave("empty", table)
     ELSE /\ ec' = "error" /\ Goto("error")
          /\ UNCHANGED <<table, guard, own, opp, shut, cloexec, used, handle, twice, result, childVars>>
  /\ UNCHANGED <<callVars, told, sibling>>

Fork ==
  /\ pc = "fork"
  /\ child' = "setup" /\ step' = 1
  /\ fds' = [d \in Fds |-> IF table[d] = <<"er", 0>> THEN Closed ELSE table[d]]
  /\ handle' = IF how = "fork" /\ mode = "ignore" THEN "local" ELSE handle
  /\ Goto(IF how = "vfork" THEN "suspended" ELSE IF mode = "ignore" THEN "success" ELSE "close")
  /\ UNCHANGED <<callVars, table, guard, own, opp, shut, cloexec, used, ec, fate, twice, result,
                 told, sibling>>

-------------------------------------------------------------------------------
(***************************************************************************)
(* The child.  set_error there writes to the error pipe, or to the _ec it  *)
(* shares with its suspended parent, and the child goes on.                *)
(***************************************************************************)
Reported ==
  /\ told' = (told \/ HasErrorPipe)
  /\ ec' = IF how = "vfork" /\ mode # "ignore" THEN "error" ELSE ec

\* Mutant: the opposite end is left open.
Bound_KeepsOpposite(i) ==
  [d \in Fds |-> IF d \in Nth(i).to THEN fds[own[i]]
                 ELSE IF d = own[i] /\ Nth(i).kind \in Pipers THEN Closed ELSE fds[d]]

\* dup2 of the end to every target, then close(2) of it and of the opposite end:
\* pipe_out<2, -1> compares its sink with STDOUT_FILENO.
Spared(to) == IF to = {2} THEN {1} ELSE to
Bound(i) ==
  LET dup  == [d \in Fds |-> IF d \in Nth(i).to THEN fds[own[i]] ELSE fds[d]]
      rest == IF Nth(i).kind \in Pipers
              THEN {opp[i]} \cup (IF Nth(i).kind \in Asyncs /\ Nth(i).to # {0}
                                  THEN {own[i]} ELSE {own[i]} \ Spared(Nth(i).to))
              ELSE {}
  IN  Without(dup, rest)

\* limit_handles_ closes in the order of the numbers, up to the first close(2) that
\* fails, with or without having closed; the first of all when opendir fails, as it
\* does without a free number.
OnExecSetup ==
  /\ child = "setup" /\ step \in Inits
  /\ \/ /\ Nth(step).kind \in Binders /\ IsOpen(fds, own[step])
        /\ fds' = Bound(step)
        /\ UNCHANGED <<told, ec>>
     \/ /\ Nth(step).kind \in Binders /\ ~IsOpen(fds, own[step])
        /\ Reported
        /\ fds' = IF Nth(step).kind \in Pipers THEN Without(fds, {opp[step]}) ELSE fds
     \/ /\ Nth(step).kind \in Closers /\ Nth(step).to \subseteq {d \in Fds : IsOpen(fds, d)}
        /\ fds' = Without(fds, Nth(step).to)
        /\ UNCHANGED <<told, ec>>
     \/ /\ Nth(step).kind \in Closers /\ ~(Nth(step).to \subseteq {d \in Fds : IsOpen(fds, d)})
        /\ Reported
        /\ fds' = Without(fds, Nth(step).to)
     \/ /\ Nth(step).kind = "limit"
        /\ FreeIn(fds) # {}
        /\ fds' = Without(fds, Fds \ used)
        /\ UNCHANGED <<told, ec>>
     \/ /\ Nth(step).kind = "limit"
        /\ Reported
        /\ \E stop \in Fds : fds' = Without(fds, {d \in Fds \ used : d < stop})
     \/ /\ Nth(step).kind = "bad_exec_setup"
        /\ Reported
        /\ UNCHANGED fds
     \/ /\ Nth(step).kind \in {"throw_on_error", "bad_setup", "bad_success"}
        /\ UNCHANGED <<fds, told, ec>>
  /\ step' = step + 1
  /\ UNCHANGED <<callVars, pc, at, table, guard, own, opp, shut, cloexec, used, handle, twice, result,
                 child, fate, sibling>>

\* execve: the descriptors with FD_CLOEXEC are closed in the new program.
Exec ==
  /\ child = "setup" /\ step \notin Inits
  /\ child' = "running" /\ fate' = "ran"
  /\ fds' = [d \in Fds |-> IF fds[d] = <<"ew", 0>> /\ cloexec THEN Closed ELSE fds[d]]
  /\ UNCHANGED <<callVars, parentVars, step, told, sibling>>

\* Mutant: the error of execve is not reported.
ExecFails_Silent ==
  /\ child = "setup" /\ step \notin Inits
  /\ child' = "exiting" /\ fate' = "failed"
  /\ fds' = [d \in Fds |-> Closed]
  /\ UNCHANGED <<callVars, parentVars, step, told, sibling>>

ExecFails ==
  /\ child = "setup" /\ step \notin Inits
  /\ Reported
  /\ child' = "exiting" /\ fate' = "failed"
  /\ fds' = [d \in Fds |-> Closed]
  /\ UNCHANGED <<callVars, pc, at, table, guard, own, opp, shut, cloexec, used, handle, twice, result,
                 step, sibling>>

\* The end of the child, of the program it became, and a signal before execve.
Exit ==
  /\ child \in {"exiting", "running"}
  /\ child' = "zombie"
  /\ fds' = [d \in Fds |-> Closed]
  /\ UNCHANGED <<callVars, parentVars, step, fate, told, sibling>>

Killed ==
  /\ child = "setup"
  /\ child' = "zombie" /\ fate' = "killed"
  /\ fds' = [d \in Fds |-> Closed]
  /\ UNCHANGED <<callVars, parentVars, step, told, sibling>>

-------------------------------------------------------------------------------
(***************************************************************************)
(* The parent after fork: it closes its write end and reads the error pipe *)
(* until an error or the end of the file, which comes when no process has  *)
(* the write end any more.                                                 *)
(***************************************************************************)
CloseSink_Stays ==     \* Mutant: the parent keeps its write end.
  /\ pc = "close"
  /\ Goto("read")
  /\ UNCHANGED <<callVars, table, guard, own, opp, shut, cloexec, used, ec, handle, twice, result,
                 childVars, told, sibling>>

CloseSink_NotReset ==  \* Mutant: p[1] is not set to -1.
  /\ pc = "close"
  /\ table' = [d \in Fds |-> IF table[d] = <<"ew", 0>> THEN Closed ELSE table[d]]
  /\ Goto("read")
  /\ UNCHANGED <<callVars, guard, own, opp, shut, cloexec, used, ec, handle, twice, result, childVars,
                 told, sibling>>

CloseSink ==
  /\ pc = "close"
  /\ table' = [d \in Fds |-> IF table[d] = <<"ew", 0>> THEN Closed ELSE table[d]]
  /\ guard' = {d \in guard : table[d] # <<"ew", 0>>}
  /\ Goto("read")
  /\ UNCHANGED <<callVars, own, opp, shut, cloexec, used, ec, handle, twice, result, childVars,
                 told, sibling>>

\* In the throwing mode the exception leaves at once: no waitpid, no on_error.
ReadError ==
  /\ pc = "read"
  /\ \/ /\ told /\ mode = "throw"
        /\ Leave("throw", table)
     \/ /\ told /\ mode = "code"
        /\ ec' = "error" /\ Goto("reap")
        /\ table' = Without(table, guard) /\ guard' = {}
        /\ UNCHANGED <<own, opp, shut, cloexec, used, handle, twice, result, childVars>>
     \/ /\ ~told /\ sibling # "holds"
        /\ ~Held(fds, <<"ew", 0>>) /\ ~Held(table, <<"ew", 0>>)
        /\ handle' = "local" /\ Goto("success")
        /\ table' = Without(table, guard) /\ guard' = {}
        /\ UNCHANGED <<own, opp, shut, cloexec, used, ec, twice, result, childVars>>
  /\ UNCHANGED <<callVars, told, sibling>>

\* waitpid(pid, nullptr, WNOHANG)
Reap ==
  /\ pc = "reap"
  /\ child' = IF child = "zombie" THEN "reaped" ELSE child
  /\ Goto("error")
  /\ UNCHANGED <<callVars, table, guard, own, opp, shut, cloexec, used, ec, handle, twice, result,
                 step, fds, fate, told, sibling>>

\* The parent of a vfork: the child object is there before the error is looked at.
Resume ==
  /\ pc = "suspended" /\ child # "setup"
  /\ handle' = "local"
  /\ Goto("resumed")
  /\ UNCHANGED <<callVars, table, guard, own, opp, shut, cloexec, used, ec, twice, result, childVars,
                 told, sibling>>

CheckError ==
  /\ pc = "resumed"
  /\ IF ec = "error" /\ mode = "throw"
     THEN Leave("throw", table)
     ELSE /\ Goto(IF ec = "error" THEN "reap" ELSE "success")
          /\ UNCHANGED <<table, guard, own, opp, shut, cloexec, used, ec, handle, twice, result, childVars>>
  /\ UNCHANGED <<callVars, told, sibling>>

(***************************************************************************)
(* on_success and on_error close the child's end in the parent: pipe_in    *)
(* and pipe_out by the number they keep, the asynchronous ones through     *)
(* their stream, which knows whether it is open.  An asynchronous buffer   *)
(* gives its pipe up in on_success and has none before on_setup; on_error  *)
(* uses it all the same.                                                   *)
(***************************************************************************)
CloseEnd_Opposite(i) ==     \* Mutant: closes the end the program works with.
  /\ table' = IF i \in shut THEN table ELSE Without(table, {opp[i]})
  /\ shut' = IF Nth(i).kind = "pipe" THEN shut ELSE shut \cup {i}

CloseEnd(i) ==
  /\ table' = IF i \in shut THEN table ELSE Without(table, {own[i]})
  /\ shut' = IF Nth(i).kind = "pipe" THEN shut ELSE shut \cup {i}

OnSuccess ==
  /\ Calls("success")
  /\ \/ /\ Nth(at).kind \in Pipers
        /\ CloseEnd(at) /\ NextInit
        /\ UNCHANGED <<guard, own, opp, cloexec, used, ec, handle, twice, result, childVars>>
     \/ /\ Nth(at).kind = "bad_success"
        /\ SetError(table)
     \/ /\ Nth(at).kind \notin Pipers \cup {"bad_success"}
        /\ NextInit
        /\ UNCHANGED <<table, guard, own, opp, shut, cloexec, used, ec, handle, twice, result, childVars>>
  /\ UNCHANGED <<callVars, told, sibling>>

Succeeded ==
  /\ Called("success")
  /\ IF ec = "error"
     THEN /\ twice' = TRUE /\ Goto("error")
          /\ UNCHANGED <<table, guard, own, opp, shut, cloexec, used, ec, handle, result, childVars>>
     ELSE Leave("child", table)
  /\ UNCHANGED <<callVars, told, sibling>>

OnError ==
  /\ Calls("error")
  /\ \/ /\ Nth(at).kind \in Takers \/ (Nth(at).kind \in Asyncs /\ own[at] # -1 /\ at \notin shut)
        /\ CloseEnd(at) /\ NextInit
        /\ UNCHANGED <<guard, own, opp, cloexec, used, ec, handle, twice, result, childVars>>
     \/ /\ Nth(at).kind \in Asyncs /\ (own[at] = -1 \/ at \in shut)
        /\ Leave("crash", table)
     \/ /\ Nth(at).kind = "throw_on_error"
        /\ Leave("throw", table)
     \/ /\ Nth(at).kind \notin Pipers \cup {"throw_on_error"}
        /\ NextInit
        /\ UNCHANGED <<table, guard, own, opp, shut, cloexec, used, ec, handle, twice, result, childVars>>
  /\ UNCHANGED <<callVars, told, sibling>>

Failed ==
  /\ Called("error")
  /\ Leave("empty", table)
  /\ UNCHANGED <<callVars, told, sibling>>

-------------------------------------------------------------------------------
(***************************************************************************)
(* Another thread of the parent: it opens a file, and it starts a program  *)
(* that inherits the write end between pipe and fcntl.                     *)
(***************************************************************************)
OtherOpens ==
  /\ pc # "done" /\ FreeIn(table) # {} /\ ~Held(table, Other)
  /\ table' = [table EXCEPT ![Lowest(table)] = Other]
  /\ UNCHANGED <<callVars, pc, at, guard, own, opp, shut, cloexec, used, ec, handle, twice, result,
                 childVars, told, sibling>>

SiblingStarts ==
  /\ pc = "flag" /\ sibling = "none"
  /\ sibling' = "holds"
  /\ UNCHANGED <<callVars, parentVars, childVars, told>>

SiblingEnds ==
  /\ sibling = "holds"
  /\ sibling' = "gone"
  /\ UNCHANGED <<callVars, parentVars, childVars, told>>

Invoke == OpenPipe \/ SetCloexec \/ OnSetup \/ SetUp \/ ForkFails \/ Fork \/ CloseSink
          \/ ReadError \/ Reap \/ Resume \/ CheckError \/ OnSuccess \/ Succeeded
          \/ OnError \/ Failed
ChildStep == OnExecSetup \/ Exec \/ ExecFails
Next == Invoke \/ ChildStep \/ Exit \/ Killed \/ OtherOpens \/ SiblingStarts \/ SiblingEnds
Spec == Init /\ [][Next]_vars

\* The two processes run; nothing makes a program end.
FairSpec == Spec /\ WF_vars(Invoke) /\ WF_vars(ChildStep)

-------------------------------------------------------------------------------
(***************************************************************************)
(* Properties.                                                             *)
(***************************************************************************)
\* A child object the caller gets where errors are not ignored stands for a
\* process that reached its program with every on_exec_setup done, or that a
\* signal ended: the errors of the child are never lost on their way.  And its
\* program has every stream it was promised: the end or file of each initializer
\* at its targets, unless a later one took the target.
HasStreams ==
  \A i \in Inits : Nth(i).kind \in Binders =>
    \A d \in Nth(i).to :
      \/ fds[d] = <<"own", i>>
      \/ \E j \in Inits : j > i /\ d \in Nth(j).to

SuccessTruthful ==
  result = "child" /\ mode # "ignore" =>
    /\ ~told /\ fate \in {"ran", "killed"}
    /\ child = "running" => HasStreams

\* The end of a stream can be seen.  No program, even one whose launch failed,
\* keeps a copy of a pipe: the opposite ends, the error pipe and the numbers the
\* ends had are closed, whatever the initializers and their order.  And after a
\* launch that succeeded, or whose error went to on_error, the parent has none of
\* the ends that belong to the child.
ChildKeepsNoEnds ==
  child = "running" =>
    \A d \in Fds :
      /\ fds[d][1] \notin {"opp", "er", "ew"}
      /\ fds[d][1] = "own" /\ Nth(fds[d][2]).kind \in Pipers => d \in Nth(fds[d][2]).to
ParentKeepsNoEnds ==
  result = "child" \/ (result = "empty" /\ ec = "error") =>
    \A i \in Inits : Nth(i).kind \in Pipers => ~Held(table, <<"own", i>>)
EndsClosed == ChildKeepsNoEnds /\ ParentKeepsNoEnds

\* Closing by number never hits a file that another thread opened meanwhile,
\* unless on_error runs after on_success, which closes the same numbers again.
OthersKept ==
  [][Held(table, Other) => Held(table', Other) \/ twice]_vars

\* A launch that leaves with a child object of its own, by an exception or an
\* error, has terminated and reaped the process: always so with vfork.
HandleReaps ==
  result \in {"empty", "throw"} /\ (how = "vfork" \/ twice) => child \in {"none", "reaped"}

\* A launch leaves nothing behind: no copy of an end, and no child without a child object.
NothingLeft == EndsClosed /\ HandleReaps

\* The launch returns, however long the program runs, unless a program that another
\* thread started between pipe and fcntl keeps the write end open.
LaunchReturns == <>[](pc = "done") \/ <>[](sibling = "holds")

===============================================================================
