# A verification of Boost.Process in TLA+

Boost.Process starts child processes, waits for them and signals them. This
directory models the parts of the library where an error would hide: between two system
calls (who reaps a child, which wait is woken when it ends, what a launch reports
to its caller, which descriptors or handles a child gets, what another process
does while it is asked about), and in the texts that travel to a child (command
lines, environments, encodings). TLC checks the models on small instances; TLAPS
proves what matters most for all instances.
Paths below are relative to `src/`; `v2/` is `include/boost/process/v2/`, `v1/`
is `include/boost/process/v1/`.

## 1. The system

### Components, their state and their operations

| component | state | operations | what makes it correct |
|---|---|---|---|
| `basic_process` (`v2/process.hpp`) | a handle, `exit_status_` | construct, `running`, `wait`, `terminate`, `interrupt`, `request_exit`, `suspend`, `resume`, `detach`, destroy, `async_wait` | the exit code it delivers is its child's; the child is reaped once; it touches no other process |
| handles (`v2/detail/process_handle_{signal,fd,fd_or_signal}.hpp`) | `pid_`, a `signal_set` or a descriptor | the same, one system call at a time; the steps of `async_wait_op_` | no wake-up is lost, no handler blocks, cancellation ends a wait |
| exit codes (`v2/exit_code.hpp`) | none | `process_is_running`, `evaluate_exit_code` | "still active" is no code of a finished process |
| POSIX launchers (`v2/posix/*_launcher.hpp`, `src/posix/close_handles.cpp`) | `fd_whitelist`, `argv_`, the pipes of a launch | `operator()`: pipes, `on_setup`, `fork`; in the child `on_exec_setup`, `close_all`, `execve`; the read from the error pipe | success if and only if the program runs; only whitelisted descriptors are inherited; every path cleans up |
| stdio, `bind_fd`, start_dir, environment, `bind_launcher` (`v2/*.hpp`) | descriptors, strings | hooks the launcher calls | each target gets the file it was bound to |
| `async_execute`, `popen` (`v2/execute.hpp`, `v2/popen.hpp`) | a process and, for `popen`, two pipes | cancellation mapped to signals; read, write | as `basic_process` |
| environment, `cstring_ref` (`v2/environment.hpp`, `src/environment.cpp`) | the process's array of entries; objects that own a text, views of them | `get`, `set`, `unset`, `current`, `home`, `find_executable`, `process_environment`; comparison, hashing | the environment is a map; a child gets the one it was given; orders and hashes agree |
| shell, command lines, utf8 (`v2/shell.hpp`, `src/shell.cpp`, `src/windows/default_launcher.cpp`, `src/detail/utf8.cpp`) | words, a buffer, who frees them | splitting, quoting, transcoding, moves | a child gets the words its parent gave; each array is freed once |
| pid, ext (`src/pid.cpp`, `src/ext/`) | none | queries about other processes, step by step on some platforms | what they return was true, and complete |
| `sigchld_service` (`v1/detail/posix/sigchld_service.hpp`) | one `signal_set`, a list of receivers | `async_wait`, `_handle_signal`, `cancel` | each receiver is called once, with its child's status |
| `child` (`v1/detail/child_decl.hpp`) | pid, `_exit_status` shared with its receiver, `_attached`, `_terminated` | launch, `running`, `wait`, `wait_until`, `terminate`, `detach`, destroy | as `basic_process`; `on_exit` is called; the SIGCHLD handler of the process stays |
| `group` (`v1/group.hpp`) | process group, `_attached` | `wait`, `wait_for`, `terminate`, `detach` | a group's wait ends with its last member |
| executor and its initializers (`v1/detail/posix/*.hpp`) | the error pipe, the ends of pipes, `_ec` | `on_setup`, `fork` or `vfork`, `on_exec_setup`, `execve`, `on_success`, `on_error` in three error modes | as the v2 launchers; the ends of pipes are closed once |
| pipes (`v1/pipe.hpp`, `v1/detail/{posix,windows}/{basic,async}_pipe.hpp`) | buffers; handles | `pipebuf` under- and overflow; construction, copy, move, assignment | no character lost or doubled; each handle has one owner |
| environment, cmd, args of v1 (`v1/environment.hpp`, `v1/env.hpp`, `v1/detail/*basic_cmd.hpp`, `v1/locale.hpp`) | strings and an array of pointers to them; words | as in v2, and entries that refer to a name | as in v2 |
| Windows (`v2/windows/`, `v2/detail/process_handle_windows.hpp`, `v2/stdio.hpp`) | HANDLEs, their inherit flags | the `CreateProcess` launchers; the process handle and its waits | a child inherits its own handles only, each is closed once, waits end with the child's code |

### How they interact

A launcher forks, prepares the child, learns through a pipe whether `execve`
worked, and builds a `basic_process` from the pid. The object shares three
things with the rest of the program: the kernel's table of children (any
`waitpid` takes a zombie away for good), the one SIGCHLD of the process (it says
"some child ended", not which; two of them merge into one), and the descriptor
table (numbers are given out again as soon as they are closed). Waits are Asio
operations: their handlers run on whichever thread runs the `io_context`.

In v1 one `sigchld_service` per `io_context` waits for all children that have an
`on_exit` handler, with one `signal_set`, and polls each of them at every SIGCHLD.
It shares `_exit_status` with the `child` object, whose calls poll the same pid.

### What is hard

* A wait polls with `waitpid` and then queues itself; the child may end in
  between, on another thread or in the kernel.
* `running`, `wait`, `terminate`, the destructor and any number of `async_wait`s
  compete for the one status the kernel gives out.
* The signal handle cancels its whole `signal_set` to change threads, so waits
  see aborts that nobody asked for.
* In v1 the strand reaps children behind the back of the `child` object, and
  `wait_until` replaces the SIGCHLD handler that the strand depends on.
* A pid is a number the kernel reuses once the child is reaped.
* On Windows one cancellation aborts all waits on a handle, and two launches share
  the inherit flags of one handle table.
* Other processes go on between two steps of a query about them.
* `setenv` moves the array that launchers and views point to; an entry of v1 keeps
  a pointer into storage its own change replaces.
* A text is measured by one function and written by another, quoted here and taken
  apart by a program outside the library.
* Between `fork` and `execve` two processes share pipes, and so do the children
  of launches on other threads; end of file on the error pipe means success.
* Every early return of a launch must close, once, exactly what is open then.

`PROJECT.json` lists these and more under `hazards`, each at its line.

## 2. The modules

| module | models | state |
|---|---|---|
| `ExitCode` | wait statuses and `v2/exit_code.hpp` | none |
| `ChildTable` | the kernel (external): children, zombies, `waitpid`, `kill`, pids, SIGCHLD | `st`, `pid`, `status`, `pend`, `sigchld` |
| `ExitNotice` | the promise of `async_wait`, abstractly | `outcome`, `released`, `notice`, `code` |
| `BasicProcess` | `basic_process` over any of the three POSIX handles, with what Asio does for them | below |
| `ChildTableProofs` | lemmas about `ChildTable`: what a `waitpid`, a `kill`, a birth and an end leave alone | |
| `BasicProcessProofs` | proofs about `BasicProcess` | |
| `Launcher` | `default_launcher`, `pipe_fork_launcher`, `fork_and_forget_launcher`, `vfork_launcher`, with `bind_fd` and `process_stdio` | below |
| `SigchldService` | v1's `sigchld_service` with the receiver of `io_context_ref` | below |
| `ChildV1` | v1's `child`, composed with `SigchldService` and `ChildTable` | below |
| `ChildV1Proofs` | proofs about `ChildV1` and `SigchldService` | |
| `LauncherProofs` | proofs about `Launcher`, `WindowsProcess` and what `MCLauncher` says of both | |
| `V1IoProofs` | proofs about `Executor`, `PipeHandles` and `PipeStream` | |
| `Executor` | v1's POSIX executor with the initializers of its streams | below |
| `PipeStream`, `ByteChannel` | v1's `opstream` and `ipstream` on one pipe, and the channel they promise | below |
| `PipeHandles` | the owners of v1's pipe handles, on both systems | `system`, `alive`, `has`, `open`, `risks` |
| `WindowsProcess` | v2's Windows launchers with `process_stdio`, and `basic_process_handle_win` | below |
| `EnvText` | entries `key=value`, lists of values, their comparison | none |
| `Environment`, `EnvMap` | v2's environment of the process and what a launcher hands on; the map it promises | below |
| `EnvironmentV1`, `EnvMapV1` | v1's `native_environment`, `environment`, their entries and `env`; the maps they promise | below |
| `EnvValues` | v2's keys, values, pairs and their views | `object`, `calls` |
| `Quoting` | how the C runtime of Windows and `sh` take a command line apart (external) | none |
| `Commands` | v2's `build_argv_`, the Windows command line, `shell` | `launcher`, `shell`, `live`, `child`, `wanted`, `calls` |
| `CommandsV1` | v1's texts, `exe`, `args`, `shell` and `cmd` up to argv or the command line | `said`, `builder`, `child`, `wanted` |
| `Encodings` | UTF-8, wide texts and, for v1 on Windows, a code page: `conv_string` of v2, `convert` and `char_converter` of v1 | `meant`, `given`, `kind`, `texts`, `paged`, `last`, `calls` |
| `TextsProofs`, `MCTextsProofs` | proofs about `EnvValues`, `Commands` and the loop of `Environment` for any texts, and (the loop aside) for the systems that `MCTexts` puts together | |
| `Processes` | the other processes of the system (external) | `procs`, `events` |
| `Queries` | what every query has | `platform`, `pc`, `call`, `held`, `answer`, `ec` |
| `PidQueries`, `ExtQueries` | `src/pid.cpp` and `src/ext/` on nine platforms | below |
| `QueriesProofs` | proofs about `PidQueries`, `ExtQueries` and `MCQueries` | |
| `MCBasicProcess`, `MCLauncher`, `MCChildV1`, `MCV1Io`, `MCTexts`, `MCQueries` | small instances for TLC | |

`MCLauncher`, `MCV1Io`, `MCTexts` and `MCQueries` combine modules that do not
interact: a behaviour has one `topic` (or `platform`) and leaves the variables of
the others as they were. Where such a module extends two components, the second one's
operators have a prefix: `Win` in `WindowsProcess`, `Ext` in `ExtQueries`, and `All`
for the specification of both together.

### BasicProcess

`Variant` selects the handle, `Descriptor` what it holds besides the pid: nothing,
a pidfd (Linux) or the read end of the pipe of `pipe_fork_launcher`. Object `o`
launches the child `o`; `hpid[o]` is `pid_`, so a stale pid shows as one that
belongs to another child. `exit_status` is `exit_status_`, in the kernel's format.

| code | actions |
|---|---|
| constructors, with the launcher's `fork` | `LaunchFork`, `Construct` |
| `running`, `wait` | `Running`, `Wait` (both one `Poll`), then `WaitReturns` for the blocking `waitpid` |
| `terminate` | `Terminate` (the `kill`), `WaitReturns` |
| `interrupt`, `request_exit`, `suspend`, `resume` | actions of the same name |
| `~basic_process`, `terminate_if_running` | `Destroy` (the poll), `DestroyKill`, `DestroyReap` |
| `detach` with the result dropped | `Detach` |
| `async_wait` up to its first suspension | `AsyncWait`; `StartInSignalSet` for the signal handle |
| `handle.async_wait`, `descriptor.async_wait` | `Arm`: a step of its own, so that the child may end before it |
| the operation's handler, once per handle type | `Handler` (`PollBody`, `TrustDescriptor`), `UnblockHandler` |
| the cancellation slot | `CancelWait` |
| descriptor readiness, SIGCHLD, the child (external) | `DescriptorReady`, `CatchSigchld`, `DeliverSigchld`, `Child` |

An operation is `ready` (its handler is queued), `arming` (it has polled and is
about to queue itself), `armed`, `blocking` (in a `waitpid` without WNOHANG) or
`done`. Calls on one object and the handlers of its waits exclude each other
(`Usable`), which the documentation demands of the caller; different objects, the
kernel and the reactor interleave freely. `OneThread` says that the `io_context`
is run by one thread: then no SIGCHLD is handed on between a handler's poll and
its registration.

What is abstracted: a call gets a cleared `error_code`; the ESRCH of a signal
to a child that is gone is not kept; the object that `detach` returns is dropped;
SIGCHLD is pending or not, and a `signal_set` keeps up to `MaxUndelivered`
signals; the blocking `waitpid` of the `_fd` handler is not interrupted; an
object with a pending wait is not destroyed (the operation refers to its members:
undefined behaviour). `Handler` in `v2/process.hpp` would wait again if the handle
reported success without a status; `CompletionTruthful` shows that it never does.

### Launcher

Launches run on threads of one parent. `table[parent]` is its descriptor table,
`table[a]` that of launch a's child, copied by `Fork`. A descriptor refers to a
pair: `<<a, "ew">>` is the write end of the error pipe of launch a. A read from
that pipe is at end of file when no table holds the write end any more, which is
how launches on other threads come in. `p` are the descriptor numbers of the
pipes, `guard` the ends `pipe_guard` has still to close; closing is by number.
`whitelist` is `fd_whitelist` of the launcher object, `kept` its copy in the
child, which `close_all_fds` resets (after `vfork` it is the same vector).

| code (`v2/posix/default_launcher.hpp` and the others) | actions |
|---|---|
| the call | `Launch` |
| `pipe`, `fcntl(FD_CLOEXEC)`, twice in `pipe_fork_launcher` | `OpenErrorPipe`, `FlagErrorPipe`, `OpenWaitPipe`, `FlagWaitPipe` |
| `on_setup` of all initializers, the pushes to the whitelist | `Setup` |
| `fork`, `vfork`, `close(p[0])` in the child | `Fork` |
| `on_exec_setup`: one `dup2` per binding; any initializer's error | `Dup2`, `ExecSetupFails` |
| `close_all_fds`, `execve` | `CloseAll`, `Exec` |
| `write(&errno)`, `exit` | `ChildFails` (part of the step that fails), `ChildExits` |
| `close(p[1])`, the read loop, what follows it | `CloseWriteEnds`, `ReadErrno`, `VforkReturns`, `ReapFailed` |
| `~pipe_guard` and return | `Return`, part of the last step of every path |
| another thread opens a file (external) | `UserOpens` |

What is abstracted: `fcntl` does not fail; reads interrupted by EINTR are
repeated and so not shown; an errno is 0 or not; what the hooks `on_error`,
`on_success` and `on_fork_error` do; `close_all` as a set difference (how it walks
the ranges is planned); after success the process and its wait pipe belong to
`BasicProcess`, which takes a successful launch as one `LaunchFork`.

### SigchldService and ChildV1

Object `o` launches the child `o`, with an `on_exit` handler or without, so a
receiver is named by its child. `request[o]` says how far the handler is:
`initiating` (polled alive, not yet in the list), `posted` (found dead by the
launch), `waiting`, `found` (found dead by the loop), `inside`, `over`.
`exit_status` is the atomic the object shares with the receiver; `result[o]` is
the local `exit_code` of a running call, between its `waitpid` and its store.

| code | actions |
|---|---|
| `executor::invoke`, the constructor | `LaunchFork`, `Construct` |
| `io_context_ref::on_success`, `initiate_async_wait_op` | `OnSuccess`: `Initiate` (the `waitpid`), `Register` (the list, `ArmSet`) |
| `_handle_signal` | `HandleSignal`, one `PollReceiver` for each entry, `FinishLoop` (erase, arm again) |
| the receiver, the user's handler | `CallReceiver` (store, call), `HandlerReturns` |
| `running`, `terminate`, `~child` | `Running`, `Terminate`, `Destroy`, then `Poll`, `Check`, `Store`, `KillChild`, `ReapKilled` |
| `wait`, `detach` | `Wait`, `WaitReturns`, `Store`; `Detach` |
| `wait_for`, `wait_until` | `WaitUntil` (the interceptor), `Wake` (`sigtimedwait`), `Look` (`waitpid`, the clock, `~signal_interceptor_t`), `Store` |
| delivery of SIGCHLD, `handler_func` (external but for the latter) | `CatchSigchld`, `DeliverSigchld` |

A handler may launch a child: then `OnSuccess` runs inside the loop, which visits
the new entry too. `eaten` is a history variable: some SIGCHLD did not get to
Asio, because `sigtimedwait` took it (`wait_until` then hands Asio's handler the
result of `waitpid` in place of the signal) or another thread caught it
(`sigchld_handler` is `thread_local`).

What is abstracted: the list is a set; the `signal_set` exists from the start;
launches and the loop exclude each other except inside a handler, which the
program has to see to, the code does not; calls on one object exclude each other;
`kill` and `waitpid` are never refused; an EINTR that only repeats a call is not
shown. Not modelled: `cancel`, `shutdown` and the error branch of
`_handle_signal`, `child(pid)`, moves, `wait_until` without `sigtimedwait`.

### Executor

One call of `executor::invoke` with a sequence of initializers, in the three error
modes and with `fork` or `vfork`. `table` and `fds` are the descriptor tables of
parent and child; what a descriptor refers to is a pair such as `<<"own", 2>>`, the
end that initializer 2 hands to the child. `own` and `opp` are the numbers the
initializers remember, so that closing one twice closes what has that number then.

| code (`v1/detail/posix/executor.hpp` and the initializers) | actions |
|---|---|
| `pipe`, `fcntl` of the error pipe | `OpenPipe`, `SetCloexec` |
| `on_setup` of each initializer | `OnSetup` (the asynchronous buffers open their pipe, `limit_handles_` collects `used`), `SetUp` |
| `fork`, `vfork`; the child's `on_exec_setup`, `execve`, `_exit` | `Fork`, `ForkFails`; `OnExecSetup`, `Exec`, `ExecFails`, `Exit` |
| `close`, `_read_error`, `waitpid(WNOHANG)` | `CloseSink`, `ReadError`, `Reap` |
| the parent after `vfork` | `Resume`, `CheckError` |
| `on_success`, `on_error`; throw or return | `OnSuccess`, `Succeeded`, `OnError`, `Failed`, `Leave` |
| another thread opens a file and starts a program (external) | `OtherOpens`, `SiblingStarts`, `SiblingEnds` |

The standard streams are open when the launch begins. What fails by design of the
code is named in the properties: in ignore mode nobody learns of an error, and
`limit_handles` closes the pipe of an `async_out_future` in the child before it is
bound, so such a launch reports an error. In the other order, with the future before
`limit_handles`, the stream is bound first and closed then: the launch succeeds, and the
program runs without it, because `async_out_future` does not derive from
`uses_handles`. No plan of the run has that order. `close_out` is no `uses_handles`
either, in contrast to `close_in` and `close_fd` (`CloseFd`): behind `limit_handles` it
finds its descriptor closed, `close` fails with EBADF, and the launch reports that.
`limit_handles` itself fails where `opendir` finds no number or `close` is refused; both
go through the executor's error pipe like the failure of any initializer.

### PipeStream and PipeHandles

`PipeStream` numbers the characters in the order they are put; `put` is the put
area, `pipe` the kernel's pipe of limited capacity, `area`, `gptr` and `egptr` the
get area. `Put` is `overflow`, `Flush` `sync`, `Rest` and `WriteReturns` the loop of
partial writes in `_write_impl`, `Get` `underflow` with its two buffer resets.
`ByteChannel` knows only what was written and read; `IsChannel` is the refinement.
Characters are narrow, and nobody puts one back.

In `PipeHandles` an object `has` a source and a sink, `open` are the handles in use;
each constructor, assignment, conversion, `close`, `release` and the destructor is
an action. Nothing is claimed once the code itself has made two objects share a
handle (`risks`: the copies of `async_pipe` on POSIX, self-assignment).

### WindowsProcess

`handle` is the handle table of the program with the inherit flags, `stage` where a
launch is (`WinLaunches`, with `WinInit`, `WinNext`, `WinSpec`): `Bind` (the
constructors of `process_io_binding`), `OnSetup`,
`set_handle_list`, one action for each of the four `CreateProcess` functions,
`Success` and `Unbind` (`handle_closer`). Pids are taken while the process runs or a
handle to it is open, which is why an open object's pid stays its own. A file handle
may be bound by several launches; `WindowsAssumption` says that files have handles of
their own and that no file has the name of a child, a matter of the model's names.

The calls `running`, `wait_`, `terminate`, `by_pid` (`interrupt`, `request_exit`),
`detach`, `destroy`, `move` and `attach` are made one after another, `Waited` ends
the blocking ones. `async_wait` puts an operation of `basic_process` around one of
the handle; `Cancel` aborts all of them, and `HandlerAborted` waits again for those
nobody cancelled. Objects stay where they are while a wait is pending, no call is
made during a launch, and a launcher is used once. A wait remembers the child that
its object had when it began (`of`) and what its handle was (`held`), so that
`WaitsTruthful` can say whose code it may bring, and which waits may end with which
error: a cancelled one, one begun without a handle, one on a handle opened by a pid.
`suspend` and `resume` are left out.

### Environment and EnvironmentV1

`Environment`: `block` holds the arrays of entries there have been, `environ` says
which is the C library's, `env` is what a `default_launcher` took when it was made
(`NewLauncher`); `setenv` into a full array moves it. `set`, `unset_key`, `get`,
`list`, `home`, `find_executable`, the loop over `current()` (`begin`, `dereference`,
`next`, `finish`) and the launches with and without `process_environment` are
actions. `EnvMap` is a function from keys to values, and `IsMap` says that each
action gives the answer, or the child the environment, that the map gives.

`EnvironmentV1`: `store` has for each object its strings and its array, `entry` is
what `operator[]` returned last, with a pointer (`shown`) that may dangle. The three
variants are POSIX with narrow characters (the array is `environ` itself), POSIX with
wide ones, and Windows (copies that `reload` reads again). Texts are as the loops and
queries take them apart: `EnvMapV1` states with the code that a variable whose value
is empty is visited, but not found. Names come in one spelling, each entry has its
'=', the Windows environment is not empty, dangling entries are not used.

### EnvValues, Commands, CommandsV1, Encodings, Quoting

In `EnvValues` an object owns a text or is a view of another one's; a view whose base
changes is dropped. `OrderCoherent` compares all six families of comparison operators
with each other and with the hash. Where the hash differs by design of the code it is
excepted: `hash_value` reads on to the NUL, so the view of a pair's key has the pair's
hash, and a pair is hashed with the case of its key and with its '=', which on Windows
and after a `clear` make equal pairs differ (see the hazards).

`Commands` and `CommandsV1` build what a child gets word for word (character by
character, for the words are quoted and escaped) and take it apart again with
`Quoting`, the rules of the programs outside. `wanted` is what the caller gave;
`Expressible` in each module excludes the words that the code's quoting cannot
carry, which the hazards list: a backslash before a quote or at the end on Windows,
tabs, and in v1 a quote in a word of a command line that `build_args` cuts apart.
`build_cmd` (`CmdStep`) goes character by character as the code does: a space where a word
would begin is part of it. A part that is one lone quote makes `build_args` assign from a
reversed range, which is undefined; `Reversed` keeps such lines out. `Commands!shell` has a buffer, the words and a deleter;
`live` are the arrays not freed yet, `Moved` is the move constructor with strings
short enough to live in the object (`SsoLen`).

In `Encodings` a narrow text is a sequence of octets and a wide one of code points,
whose UTF-16 units are counted where Windows counts them (`Units`). Version 1 on Windows
converts through a code page, CP_ACP or CP_OEMCP, here `Page`, which has not every
character: `InPage` puts a question mark for one that it lacks, as `WideCharToMultiByte`
does without the flag that would report it. Version 1 on POSIX goes through the
`codecvt` of the locale, taken to be a UTF-8 one. `meant` is the text the program had in mind,
`texts` what memory holds. Each conversion measures, then converts: `TextKept` says
that the text survives, or that an error is thrown; with one exception, which nothing
reports: what the code page lacks (`Shown`).

### PidQueries and ExtQueries

`procs` gives for each pid its parent, the program it runs, its directory, and when it
was born and loaded; `Fork`, `Exec`, `ChDir`, `Exit`, `Reap` (and `Vanish` on
Windows) happen between any two steps. Where a platform hands out one snapshot a query
is one action, elsewhere one per system call: `ReadDir`, `OpenStat`, `ReadStat` (Linux),
`CountPids`, `ListPids` (macOS), `NextProc`, `ReadKernel` (Solaris), `LinuxRead` (one
chunk of `/proc`), `AskLength` and `AskText` (the BSDs), `ReadParams` and its readers
(Windows). `possible`, `certain` and `seen` remember the right answers during the call,
`seen` with the program that ran then. `Walk` is the caller's loop over an `env_view`.
The order in which the kernel lists processes is none of the library's (`Listing`), and
the queries of `pid.cpp` do not look at directories (`InOneDir` in `MCQueries`).

The code has flaws here that no documentation contradicts; `ListsTruthful` and
`LoopEnds` name them as exceptions, and none of them is reported to the caller:

* On Linux the parent is the fourth word of `/proc/<pid>/stat`. A space in the name of
  the program moves the words, so the answer is 0 or a number from the name
  (`FourthWord`, `Spaced`, `NameWords`), and `child_pids` takes the process for a child
  of that number.
* On macOS a list that fills the room made for it (`Filled`) may have been cut short.
* A parent that cannot be read, for want of a descriptor or a snapshot, leaves its
  child out of `child_pids`, which goes on (`unread`).
* On Linux an empty command line (a kernel thread, a zombie) makes `cmd` look at the
  last character of an empty buffer (`LinuxCmdEmpty`, `pc = "overrun"`).

`KvmFails` is `kvm_openfiles` (or Solaris' `kvm_open`) failing; `ModuleFileName` is `exe`
of the asking process itself on Windows, which needs no handle.

## 3. The runs

Every passing run fires the actions named above; each property has a mutant of
the code (an operator next to the original, marked "Mutant") that breaks it.

| run | instance | shows |
|---|---|---|
| `handle_signal` | signal handle, two objects, two waits on the first, one thread, `terminate`, `detach`, cancellation | codes are truthful, no wake-up is lost, aborts meant for others do not surface (`KeepsPromise`), every wait ends once its child has |
| `handle_pidfd` | `_fd` handle on a pidfd, several threads, polling, killing, destroying | the handler finds a zombie and does not block, ECHILD is never reported, the destructor leaves nothing, cancellation ends a wait |
| `handle_pipe` | `_fd` handle on the pipe of `pipe_fork_launcher`, all signals | `terminate` and the destructor return although the handler may block, also when the child was suspended |
| `pid_reuse` | `_fd_or_signal` without a descriptor, one pid for two children | `running`, `wait` and `async_wait` ask only while the status is unknown, so a reused pid does no harm to them |
| `launch` | POSIX: two launches on two launchers of all types, nine descriptors, three of them open, another file opened meanwhile. Windows: two launches with streams (default and as_user), two without that may be given the same pid (with_token, with_logon), one process with four calls and two waits, two processes with two calls, moves between their objects and two waits | a launch tells its caller what it did (`LaunchesTruthful`), the child inherits what it was given and nothing else, every way out closes what the launch opened and no other file, launches return, waits end and tell the child's exit code |
| `v1_child` | two children, the first with `on_exit`, `running` and `wait`, the second with or without, with `wait_until`, `terminate`, `detach` and the destructor | no end is lost between a poll and the next wait (`NoLostExit`, `OnExitCalled`), each handler is called once with its child's code (`KeepsPromise`), a status held is the child's (`LoneStatusTruthful`), calls return and leave the SIGCHLD handler and no zombie behind |
| `v1_io` | a launch with nineteen pairs of initializers, in three error modes, with `fork` and `vfork`; a pair of pipe streams; four pipe objects on POSIX and Windows | a child object stands for a program that has its streams, no end and no child stays behind, no other file is closed, launches return; characters arrive once, in order and up to the end; each handle has one owner |
| `texts` | thirteen topics: environments (v2 on two systems, v1 on three), environment values, commands of v1 and v2, encodings, each on two systems | environments are maps for every query and every child, a loop visits each key, orders and hashes agree, words and texts arrive as they were given (but for what the code page of v1 on Windows lacks), arrays of words are freed once |
| `queries` | nine platforms, three pids, three events during a query | lists, parents, command lines, directories and programs were true, and complete where there is no error, with the exceptions of section 2 |
| `lost_wakeup` | as `handle_signal`, several threads | violation: the second wait never ends |
| `cmd_argv` | `ext::cmd` on Linux | violation: the loop overwrites the null pointer that ends argv |
| `entry_append` | v1's environments | violation: the second `+=` on an entry starts from the value before the first one |

The violations are disagreements of the code with its documentation, quoted under
`findings` in `PROJECT.json`. Other flaws were met while modelling and are kept out
of the passing runs by the named conditions below; each is a hazard in
`PROJECT.json` at its line. Among them: the stale `pid_` of a
reaped child which `terminate` and `interrupt` still use (`process_handle_fd.hpp:227`); the
destructor's `waitpid` that is not retried when SIGCHLD interrupts it
(`process_handle_signal.hpp:132`); an `on_exec_setup` that fails with errno 0
(`default_launcher.hpp:386`); the whitelist of a launcher used twice
(`default_launcher.hpp:430`); v1's `running()` storing 0 when the strand reaped the
child (`child_decl.hpp:158`); and the comment "if an error occurred we need to reap
the child process" at v1's `executor.hpp:452`, above a `waitpid` whose WNOHANG does not
wait for a child that is still running; and the output future before `limit_handles`,
which loses its stream (`async_out.hpp`).

Deadlock is not checked: when all callers are content the system rests.

### Bounds and why they suffice

* Two objects: one that is looked at and one whose child makes noise (its SIGCHLD)
  or takes over a pid. Two waits: an operation and the sibling that aborts it or
  takes its signal; with `BothOnFirst` they share an object, with `OneEach` not.
* Pids: two, or one for both children where reuse matters.
* One exit code besides death by a signal: codes are compared, never computed with.
  On Windows 0 and 259, which is `still_active` itself.
* `MaxUndelivered = 1`: one kept signal is enough to wake the next wait.
* `Calls`: the member functions the callers use in a run. Each run takes those its
  question is about; together the runs take all of them.
* `v1_child` splits the calls: the first object's do not touch SIGCHLD, the second
  one's do; the strand serves both. `Kinds` has the second child with and without
  a handler. `MaxKept = 2` signals are kept, one for each child. `OneTimedWait`:
  calls of `wait_until` do not overlap; if they do, each saves the other's
  interceptor and `DispositionRestored` fails (see the hazards).
* `launch`, POSIX: descriptors 0..8; three are open at first and two launches need up
  to six more, so that with another file opened the limit is hit at each pipe. The one
  standard descriptor 0 stands for the three. Bindings: none, or one standard
  descriptor bound to an open file and one passed on as itself. The excluded ones (a
  target with the number of the error pipe, a source that an earlier `dup2` replaced,
  a close-on-exec descriptor bound to itself) break `LaunchTruthful`; they are listed
  as hazards.
* `launch`, Windows: six handles, two of them files, so that two launches with pipes
  meet the end of the table; one pid where reuse matters; `MaxCalls` 2 or 4 calls. Two
  objects (`windows objects`) have a child each and a move between them, so that a call
  or a wait could get the code of the other's child.
  Both launches may bind one file: the first to end then takes back the inherit flag
  under the other, whose `CreateProcess` fails or, if it began later, leaves the file
  inheritable, which `HandlesOwned` excepts (see the hazards).
* `v1_io`: `MaxFd = 8` gives two initializers and the error pipe their places and lets
  each `pipe` fail; the plans have each kind of stream, both orders with
  `limit_handles`, and a failing handler in each phase. Buffers of 2 characters to
  write and 5 to read, a pipe that holds 2, 7 characters: each area is full, partly
  full and empty at its boundaries, and is reset twice. `MaxOpen = 4`: four objects run
  out of handles.
* `texts`: texts of up to five characters, chosen for what the code looks at: '=', the
  delimiter, quotes, spaces, backslashes, case, empty ones, a name that is the beginning of
  another, an octet sequence of each length and each way to cut it short. `MaxBlocks = 4`
  arrays, `MaxCalls = 3` calls (2 for wide v1 environments, 4 for values, v2 commands and
  encodings), `MaxInits = 3` words of a v1 command: enough for a call whose effect a
  second one meets and a third one shows. Queries come last in a behaviour of an
  environment, as they change nothing.
* `queries`: three pids and three events let a parent change, a pid be reused and a
  program be replaced within one query; chunks of 3 octets have an argument end inside
  and at the end of a chunk. Arguments have no octet 0xFF, which the code takes for its
  end mark; Windows handles do not run out; a pid that kvm does not find gives ESRCH;
  macOS is compiled with PROC_PPID_ONLY.

### Fairness

`FairSpec` of `BasicProcess`: a thread between two system calls takes the next
one, the `io_context` is being run, the kernel delivers SIGKILL and SIGCHLD, the
reactor hands them on. No caller has to call anything and no child has to exit
unless it was killed. `FairSpec` of `Launcher`: each launching thread runs, and
so does a child up to its `execve` or its exit; a program that runs need not exit.
`FairSpec` of `ChildV1`: as for `BasicProcess`; moreover an `on_exit` handler
returns, the strand goes on, and the time of a `wait_until` runs out.
`Executor`: the launching thread and its child run, as in `Launcher`; the program
another thread started need not end unless it kept the write end of the error pipe
(`LaunchReturns` says so). `PipeStream`: the two threads make the system calls they
are in; nobody has to put, get or close. `WindowsProcess`: launching threads run, a
wait on the handle of an ended process returns, and the `io_context` is run, which
takes each queued handler in turn.

## 4. The proofs

Each theorem is for all values of the constants that satisfy the modules' named
assumptions (`BasicProcessAssumption`, `LauncherAssumption`, ...) and its own
hypotheses. The constants of the runs satisfy them, so none is empty.

| module | theorems (each ends in `Holds`, but for types) | hypotheses |
|---|---|---|
| `BasicProcessProofs` | `TypeCorrect` | |
| | `OnlyOwnChild`, `ExitStatusTruthful`, `CompletionTruthful`, `ChildIsFound`, `KeepsPromise` | `AskingOnly`: `PidReuse => Calls \subseteq Asking` |
| | `NoLostWakeup` | and `OneThread` |
| | `HandlerNeverBlocks` | and `Variant = "fd" => Descriptor = "pidfd"` |
| | `DestroyReaps` | `~PidReuse` and `Variant = "fd"` |
| `ChildV1Proofs` | `V1TypeCorrect` | |
| | `NoLostExit`, `LoneStatusTruthful`, `DestroyReaps`, `KeepsPromise` | `~PidReuse` |
| | `DispositionRestored` | `OneTimedWait` |
| `LauncherProofs` | `TypeCorrect`, `NoLeak`, `NoZombie`, `UserFilesStay` | |
| | `OnlyWhitelisted` | `OwnLauncher` |
| | `LaunchTruthful` | `BindingsApart`, `ErrnoSet` |
| | `WinTypeCorrect`, `WaitsTruthful` (Windows), `NothingLeft` (both systems) | |
| | `InheritsOnlyGiven` (both systems) | `OwnLauncher` |
| | `LaunchesTruthful` (both systems) | `BindingsApart`, `ErrnoSet` |
| | `AllIsBoth`: a behaviour of the run is one of `Spec` and one of `WinSpec` | |
| `V1IoProofs` | `TypeCorrect`, `OthersKept`, `NothingLeft` | `Posix` |
| | `SuccessTruthful` | and `FuturesLast` |
| | `OneOwner` | `MaxOpen \in Nat` |
| | `AreasFit`, `IsChannel` | `Sizes`, `Uninterrupted` |
| `QueriesProofs` | `ListsTruthful`, `ParentTruthful` | `PidsNumbered` |
| | `AnswersTruthful` (with `LoopEnds`) | `TextsGiven` |
| | `QueriesTruthful` (both) | `PidsNumbered`, `TextsGiven` |
| `TextsProofs`, `MCTextsProofs` | `ArraysOwned` | `NoneIsNoObject` |
| | `OrderCoherent` | `TextsGiven` |
| `TextsProofs` only | `VisitsEachKey` | `EnvGiven` |

Every module goes the same way: an inductive invariant, one lemma per action that
it is kept, and the theorems from it. Frame lemmas (`...Frame`, `...Step`) serve the
actions that leave what a part speaks of alone.

### BasicProcess

None of the properties is inductive: that a handler does not reap another's child
needs that the pid it copied is its object's, that this pid names one child, and that
the child has not been reaped while the status is unknown. `IInv` adds these:

* `KernelSane`, `HeldPidsDiffer`: what the kernel keeps consistent; of the children that
  hold a pid, running or not yet reaped, no two hold the same. Without reuse `PidsDistinct`
  says so of all children.
* `Ownership(o)`: an open object holds its child's pid, and its child has been
  reaped exactly if its status is final; between two system calls of the
  destructor or of `terminate` the child is still there.
* `Operation(w)`: an operation under way holds the pid of its object, or none once
  the object was detached; one that completed without error has the child's code.
* `OneBlocks`: at most one operation per object is blocked in its handler.

`AskingOnly` leaves the kernel free to hand out the pid of a reaped child again, if the
callers then make only the calls that look at `exit_status_` first: `running`, `wait`,
`detach`, `async_wait` and its cancellation. They ask the kernel only while the status is
unknown; by `Ownership` the child has then not been reaped, so it still holds its pid and
by `HeldPidsDiffer` is the only one that does. The hypothesis is needed: `pid_` is kept
after the child was reaped, and `terminate` and `interrupt` go by it, so they reach whoever
has the pid then. The run `pid_reuse` checks the case with reuse, the other runs of
`BasicProcess` that without.

The other theorems add one invariant each on top of `IInv`:

* `Coming` for `NoLostWakeup`: while an operation is about to wait or waits for the
  signal and its child is dead, a SIGCHLD is pending or in Asio's pipe. It takes one
  thread: with several, the signal may come between one handler's poll and its
  `async_wait` and go to the sibling that is queued, which the run `lost_wakeup` shows.
* `Unblocked` for `HandlerNeverBlocks`: an operation woken without error has a dead
  child, and none blocks. It takes a descriptor that becomes ready with the end of the
  child; the close-on-exec pipe of `pipe_fork_launcher` is ready at its `execve`.
* `Quiet` for `DestroyReaps`: without a `signal_set` no SIGCHLD is caught, so the
  `waitpid` of the destructor is not interrupted. The signal handles need the
  exception, see the hazard at `process_handle_signal.hpp:132`.
* `Promise` for `KeepsPromise`: under it each step is a step of `ExitNotice` on the
  refinement mapping or changes none of its variables. Delivery happens in steps of
  their own: the error that an operation will deliver has a reason that lasts.

`ChildTableProofs` has what both families of proofs say of the kernel: under
`KernelSane` and `HeldPidsDiffer`, for a child that has not been reaped (or under
`PidsDistinct`), the answer of `waitpid` for a pid speaks of the
child that was given it (`OwnAnswer`, `OwnReap`), and the steps of one child leave
the others' lives alone (`LifeFrame`).

### ChildV1

`V1TypeCorrect` needs that the destructor of `signal_interceptor` finds a saved
handler. For any number of children, callers and kept signals:

* `NoLostExitHolds` and `LoneStatusTruthfulHolds`. `IInv` adds `Serving` (the list is
  not empty exactly while the `signal_set` is armed, a run is queued or the loop is in
  progress, and it is only one of these), `Noticed(o)` (the end of a child that a
  handler has polled alive is on its way, also before the handler is in the list),
  `Launched(o)` (an object that calls has a child) and `Alone(o)` (an object without a
  handler reaps its child once, and knows it: between its `waitpid` and its store the
  local `exit_code` is the child's status).
* `DestroyReapsHolds` and `KeepsPromiseHolds`, by the invariant `Promise`: `Settled(o)`
  (whoever has a status to report has no child any more, whether the strand or a call
  took it), `Reported(o)` (what a handler was told is the status of its ended child, or
  the -1 of an error) and `Listed` (who is in the list of receivers, and when).
* `DispositionRestoredHolds`, by `Intercepted`: the one call under way has saved
  Asio's handler. `OneTimedWait` is needed, see the bounds.

### Launcher

The model needs `UserFiles \cap Ends = {}` in `LauncherAssumption`: no file of the
program has the name of an end of a launch's pipe, a matter of the model's names.

* `IInv`: `Stage` (what a launch's place says of its child), `GuardStage` (which ends
  its guards hold there), `HeldEnds` (what a guard holds is open, and is that end) and
  `OwnedEnds` (an end open in the parent is held by its guard, or was given to the
  process of a `pipe_fork_launcher`). With them every `close` by number hits the
  launch's own end, though other threads take and free numbers meanwhile; `NoLeak`,
  `NoZombie` and `UserFilesStay` follow.
* `Given(a)` for `OnlyWhitelisted`: what `close_all` keeps is a standard descriptor, a
  target or flagged close-on-exec. The whitelist of a launcher outlives the launch, so
  the theorem takes a launcher for each launch (`OwnLauncher`), as `process(...)` has,
  which default-constructs one.
* `TInv` for `LaunchTruthful`: `Exclusive` (a launcher has one launch at a time),
  `OpenedStay`, and `Truthful(a)`: the bindings applied so far hold in the child and
  those to come still find their file, the child can tell its error (the write end is
  its own and is not closed by `close_all`), and what was told agrees with what became
  of the child. `BindingsApart` says that no binding overwrites what another needs and
  that bindings speak of descriptors that are open: `bind_fd` applies them in turn, and
  a target that is free in the parent may be the number of the launch's own error pipe.
  `ErrnoSet` says that an initializer that fails leaves an errno: the launchers tell a
  failure by errno alone (`default_launcher.hpp:386`).

### Windows

The theorems of the run `launch` speak of both systems: their Windows half follows from
`WInv`, for any number of launches, streams, files and handles. Its parts say, for each
place of a launch and of a call, what the handle table holds:

* `HandleOk`, `HolderOk`, `MakingOk`: who has to close a handle that is open. An object's
  handle is open, is of its own child, with its pid, and no two objects share one; a
  launch between `CreateProcess` and building its process holds the open handles of its
  own child, shared with no object. With them nothing is left and nothing is closed twice.
* `CreationOk`, `BindingOk`, `FileOk`, `InheritsGiven`: the program's files stay open, and
  who has set an inherit flag and will take it back, so that a child is given its own.
* `StatusOk`, `WaitOk`: a status that is known is the code of the object's own child, which
  has ended, also after a move; a wait goes back to the child its object had when it
  began, a completed one has that child's code, and an error only for one of the three
  reasons.

### Executor

The theorems are about any sequence of initializers, in any number and order (also
two that bind one descriptor), any error mode and `fork` or `vfork`. `Posix` only says
what the constants are: modes, forks and initializers of the code, and the standard
streams among the descriptors.

* `IInv`: `Stage` and `Process` (places, child object and child), `Owned` (each end
  open in the parent is its initializer's, which has it until `on_success` or
  `on_error`), `BeforeFork`, `GivenUp` (an end closed or handed over is closed for
  good), `Sparing` (the numbers `limit_handles` spares contain every target and the
  error pipe) and `ChildEnds` (what the child holds between two calls of
  `on_exec_setup`, and that it can still tell an error).
* `NothingLeft` and `OthersKept` follow. In `OthersKept` the case that `on_error` runs
  after `on_success` is excepted, where the code closes numbers twice.
* `Streams` for `SuccessTruthful`: while no error was reported, each target of an
  initializer that has run holds its stream, or a later initializer has taken it.
  `FuturesLast` excludes the future before `limit_handles`, described in section 2.

### Pipes

`OneOwner` with the types is inductive; `IInv` has its two halves as `Apart` and
`Complete`. For the streams the characters are numbered, and
`Numbered` says that what was got, the get area, the pipe and the unwritten part of the
put area are consecutive: from it each step of the streams is one of `ByteChannel`
or changes none of its variables (`IsChannelHolds`). `Sizes` says that the areas hold a
character and that the get area begins inside the vector, as the constructor has it.
`Uninterrupted` is needed: `close` and the destructor write once, so what a signal cuts
off is lost.

### Queries

Both invariants speak of a query between any two steps of other processes, which may
fork, exec, change their directory, end and be reaped.

* `QueryInv` (`pid.cpp`): `HistoryOk` (what is certain is true now, and what is true now
  is possible), `WalkOk` (a walk has passed every certain process up to its cursor),
  `NextOk` (`child_pids` has each certain child still before it, in its answer, or could
  not read it), `ReadOk` (an open `stat` file is that of the process at hand; if the pid
  is another's by now, it was free at some moment of the call) and `ListOk` (what macOS
  counted). `PidsNumbered`: pids are positive and finitely many.
* `ExtInv` (`ext`) speaks of the calls during which one answer was right, and only one
  program ran: `ExtReadOk` (what has been read of `/proc` is the beginning of that
  answer's bytes), `SplitOk` (all of them, once a read is short), `ExtWalkOk` (the loop
  over the environment has passed the first k texts and stands behind the NUL of the
  k-th), `CwdOk` and `DoneOk`. That the parser gives back the texts it was made from is
  `CommandLineParsed`: texts laid one behind the other, each with its NUL (`Laid`), have
  their n-th NUL where the n-th text ends. `TextsGiven`: no text contains NUL, nor the octet
  0xFF, which the code takes for its end mark; of a process whose command line or
  environment has one the theorem says nothing.

### Texts

`ArraysOwned` needs `ShellInv`: the arrays of `wordexp` are numbered by the call that
allocated them, and each that is not freed is in one object only. `OrderCoherent` needs
that each object holds texts of its kind (`ObjectsFit`); that the comparisons are total
orders follows from the order of character codes, by the least position at which two
texts differ. Folds are handled by their least counterexample. `TextsGiven` of
`TextsProofs` says that characters are texts themselves, that the texts given to the
program are made of the characters `Chars`, and that `none` is no object; `ArraysOwned`
needs only the last (`NoneIsNoObject`). `TextsProofs` holds for any texts,
`MCTextsProofs` shows that the operators of the run `texts` are those on each system.

`VisitsEachKey` needs `Visited` of the loop: what was seen so far are the keys of the array's
entries before its position, and while no key comes or goes in the body the array stays the
one the iterator walks, entry for entry with the same keys. That a change of a value keeps
the keys takes facts about texts and the least '=' in them. `EnvGiven` says that keys,
values and lists are texts, and that there is an array. It is proved of `Environment`, and
not carried over to the specification that `MCTexts` puts together.

### Only model-checked

* Liveness (`ENABLED` and fairness are out of the prover's reach): `WaitCompletes`,
  `CancelCompletes`, `KillingReturns`, `CallsReturn`, `OnExitCalled`, `LaunchesReturn`,
  `InvokeReturns`, `EndArrives`, `WaitsEnd`.
* `TextsKept` and `IsMap`: their operators fold and parse sequences,
  recursion over data that the prover cannot follow; the checked instances are their
  bounded inputs.
* `AppendKeeps` and `ArgvTerminated` belong to violation runs: they do not hold.

## 5. Not modelled, and the plan

Not modelled: `group` of v1 and its waits; the Windows side of v1's processes (its
executor, jobs, `child_handle`); `async_pipe` as an Asio stream; `pdfork_launcher`,
`start_dir`, `bind_launcher`, `async_execute` and `popen` of v2, which add a call or a
callback to what is modelled; error categories; template dispatch
(`v1/detail/traits`); `cmd.exe`, whose quoting is not the C runtime's.

The order for the rest:

1. `group` of v1 and its waits over `ChildTable`; `async_execute` and `popen` over
   `BasicProcess`; `pdfork_launcher` as a kind of `Launcher`.
2. `close_all` over ranges against the set difference; ownership of descriptors by the
   stdio initializers of POSIX.
3. Proofs: that the environments are maps (`IsMap`), and that quoting and taking apart
   give back the words, once induction over sequences is within the prover's reach.
