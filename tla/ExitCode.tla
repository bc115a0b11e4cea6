------------------------------- MODULE ExitCode -------------------------------
(***************************************************************************)
(* Native exit codes on POSIX: the wait status that waitpid(2) stores, the *)
(* still_active marker basic_process starts with, and the two functions of *)
(* exit_code.hpp every other component decides with.                       *)
(***************************************************************************)
EXTENDS Integers

(***************************************************************************)
(* The layout of a wait status (<sys/wait.h>, external): the low seven     *)
(* bits are 0 for an exit, 127 for a stop and the signal otherwise; the    *)
(* second byte holds the value passed to exit(3).                          *)
(***************************************************************************)
WIFEXITED(code)   == code % 128 = 0
WIFSIGNALED(code) == code % 128 \notin {0, 127}
WEXITSTATUS(code) == (code \div 256) % 256
WTERMSIG(code)    == code % 128

\* The status of a child that called exit(n), or died of signal s.
ExitedWith(n) == n * 256
KilledBy(s)   == s

\* A status that reads as stopped: neither exited nor signaled.  0x017f
still_active == 383

process_is_running(code) == ~WIFEXITED(code) /\ ~WIFSIGNALED(code)

evaluate_exit_code(code) ==
  IF WIFEXITED(code) THEN WEXITSTATUS(code)
  ELSE IF WIFSIGNALED(code) THEN WTERMSIG(code)
  ELSE code

===============================================================================
