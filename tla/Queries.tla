------------------------------ MODULE Queries ------------------------------
(***************************************************************************)
(* What a query about other processes has, be it one of pid.hpp (see        *)
(* PidQueries) or of ext (see ExtQueries): the platform the library is      *)
(* compiled for, where the query stands, and what it returns.              *)
(***************************************************************************)
EXTENDS Processes, SequencesExt

VARIABLES platform,   \* what the library is compiled for
          pc,         \* where the query stands: "idle", the next step, "done" or "overrun"
          call,       \* the query: its name and its pid
          held,       \* an open file or a process found
          answer,     \* what is returned: pids or texts
          ec          \* the error_code

Platforms == {"windows", "macos", "linux", "freebsd", "dragonfly", "netbsd", "openbsd", "sun", "other"}
Bsd       == {"freebsd", "dragonfly", "netbsd", "openbsd"}

Goto(l) == pc' = l /\ UNCHANGED <<platform, call, procs, events>>
===============================================================================
