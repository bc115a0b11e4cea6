------------------------------ MODULE MCChildV1 ------------------------------
(***************************************************************************)
(* Small instances of ChildV1 for TLC.                                     *)
(***************************************************************************)
EXTENDS ChildV1, TLC

CONSTANTS a, b

\* The first object looks and ends, the second one kills and waits in time.
EachHerOwn ==
  (a :> {"running", "wait"}) @@ (b :> {"wait_until", "terminate", "detach", "destroy"})

\* Pids are only compared: which child gets which does not matter.
OnePidEach == (a :> {1}) @@ (b :> {2})

\* The first child has an on_exit handler, the second one may have.
FirstAsks == (a :> {"on_exit"}) @@ (b :> {"plain", "on_exit"})

\* The caller asks whether the child is running, nothing else.
OnlyRunning == [o \in Procs |-> {"running"}]

===============================================================================
