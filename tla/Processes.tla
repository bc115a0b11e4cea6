------------------------------ MODULE Processes ------------------------------
(***************************************************************************)
(* The processes of the system, as the queries about other processes (see  *)
(* PidQueries and ExtQueries) meet them: they fork, run another program,   *)
(* change their directory, end and are reaped between any two steps of a   *)
(* query.                                                                  *)
(***************************************************************************)
EXTENDS Integers

CONSTANTS Pids,       \* the pids there are, 1 is the first process and never ends
          Images,     \* the programs a process can run
          Dirs,       \* the directories a process can be in
          MaxEvents   \* a bound on what the processes do

VARIABLES procs,      \* the process of each pid, or nobody
          events      \* the number of events so far, it also names incarnations

nobody == [state |-> "none", born |-> 0, parent |-> 0, image |-> 0, loaded |-> 0, cwd |-> <<>>]

Exists(p)  == procs[p].state # "none"
Alive(p)   == procs[p].state = "alive"
Is(p, b)   == Exists(p) /\ procs[p].born = b          \* pid p is still incarnation b
ChildrenOf(p) == {q \in Pids : Exists(q) /\ procs[q].parent = p}

ProcessesInit ==
  /\ events = 0
  /\ \E image \in Images, i \in Images, d \in Dirs :
       procs = [p \in Pids |->
                 CASE p = 1 -> [state |-> "alive", born |-> 0, parent |-> 0, image |-> image, loaded |-> 0, cwd |-> d]
                   [] p = 2 -> [state |-> "alive", born |-> 0, parent |-> 1, image |-> i, loaded |-> 0, cwd |-> d]
                   [] OTHER -> nobody]

Becomes(p, r) == procs' = [procs EXCEPT ![p] = r]

Fork(p, q)  == /\ Alive(p) /\ ~Exists(q)
               /\ Becomes(q, [procs[p] EXCEPT !.parent = p, !.born = events + 1])
Exec(p, i)  == Alive(p) /\ Becomes(p, [procs[p] EXCEPT !.image = i, !.loaded = events + 1])
ChDir(p, d) == Alive(p) /\ Becomes(p, [procs[p] EXCEPT !.cwd = d])
\* POSIX: p is a zombie until it is reaped, and its children are adopted.
Exit(p)     == /\ Alive(p) /\ p # 1
               /\ procs' = [q \in Pids |-> IF q = p THEN [procs[p] EXCEPT !.state = "zombie"]
                                  ELSE IF q \in ChildrenOf(p) THEN [procs[q] EXCEPT !.parent = 1]
                                  ELSE procs[q]]
Reap(p)     == procs[p].state = "zombie" /\ Becomes(p, nobody)
\* Windows: p is gone at once, and its children keep its pid as their parent's.
Vanish(p)   == Alive(p) /\ p # 1 /\ Becomes(p, nobody)

ProcessStep(windows) ==
  /\ events < MaxEvents
  /\ events' = events + 1
  /\ \E p \in Pids : \/ \E q \in Pids : Fork(p, q)
                     \/ ~windows /\ (Exit(p) \/ Reap(p) \/ \E i \in Images \ {procs[p].image} : Exec(p, i))
                     \/ windows /\ Vanish(p)
                     \/ \E d \in Dirs \ {procs[p].cwd} : ChDir(p, d)
===============================================================================
