------------------------------ MODULE MCQueries ------------------------------
(***************************************************************************)
(* A small instance of the queries about other processes: a program uses    *)
(* either pid.hpp (PidQueries) or ext (ExtQueries).                         *)
(***************************************************************************)
EXTENDS PidQueries, ExtQueries

VARIABLE topic

\* Image 1 has an empty argument and two variables, image 2 one argument of a full chunk.
SmallDirs == {<<5>>, <<5, 6>>}
SmallArgs == [i \in Images |-> IF i = 1 THEN <<<<1>>, <<>>>> ELSE <<<<2, 2>>>>]
SmallEnv  == [i \in Images |-> IF i = 1 THEN <<<<3, 61>>, <<2>>>> ELSE <<<<61>>>>]
SmallPath == [i \in Images |-> IF i = 1 THEN <<3>> ELSE <<3, 4>>]

\* What the theorems about PidQueries and ExtQueries assume.
ASSUME QueriesAssumption == PidsNumbered /\ TextsGiven

pidOnly == <<cursor, todo, possible, certain, unread>>
extOnly == <<offset, size, buf, seen, mark>>
allVars == <<topic, procs, events, platform, pc, call, held, answer, ec, pidOnly, extOnly>>

\* The queries of pid.hpp do not look at directories: for them everybody stays in one.
InOneDir == \E d \in Dirs : \A p \in Pids : procs[p].cwd \in {d, nobody.cwd}

AllInit == \/ /\ topic = "pid" /\ Init /\ InOneDir
              /\ offset = 0 /\ size = 0 /\ buf = <<>> /\ seen = {} /\ mark = 0
           \/ /\ topic = "ext" /\ ExtInit
              /\ cursor = 0 /\ todo = <<>> /\ possible = {} /\ certain = {} /\ unread = {}

AllNext == /\ UNCHANGED topic
           /\ \/ topic = "pid" /\ Next /\ InOneDir' /\ UNCHANGED extOnly
              \/ topic = "ext" /\ ExtNext /\ UNCHANGED pidOnly

AllSpec == AllInit /\ [][AllNext]_allVars

\* What the queries return was true during the call, and the loop over another process's
\* environment ends: PidQueries' ListsTruthful and ParentTruthful, ExtQueries' AnswersTruthful
\* and LoopEnds.
QueriesTruthful == /\ topic = "pid" => ListsTruthful /\ ParentTruthful
                   /\ topic = "ext" => AnswersTruthful /\ LoopEnds
===============================================================================
