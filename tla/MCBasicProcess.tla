---------------------------- MODULE MCBasicProcess ----------------------------
(* Small instances of BasicProcess: two objects and two waits. *)
EXTENDS BasicProcess

CONSTANTS o1, o2, w1, w2

BothOnFirst == [w \in Waits |-> o1]
OneEach     == [w \in Waits |-> IF w = w1 THEN o1 ELSE o2]

===============================================================================
