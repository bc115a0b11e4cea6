------------------------------ MODULE ByteChannel ------------------------------
(***************************************************************************)
(* What a pair of pipe streams promises: the reader gets what the writer   *)
(* put into its stream, in that order, nothing twice and nothing left out, *)
(* and sees the end only after the writer closed and everything was read.  *)
(***************************************************************************)
EXTENDS Naturals, Sequences

CONSTANT MaxPut     \* bound: the characters that are put, numbered in order

VARIABLES
  written,  \* the characters put into the stream so far
  read,     \* the characters got from the other one
  closed,   \* the writer is closed
  broken,   \* the reader went away before the end
  ended     \* the reader has seen the end

channelVars == <<written, read, closed, broken, ended>>

Init ==
  /\ written = <<>> /\ read = <<>>
  /\ closed = FALSE /\ broken = FALSE /\ ended = FALSE

Write ==
  /\ ~closed /\ Len(written) < MaxPut
  /\ written' = Append(written, Len(written) + 1)
  /\ UNCHANGED <<read, closed, broken, ended>>

Read ==
  /\ ~broken /\ Len(read) < Len(written)
  /\ read' = Append(read, written[Len(read) + 1])
  /\ UNCHANGED <<written, closed, broken, ended>>

Close ==
  /\ closed' = TRUE
  /\ UNCHANGED <<written, read, broken, ended>>

Break ==
  /\ broken' = TRUE
  /\ UNCHANGED <<written, read, closed, ended>>

End ==
  /\ closed /\ read = written
  /\ ended' = TRUE
  /\ UNCHANGED <<written, read, closed, broken>>

Next == Write \/ Read \/ Close \/ Break \/ End
Spec == Init /\ [][Next]_channelVars

===============================================================================
