------------------------------ MODULE PipeStream ------------------------------
(***************************************************************************)
(* basic_opstream and basic_ipstream on the two ends of one pipe: the put  *)
(* area of the writer's basic_pipebuf, the pipe of the kernel, and the get *)
(* area of the reader's.  The two run in different threads or processes.   *)
(* Characters are numbered in the order they are put.                      *)
(*                                                                         *)
(* The get area is the vector _read: positions 0 .. ReadSize - 1.  The     *)
(* last one is never used, as underflow reads up to &_read.back().         *)
(***************************************************************************)
EXTENDS Naturals, Sequences, SequencesExt

CONSTANTS
  MaxPut,      \* bound: characters put
  WriteSize,   \* the size of _write, BOOST_PROCESS_PIPE_SIZE
  ReadSize,    \* the size of _read, BOOST_PROCESS_PIPE_SIZE
  FirstGet,    \* where the get area starts at first: 128 in the code
  NextGet,     \* where it starts again: 10 in the code
  Capacity,    \* what the pipe of the kernel holds
  Interrupts   \* the calls in which a signal may end write(2) early

VARIABLES
  put,       \* the put area, pbase to pptr
  count,     \* characters the stream has accepted
  writer,    \* what the writer is doing: "open", in "put", "flush" or "close", or "closed"
  wrote,     \* what its write(2) has transferred so far
  pipe,      \* the characters in the pipe of the kernel
  area,      \* [0..ReadSize - 1 -> character], the vector _read
  gptr, egptr,
  reader,    \* "open", in "underflow", at the "end", or "gone"
  got        \* the characters handed out

writerVars == <<put, count, writer, wrote>>
readerVars == <<area, gptr, egptr, reader, got>>
streamVars == <<writerVars, pipe, readerVars>>

Back == ReadSize - 1

StreamInit ==
  /\ put = <<>> /\ count = 0 /\ writer = "open" /\ wrote = 0
  /\ pipe = <<>>
  /\ area = [x \in 0..Back |-> 0]
  /\ gptr = FirstGet /\ egptr = FirstGet
  /\ reader = "open" /\ got = <<>>

-------------------------------------------------------------------------------
(***************************************************************************)
(* The writer.  A character goes into the put area while there is room;    *)
(* overflow, flush and close call _write_impl, which returns at once if    *)
(* there is nothing to write.                                              *)
(***************************************************************************)
Put ==
  /\ writer = "open" /\ count < MaxPut
  /\ IF Len(put) < WriteSize
     THEN put' = Append(put, count + 1) /\ count' = count + 1 /\ UNCHANGED writer
     ELSE writer' = "put" /\ UNCHANGED <<put, count>>
  /\ UNCHANGED <<wrote, pipe, readerVars>>

Flush ==
  /\ writer = "open" /\ put # <<>>
  /\ writer' = "flush"
  /\ UNCHANGED <<put, count, wrote, pipe, readerVars>>

\* close() and the destructor.
CloseStream ==
  /\ writer = "open"
  /\ writer' = IF put = <<>> THEN "closed" ELSE "close"
  /\ UNCHANGED <<put, count, wrote, pipe, readerVars>>

Writing == writer \in {"put", "flush", "close"}

\* write(2) on a pipe transfers what there is room for, and blocks for the rest.
Transfer ==
  /\ Writing /\ wrote < Len(put) /\ Len(pipe) < Capacity /\ reader # "gone"
  /\ pipe' = Append(pipe, put[wrote + 1])
  /\ wrote' = wrote + 1
  /\ UNCHANGED <<put, count, writer, readerVars>>

(***************************************************************************)
(* _write_impl after write(2): the rest moves to the front; overflow then  *)
(* appends its character, close closes the pipe, whatever is left.         *)
(***************************************************************************)
Rest == SubSeq(put, wrote + 1, Len(put))

Written_KeepsAll ==      \* Mutant: the characters written stay in the put area.
  /\ put' = IF writer = "put" THEN Append(Tail(put), count + 1) ELSE put
  /\ count' = IF writer = "put" THEN count + 1 ELSE count
  /\ writer' = IF writer = "close" THEN "closed" ELSE "open"
  /\ wrote' = 0
  /\ UNCHANGED <<pipe, readerVars>>

Written ==
  /\ put' = IF writer = "put" THEN Append(Rest, count + 1) ELSE Rest
  /\ count' = IF writer = "put" THEN count + 1 ELSE count
  /\ writer' = IF writer = "close" THEN "closed" ELSE "open"
  /\ wrote' = 0
  /\ UNCHANGED <<pipe, readerVars>>

\* write(2) returns with everything transferred, or, interrupted by a signal, with
\* a part of it; interrupted before it transferred anything it is called again.
WriteReturns ==
  /\ Writing
  /\ \/ wrote = Len(put)
     \/ wrote > 0 /\ (writer \in Interrupts \/ reader = "gone")
  /\ Written

\* EPIPE: an exception, that the ostream takes as badbit, close passes on after
\* closing, and the destructor drops.
WriteFails ==
  /\ Writing /\ wrote = 0 /\ reader = "gone"
  /\ writer' = IF writer = "close" THEN "closed" ELSE "open"
  /\ UNCHANGED <<put, count, wrote, pipe, readerVars>>

-------------------------------------------------------------------------------
(***************************************************************************)
(* The reader.  With the get area used up it calls underflow, which reads  *)
(* behind the characters already there, or, at the end of the vector, from *)
(* NextGet on.                                                             *)
(***************************************************************************)
Get_NoReset ==     \* Mutant: the area is not started again at the end of the vector.
  /\ reader = "open"
  /\ IF gptr < egptr
     THEN got' = Append(got, area[gptr]) /\ gptr' = gptr + 1 /\ UNCHANGED reader
     ELSE reader' = "underflow" /\ UNCHANGED <<got, gptr>>
  /\ UNCHANGED <<writerVars, pipe, area, egptr>>

Get ==
  /\ reader = "open"
  /\ IF gptr < egptr
     THEN got' = Append(got, area[gptr]) /\ gptr' = gptr + 1 /\ UNCHANGED <<reader, egptr>>
     ELSE /\ reader' = "underflow"
          /\ gptr'  = IF egptr = Back THEN NextGet ELSE gptr
          /\ egptr' = IF egptr = Back THEN NextGet ELSE egptr
          /\ UNCHANGED got
  /\ UNCHANGED <<writerVars, pipe, area>>

ReadReturns ==
  LET room == Back - egptr
      n    == IF Len(pipe) < room THEN Len(pipe) ELSE room
  IN  /\ reader = "underflow" /\ pipe # <<>>
      /\ area' = [x \in 0..Back |-> IF x \in egptr..(egptr + n - 1) THEN pipe[x - egptr + 1] ELSE area[x]]
      /\ egptr' = egptr + n
      /\ pipe' = SubSeq(pipe, n + 1, Len(pipe))
      /\ reader' = "open"
      /\ UNCHANGED <<writerVars, gptr, got>>

\* read(2) returns 0: the pipe is empty and no process has the write end.
EndOfFile ==
  /\ reader = "underflow" /\ pipe = <<>> /\ writer = "closed"
  /\ reader' = "end"
  /\ UNCHANGED <<writerVars, pipe, area, gptr, egptr, got>>

ReaderCloses ==
  /\ reader = "open"
  /\ reader' = "gone"
  /\ UNCHANGED <<writerVars, pipe, area, gptr, egptr, got>>

WriterStep == Transfer \/ WriteReturns \/ WriteFails
ReaderStep == Get \/ ReadReturns \/ EndOfFile
StreamNext == Put \/ Flush \/ CloseStream \/ WriterStep \/ ReaderStep \/ ReaderCloses
StreamSpec == StreamInit /\ [][StreamNext]_streamVars

\* Calls go on, and the reader reads on while it is there.
StreamFairSpec == StreamSpec /\ WF_streamVars(WriterStep) /\ WF_streamVars(ReaderStep)

-------------------------------------------------------------------------------
\* A pair of pipe streams is a ByteChannel: characters arrive in order, once, and
\* none is missing when the end is seen, as "Flush the buffer & close the pipe" says of
\* close (basic_pipebuf: overflow, sync, close, underflow).
Channel == INSTANCE ByteChannel WITH
  written <- [x \in 1..count |-> x], read <- got, closed <- writer = "closed",
  broken <- reader = "gone", ended <- reader = "end"
IsChannel == Channel!Spec

\* After the writer closed its stream, the reader comes to the end, or leaves: no
\* write or underflow waits for ever, at any fill of the two areas and the pipe.
EndArrives == writer = "closed" ~> reader \in {"end", "gone"}

===============================================================================
