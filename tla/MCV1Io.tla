-------------------------------- MODULE MCV1Io --------------------------------
(***************************************************************************)
(* A small instance of the streams of version 1: a launch with at most two *)
(* initializers (Executor), a pair of pipe streams (PipeStream), or the    *)
(* objects that own the handles of pipes (PipeHandles).                    *)
(***************************************************************************)
EXTENDS Executor, PipeStream, PipeHandles

VARIABLE topic

launchVars == vars
allVars    == <<topic, launchVars, streamVars, handleVars>>

On(kind, to)   == [kind |-> kind, to |-> to]
Handler(kind)  == On(kind, {})

\* Every kind of stream, streams in both orders with limit_handles, with a close
\* and with another stream, and a handler that fails in each phase.
\* A future before limit_handles is left out: limit_handles does not know of it and
\* closes its target, and nobody learns of it.
SomePlans ==
  {<<On("pipe", {0}), On("pipe", {1})>>, <<On("pipe", {2}), On("async_pipe", {1})>>,
   <<On("async", {0}), On("pipe", {1, 2})>>, <<On("future", {1}), On("file", {2})>>,
   <<Handler("limit"), On("async", {1})>>, <<On("async", {1}), Handler("limit")>>,
   <<Handler("limit"), On("pipe", {0})>>, <<Handler("limit"), On("future", {1})>>,
   <<Handler("limit"), On("close", {1})>>, <<Handler("limit"), On("close_fd", {1})>>,
   <<On("close", {0}), On("pipe", {1})>>, <<On("pipe", {1}), On("file", {1})>>,
   <<Handler("bad_setup"), On("pipe", {1})>>, <<Handler("bad_setup"), On("async", {1})>>,
   <<On("async_pipe", {1}), Handler("bad_exec_setup")>>, <<On("pipe", {0}), Handler("bad_exec_setup")>>,
   <<On("pipe", {1}), Handler("bad_success")>>, <<On("async", {1}), Handler("bad_success")>>,
   <<Handler("throw_on_error"), On("pipe", {1})>>}

\* Objects 1 and 2 are basic_pipes, the others async_pipes.
TypeOf == [o \in Objects |-> IF o <= 2 THEN "basic" ELSE "async"]

AllInit ==
  /\ topic \in {"launch", "stream", "handles"}
  /\ Init /\ StreamInit /\ HandleInit
  /\ topic # "launch" => mode = "code" /\ how = "fork" /\ plan = <<On("pipe", {0}), On("pipe", {1})>>
  /\ topic # "handles" => system = "posix"

OnlyLaunch  == topic = "launch" /\ UNCHANGED <<topic, streamVars, handleVars>>
OnlyStream  == topic = "stream" /\ UNCHANGED <<topic, launchVars, handleVars>>
OnlyHandles == topic = "handles" /\ UNCHANGED <<topic, launchVars, streamVars>>

AllNext == \/ OnlyLaunch /\ Next
           \/ OnlyStream /\ StreamNext
           \/ OnlyHandles /\ HandleNext

\* The fairness of Executor and of PipeStream.
AllSpec == /\ AllInit /\ [][AllNext]_allVars
           /\ WF_allVars(OnlyLaunch /\ Invoke) /\ WF_allVars(OnlyLaunch /\ ChildStep)
           /\ WF_allVars(OnlyStream /\ WriterStep) /\ WF_allVars(OnlyStream /\ ReaderStep)

\* A launch returns, if there is one: Executor's LaunchReturns.
InvokeReturns == topic = "launch" => LaunchReturns
===============================================================================
