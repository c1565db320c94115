------------------------- MODULE MultiprocExecutor -------------------------
(***************************************************************************)
(* MultiprocExecutor and WorkerProc: the engine core broadcasts calls to   *)
(* its worker processes and collects their answers, blocking or through    *)
(* one I/O thread; a monitor thread shuts everything down when a worker    *)
(* dies.  Answers carry no call number, they are told apart by their place *)
(* in the queue of each worker.  The message queues are the ones that      *)
(* BroadcastSpec promises.                                                 *)
(***************************************************************************)
EXTENDS Integers, Sequences, FiniteSets

CONSTANTS
  WorldSize,              \* workers, in the order of their ranks
  OutputRank,             \* the worker that answers execute_model
  MaxConcurrentBatches,   \* bound on max_concurrent_batches
  MaxCalls                \* bound on the calls made

Workers == 1..WorldSize
Calls == 1..MaxCalls
ASSUME ExecutorAssumption ==
  /\ WorldSize \in Nat \ {0} /\ OutputRank \in Workers
  /\ MaxConcurrentBatches \in Nat \ {0} /\ MaxCalls \in Nat

\* What a future or a get_response ends with when there is no answer.
Cancelled == [call |-> 0, ok |-> FALSE]

VARIABLES
  max_concurrent_batches,   \* 1: execute_model blocks; more: it returns a future
  calls,          \* the calls made: for each, the workers that answer it
  rpc, response,  \* by worker: calls on their way to it, answers from it
  main,           \* the busy loop of the engine core and its current call
  futures,        \* batch_queue: the calls of the pending futures, oldest first
  io,             \* calls submitted to the I/O thread, the first is running
  result,         \* by call: the answers collected for it
  alive,          \* worker processes
  is_failed, shutting_down, shutdown_event, queues_open, failure_told,
  monitor,        \* how far the monitor thread is
  misread         \* history: a utility call was made beside pending futures, or has
                  \* left answers of other workers behind

engineVars == <<calls, main, futures, result, misread>>
failVars == <<is_failed, shutdown_event, shutting_down, queues_open, failure_told, monitor>>
vars == <<engineVars, rpc, response, io, alive, failVars, max_concurrent_batches>>

Idle == [pc |-> "idle", call |-> 0, utility |-> FALSE, left |-> << >>, reading |-> FALSE]
Dead == [Idle EXCEPT !.pc = "dead"]

Init ==
  /\ max_concurrent_batches \in 1..MaxConcurrentBatches
  /\ calls = << >>
  /\ rpc = [w \in Workers |-> << >>] /\ response = [w \in Workers |-> << >>]
  /\ main = Idle
  /\ futures = << >> /\ io = << >>
  /\ result = [c \in Calls |-> << >>]
  /\ alive = Workers
  /\ is_failed = FALSE /\ shutdown_event = FALSE
  /\ shutting_down = FALSE /\ queues_open = TRUE
  /\ failure_told = FALSE /\ monitor = "watch"
  /\ misread = FALSE

-----------------------------------------------------------------------------
\* collective_rpc: the call is broadcast, then answers are collected.
Ranks == [w \in Workers |-> w]
Broadcast(answering) ==
  /\ Len(calls) < MaxCalls
  /\ ~is_failed /\ queues_open
  /\ calls' = Append(calls, answering)
  /\ rpc' = [w \in Workers |-> Append(rpc[w], Len(calls) + 1)]

Collect(utility, left) ==
  [pc |-> "collect", call |-> Len(calls) + 1, utility |-> utility, left |-> left, reading |-> FALSE]

ExecuteModel ==
  /\ main.pc = "idle" /\ Len(futures) < max_concurrent_batches
  /\ Broadcast({OutputRank})
  /\ IF max_concurrent_batches > 1
     THEN /\ ~shutting_down
          /\ io' = Append(io, Len(calls) + 1)
          /\ futures' = Append(futures, Len(calls) + 1)
          /\ main' = main
     ELSE main' = Collect(FALSE, <<OutputRank>>) /\ UNCHANGED <<io, futures>>
  /\ UNCHANGED <<response, result, misread, alive, failVars>>

\* A call fails at once when the executor has failed or was shut down.  It is
\* the end of the engine if it is execute_model; the failure of a utility call
\* is reported to the client and the engine goes on.
ExecuteModelRaises ==
  /\ main.pc = "idle" /\ Len(futures) < max_concurrent_batches
  /\ Len(calls) < MaxCalls
  /\ is_failed \/ ~queues_open \/ (max_concurrent_batches > 1 /\ shutting_down)
  /\ main' = Dead
  /\ UNCHANGED <<calls, futures, result, misread, rpc, response, io, alive, failVars>>

Utility ==
  /\ main.pc = "idle"
  /\ Broadcast(Workers)
  /\ main' = Collect(TRUE, Ranks)
  /\ misread' = (misread \/ futures # << >>)
  /\ UNCHANGED <<futures, io, response, result, alive, failVars>>

\* get_response on the thread of the engine, worker by worker.  A worker's failure
\* is raised at once: the answers of the workers behind it stay in their queues.
AfterRaise == IF main.utility THEN Idle ELSE Dead

BeginRead ==
  /\ main.pc = "collect" /\ ~main.reading
  /\ main' = IF queues_open THEN [main EXCEPT !.reading = TRUE] ELSE AfterRaise
  /\ UNCHANGED <<calls, futures, result, misread, rpc, response, io, alive, failVars>>

ReadResponse ==
  /\ main.pc = "collect" /\ main.reading
  /\ LET w == Head(main.left)
         answer == Head(response[w])
     IN /\ response[w] # << >>
        /\ response' = [response EXCEPT ![w] = Tail(@)]
        /\ result' = [result EXCEPT ![main.call] = Append(@, answer)]
        /\ main' = IF ~answer.ok THEN AfterRaise
                   ELSE IF Len(main.left) = 1 THEN Idle
                   ELSE [main EXCEPT !.left = Tail(@), !.reading = FALSE]
        /\ misread' = (misread \/ (~answer.ok /\ Len(main.left) > 1))
  /\ UNCHANGED <<calls, futures, rpc, io, alive, failVars>>

\* execute_model may time out at any moment.  A utility call has no time-out, and no
\* event to cancel it: it waits until the answer comes.
ReadTimesOut ==
  /\ main.pc = "collect" /\ main.reading /\ ~main.utility
  /\ response[Head(main.left)] = << >>
  /\ main' = AfterRaise
  /\ UNCHANGED <<calls, futures, result, misread, rpc, response, io, alive, failVars>>

-----------------------------------------------------------------------------
\* The I/O thread runs get_response of the oldest task.
IoRunning_Two == {io[i] : i \in 1..(IF Len(io) < 2 THEN Len(io) ELSE 2)}
IoRunning == {io[i] : i \in 1..(IF io = << >> THEN 0 ELSE 1)}
IoWithout(c) ==
  LET k == CHOOSE k \in DOMAIN io : io[k] = c
  IN SubSeq(io, 1, k - 1) \o SubSeq(io, k + 1, Len(io))
IoDone(c, answer) ==
  /\ result' = [result EXCEPT ![c] = Append(@, answer)]
  /\ io' = IoWithout(c)
  /\ UNCHANGED <<calls, main, futures, misread, rpc, alive, failVars>>

IoReads(c) ==
  /\ c \in IoRunning
  /\ response[OutputRank] # << >>
  /\ response' = [response EXCEPT ![OutputRank] = Tail(@)]
  /\ IoDone(c, Head(response[OutputRank]))

\* The dequeue of a running task sees the event while it waits.
IoCancelled(c) ==
  /\ c \in IoRunning
  /\ shutdown_event /\ response[OutputRank] = << >>
  /\ IoDone(c, Cancelled)
  /\ UNCHANGED response

IoTimesOut(c) ==
  /\ c \in IoRunning
  /\ response[OutputRank] = << >>
  /\ IoDone(c, Cancelled)
  /\ UNCHANGED response

\* step_with_batch_queue waits for the oldest future.
WaitForFuture ==
  /\ main.pc = "idle" /\ futures # << >>
  /\ main' = [main EXCEPT !.pc = "wait"]
  /\ UNCHANGED <<calls, futures, result, misread, rpc, response, io, alive, failVars>>

FutureResult ==
  /\ main.pc = "wait"
  /\ result[Head(futures)] # << >>
  /\ futures' = Tail(futures)
  /\ main' = IF result[Head(futures)][1].ok THEN Idle ELSE Dead
  /\ UNCHANGED <<calls, result, misread, rpc, response, io, alive, failVars>>

-----------------------------------------------------------------------------
\* worker_busy_loop: one call, which may raise, and an answer if this worker is to
\* give one.
WorkerStep(w) ==
  /\ w \in alive /\ rpc[w] # << >>
  /\ LET c == Head(rpc[w])
     IN \E ok \in BOOLEAN :
          response' = IF w \in calls[c]
                      THEN [response EXCEPT ![w] = Append(@, [call |-> c, ok |-> ok])]
                      ELSE response
  /\ rpc' = [rpc EXCEPT ![w] = Tail(@)]
  /\ UNCHANGED <<engineVars, io, alive, failVars>>

WorkerDies(w) ==
  /\ w \in alive /\ monitor = "watch" /\ ~shutting_down
  /\ alive' = alive \ {w}
  /\ UNCHANGED <<engineVars, rpc, response, io, failVars>>

-----------------------------------------------------------------------------
\* monitor_workers: after a death the executor is failed and shut down, then
\* the engine is told.
MonitorSeesDeath ==
  /\ monitor = "watch" /\ alive # Workers
  /\ IF shutting_down THEN monitor' = "done" /\ UNCHANGED is_failed
     ELSE monitor' = "failed" /\ is_failed' = TRUE
  /\ UNCHANGED <<engineVars, rpc, response, io, alive, shutdown_event, shutting_down,
                 queues_open, failure_told>>

MonitorCalls ==
  /\ monitor = "down"
  /\ failure_told' = TRUE
  /\ monitor' = "done"
  /\ UNCHANGED <<engineVars, rpc, response, io, alive, is_failed, shutdown_event,
                 shutting_down, queues_open>>

\* shutdown, by the monitor or by an engine at its end: the first one sets the
\* event, cancels the tasks that do not run, closes the response queues and
\* terminates the workers.
ShuttingDown == monitor = "failed" \/ main.pc = "dead"
SetShutdownEvent_Forgotten == UNCHANGED shutdown_event
SetShutdownEvent == shutdown_event' = TRUE
BeginShutdown ==
  /\ ShuttingDown /\ ~shutting_down
  /\ SetShutdownEvent
  /\ shutting_down' = TRUE
  /\ LET waiting == {io[i] : i \in 2..Len(io)}
     IN /\ io' = IF io = << >> THEN io ELSE <<Head(io)>>
        /\ result' = [c \in Calls |-> IF c \in waiting THEN <<Cancelled>> ELSE result[c]]
  /\ UNCHANGED <<calls, main, futures, misread, rpc, response, alive, is_failed, queues_open,
                 failure_told, monitor>>

CloseQueues ==
  /\ ShuttingDown /\ shutting_down /\ queues_open
  /\ queues_open' = FALSE
  /\ UNCHANGED <<engineVars, rpc, response, io, alive, is_failed, shutdown_event,
                 shutting_down, failure_told, monitor>>

TerminateWorkers ==
  /\ ShuttingDown /\ ~queues_open
  /\ alive # {} \/ monitor = "failed"
  /\ alive' = {}
  /\ monitor' = IF monitor = "failed" THEN "down" ELSE monitor
  /\ UNCHANGED <<engineVars, rpc, response, io, is_failed, shutdown_event,
                 shutting_down, queues_open, failure_told>>

\* The engine finds EXECUTOR_FAILED in its input queue.
HandleExecutorFailed ==
  /\ main.pc = "idle" /\ failure_told
  /\ main' = Dead
  /\ UNCHANGED <<calls, futures, result, misread, rpc, response, io, alive, failVars>>

-----------------------------------------------------------------------------
Fixed == UNCHANGED max_concurrent_batches
MainStep ==
  Fixed /\ (BeginRead \/ ReadResponse \/ ReadTimesOut \/ FutureResult \/ HandleExecutorFailed)
IoStep == Fixed /\ \E c \in Calls : IoReads(c) \/ IoCancelled(c)
FailStep ==
  Fixed /\ (MonitorSeesDeath \/ BeginShutdown \/ CloseQueues \/ TerminateWorkers \/ MonitorCalls)
WorkStep(w) == Fixed /\ WorkerStep(w)

Next ==
  \/ Fixed /\ (ExecuteModel \/ ExecuteModelRaises \/ Utility \/ WaitForFuture)
  \/ MainStep \/ IoStep \/ FailStep
  \/ Fixed /\ \E c \in Calls : IoTimesOut(c)
  \/ \E w \in Workers : WorkStep(w) \/ (Fixed /\ WorkerDies(w))

\* Threads that can run do, and workers work.  A blocking execute_model has a
\* time-out; nothing relies on the time-out of a future.
Fairness ==
  /\ WF_vars(MainStep) /\ WF_vars(IoStep) /\ WF_vars(FailStep)
  /\ \A w \in Workers : WF_vars(WorkStep(w))

Spec == Init /\ [][Next]_vars /\ Fairness

-----------------------------------------------------------------------------
\* Answers are read in the order they were sent, and carry no call number.  The
\* engine gets the answers of its own call from collective_rpc and from the future of
\* execute_model, whatever raises, times out, dies or is shut down - unless a utility
\* call was made while futures were pending, so that two threads read one queue, or
\* failed in a worker and left the answers of others behind: no answer is taken for
\* another call's in any other way.
AnswersMatchCalls ==
  misread \/ \A c \in Calls : \A i \in DOMAIN result[c] :
    \/ \E k \in DOMAIN futures : futures[k] = c
    \/ result[c][i].call \in {0, c}

\* When a worker dies, the engine core learns of it, whatever it is waiting for
\* ("shuts down the executor and invokes the failure callback to inform the engine"),
\* with one exception: a utility call waits for ever for a worker that is gone.
WaitsForTheDead ==
  /\ main.pc = "collect" /\ main.reading /\ main.utility
  /\ response[Head(main.left)] = << >> /\ Head(main.left) \notin alive
EngineLearnsOfDeath == (alive # Workers) ~> (main.pc = "dead" \/ WaitsForTheDead)
=============================================================================
