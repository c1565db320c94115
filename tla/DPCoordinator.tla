--------------------------- MODULE DPCoordinator ---------------------------
(***************************************************************************)
(* Request waves of a data parallel deployment: the engine cores           *)
(* (DPEngineCoreProc) run forward passes together and, every SyncInterval  *)
(* passes, all-reduce whether any of them has work; the coordinator wakes  *)
(* paused engines; the front-ends (DPAsyncMPClient) send requests with the *)
(* wave they believe in.  Messages of one sender arrive in order, those of *)
(* different senders in any order.                                         *)
(***************************************************************************)
EXTENDS Integers, Sequences, FiniteSets

CONSTANTS
  NEngines,       \* engines have the ranks 0..NEngines-1
  Fronts,         \* front-end processes
  NRequests,      \* requests sent, numbered in the order they are sent
  NPasses,        \* forward passes a request takes, if it is not aborted
  SyncInterval,   \* forward passes between two all-reduces, 24 in the code
  MaxStats        \* bound on published statistics a front-end has not read

Engines == 0..(NEngines - 1)
Requests == 1..NRequests
NoEngine == NEngines
Coord == NRequests + 1   \* the sender of START_DP_WAVE
Senders == Fronts \cup {Coord}

ASSUME DPAssumption ==
  /\ NEngines \in Nat \ {0, 1} /\ NRequests \in Nat
  /\ NPasses \in Nat \ {0} /\ SyncInterval \in Nat \ {0} /\ MaxStats \in Nat \ {0}
  /\ Coord \notin Fronts

VARIABLES
  request,    \* by request: its state, engine, front-end and passes left
  sentCount,  \* requests sent so far
  front,      \* by front-end: current_wave, engines_running, first_req, stats
  coord,      \* the coordinator: current_wave, engines_running
  engine,     \* by engine: current_wave, engines_running, counter, pc, any
  inputs,     \* by sender and engine: messages on their way to the engine
  notices,    \* by front-end: (engine, wave) on their way to the coordinator
  reports,    \* by engine: wave_complete and start_wave to the coordinator
  missed      \* history: the request that was to wake a paused engine was aborted, or a
              \* front-end heard of a newer wave before it sent its notice

vars == <<request, sentCount, front, coord, engine, inputs, notices, reports, missed>>

Init ==
  /\ request = [r \in Requests |-> [state |-> "new", engine |-> 0, front |-> Coord, left |-> 0]]
  /\ sentCount = 0
  /\ front = [f \in Fronts |-> [wave |-> 0, running |-> FALSE, first |-> << >>, stats |-> << >>]]
  /\ coord = [wave |-> 0, running |-> FALSE]
  /\ engine = [e \in Engines |-> [wave |-> 0, running |-> FALSE, counter |-> 0,
                                  pc |-> "input", any |-> FALSE]]
  /\ inputs = [s \in Senders |-> [e \in Engines |-> << >>]]
  /\ notices = [f \in Fronts |-> << >>]
  /\ reports = [e \in Engines |-> << >>]
  /\ missed = FALSE

Unfinished(e) == {r \in Requests : request[r].state = "running" /\ request[r].engine = e}

-----------------------------------------------------------------------------
\* add_request_async.  The choice of the engine is left open.
AddRequest(f, e) ==
  /\ sentCount < NRequests
  /\ LET r == sentCount + 1
     IN /\ sentCount' = r
        /\ request' = [request EXCEPT ![r] = [state |-> "sent", engine |-> e, front |-> f,
                                              left |-> NPasses]]
        /\ inputs' = [inputs EXCEPT ![f][e] =
                        Append(@, [type |-> "ADD", req |-> r, wave |-> front[f].wave])]
  /\ front' = IF front[f].running THEN front
              ELSE [front EXCEPT ![f].first = Append(@, e)]
  /\ UNCHANGED <<coord, engine, notices, reports, missed>>

\* abort_requests_async, for a request of this front-end that is in flight.
AbortRequest(r) ==
  /\ request[r].state \in {"sent", "running"}
  /\ LET f == request[r].front  e == request[r].engine
         abort == [type |-> "ABORT", req |-> r, wave |-> 0]
     IN /\ \A i \in DOMAIN inputs[f][e] : inputs[f][e][i] # abort
        /\ inputs' = [inputs EXCEPT ![f][e] = Append(@, abort)]
  /\ UNCHANGED <<request, sentCount, front, coord, engine, notices, reports, missed>>

\* run_engine_stats_update_task: the notice of a first request ...
Notify(f) ==
  /\ front[f].first # << >>
  /\ front' = [front EXCEPT ![f].running = TRUE, ![f].first = Tail(@)]
  /\ notices' = [notices EXCEPT ![f] =
                   Append(@, [engine |-> Head(front[f].first), wave |-> front[f].wave])]
  /\ UNCHANGED <<request, sentCount, coord, engine, inputs, reports, missed>>

\* ... and the latest of the statistics that have arrived.
DrainStats(f, k) ==
  /\ k \in DOMAIN front[f].stats
  /\ LET latest == front[f].stats[k]
     IN /\ missed' = (missed \/ (front[f].first # << >> /\ latest.wave # front[f].wave))
        /\ front' = [front EXCEPT ![f].wave = latest.wave, ![f].running = latest.running,
                                  ![f].stats = SubSeq(@, k + 1, Len(@))]
  /\ UNCHANGED <<request, sentCount, coord, engine, inputs, notices, reports>>

-----------------------------------------------------------------------------
\* CoordinatorProc.process_input_socket.  What is published repeatedly matters
\* only where it is news to a front-end.
IsNews(f) == coord # [wave |-> front[f].wave, running |-> front[f].running]
PublishStats ==
  /\ \E f \in Fronts : IsNews(f)
  /\ \A f \in Fronts : Len(front[f].stats) < MaxStats
  /\ front' = [f \in Fronts |-> [front[f] EXCEPT !.stats = Append(@, coord)]]
  /\ UNCHANGED <<request, sentCount, coord, engine, inputs, notices, reports, missed>>

send_start_wave(wave, exclude) ==
  inputs' = [inputs EXCEPT ![Coord] =
    [e \in Engines |-> Append(@[e], [type |-> "START", wave |-> wave, exclude |-> exclude])]]

Excluded_EvenIfStale(notice) == notice.engine
Excluded(notice) == IF notice.wave < coord.wave THEN NoEngine ELSE notice.engine

CoordHandlesNotice(f) ==
  /\ notices[f] # << >>
  /\ notices' = [notices EXCEPT ![f] = Tail(@)]
  /\ IF coord.running THEN UNCHANGED <<coord, inputs>>
     ELSE /\ coord' = [coord EXCEPT !.running = TRUE]
          /\ send_start_wave(coord.wave, Excluded(Head(notices[f])))
  /\ UNCHANGED <<request, sentCount, front, engine, reports, missed>>

WaveComplete(wave) ==
  /\ coord' = IF coord.wave <= wave THEN [wave |-> wave + 1, running |-> FALSE] ELSE coord
  /\ UNCHANGED inputs

IsNewWave(wave) == wave > coord.wave \/ (wave = coord.wave /\ ~coord.running)

StartWave(wave, e) ==
  IF IsNewWave(wave)
  THEN coord' = [wave |-> wave, running |-> TRUE] /\ send_start_wave(wave, e)
  ELSE UNCHANGED <<coord, inputs>>

CoordHandlesReport(e) ==
  /\ reports[e] # << >>
  /\ reports' = [reports EXCEPT ![e] = Tail(@)]
  /\ LET report == Head(reports[e])
     IN \/ report.type = "wave_complete" /\ WaveComplete(report.wave)
        \/ report.type = "start_wave" /\ StartWave(report.wave, e)
  /\ UNCHANGED <<request, sentCount, front, engine, notices, missed>>

-----------------------------------------------------------------------------
\* DPEngineCoreProc.add_request.
ReceiveAdd(e, m) ==
  /\ m.type = "ADD"
  /\ request' = [request EXCEPT ![m.req].state = "running"]
  /\ engine' = IF m.wave > engine[e].wave THEN [engine EXCEPT ![e].wave = m.wave] ELSE engine
  /\ reports' = IF m.wave < engine[e].wave /\ ~engine[e].running
                THEN [reports EXCEPT ![e] =
                        Append(@, [type |-> "start_wave", wave |-> engine[e].wave])]
                ELSE reports
  /\ UNCHANGED missed

\* A paused engine whose only request is aborted stays paused.
ReceiveAbort(e, m) ==
  /\ m.type = "ABORT"
  /\ request' = IF request[m.req].state = "running"
                THEN [request EXCEPT ![m.req].state = "done"] ELSE request
  /\ missed' = (missed \/ (~engine[e].running /\ Unfinished(e) = {m.req}))
  /\ UNCHANGED <<engine, reports>>

ReceiveStart(e, m) ==
  /\ m.type = "START"
  /\ engine' = IF m.exclude # e /\ m.wave >= engine[e].wave
               THEN [engine EXCEPT ![e].wave = m.wave, ![e].running = TRUE] ELSE engine
  /\ UNCHANGED <<request, reports, missed>>

\* _process_input_queue, one message.
HandleInput(e, s) ==
  /\ engine[e].pc = "input"
  /\ inputs[s][e] # << >>
  /\ LET m == Head(inputs[s][e])
     IN ReceiveAdd(e, m) \/ ReceiveAbort(e, m) \/ ReceiveStart(e, m)
  /\ inputs' = [inputs EXCEPT ![s][e] = Tail(@)]
  /\ UNCHANGED <<sentCount, front, coord, notices>>

\* run_busy_loop: a forward pass for its requests, or a dummy pass; an engine
\* that has neither requests nor a wave to follow does not get here (aborted
\* requests only make it go round the loop once).
AfterPass(counter) == IF counter = SyncInterval THEN "allreduce" ELSE "input"
ForwardPass(e) ==
  /\ engine[e].pc = "input"
  /\ engine[e].running \/ Unfinished(e) # {}
  /\ request' = [r \in Requests |->
       IF r \notin Unfinished(e) THEN request[r]
       ELSE [request[r] EXCEPT !.left = @ - 1,
                               !.state = IF request[r].left = 1 THEN "done" ELSE @]]
  /\ LET counter == engine[e].counter + 1
     IN engine' = [engine EXCEPT ![e].running = TRUE, ![e].counter = counter % SyncInterval,
                                 ![e].pc = AfterPass(counter)]
  /\ UNCHANGED <<sentCount, front, coord, inputs, notices, reports, missed>>

\* has_unfinished_dp: every engine has come to the all-reduce.
AllReduce ==
  /\ \A e \in Engines : engine[e].pc = "allreduce"
  /\ LET any == \E e \in Engines : Unfinished(e) # {}
     IN engine' = [e \in Engines |-> [engine[e] EXCEPT !.pc = "reduced", !.any = any]]
  /\ UNCHANGED <<request, sentCount, front, coord, inputs, notices, reports, missed>>

\* The rest of the loop: stay in the wave, or pause and report it complete.
EndsWave_NotCounted(e) == engine[e].wave
EndsWave(e) == engine[e].wave + 1
AfterAllReduce(e) ==
  /\ engine[e].pc = "reduced"
  /\ engine' = [engine EXCEPT ![e].pc = "input", ![e].any = FALSE, ![e].running = engine[e].any,
                              ![e].wave = IF engine[e].any THEN @ ELSE EndsWave(e)]
  /\ reports' = IF engine[e].any \/ e # 0 THEN reports
                ELSE [reports EXCEPT ![0] =
                        Append(@, [type |-> "wave_complete", wave |-> engine[0].wave])]
  /\ UNCHANGED <<request, sentCount, front, coord, inputs, notices, missed>>

-----------------------------------------------------------------------------
FrontStep(f) == Notify(f) \/ \E k \in 1..MaxStats : DrainStats(f, k)
EngineStep(e) == ForwardPass(e) \/ AfterAllReduce(e)
Next ==
  \/ \E f \in Fronts, e \in Engines : AddRequest(f, e)
  \/ \E r \in Requests : AbortRequest(r)
  \/ \E f \in Fronts : FrontStep(f) \/ CoordHandlesNotice(f)
  \/ PublishStats
  \/ \E e \in Engines : CoordHandlesReport(e) \/ EngineStep(e)
  \/ \E e \in Engines, s \in Senders : HandleInput(e, s)
  \/ AllReduce

\* The processes keep running and messages arrive.  An engine empties its
\* input queue in every round of its loop, so a message is handled although
\* the engine may leave the input phase again and again.
Fairness ==
  /\ WF_vars(AllReduce)
  /\ \A f \in Fronts : WF_vars(Notify(f)) /\ WF_vars(CoordHandlesNotice(f))
  /\ \A e \in Engines : WF_vars(CoordHandlesReport(e)) /\ WF_vars(EngineStep(e))
  /\ \A e \in Engines, s \in Senders : SF_vars(HandleInput(e, s))

Spec == Init /\ [][Next]_vars /\ Fairness

-----------------------------------------------------------------------------
\* Engines that meet in an all-reduce are in the same wave: none is left in an
\* old one, none runs ahead.
WavesAgree ==
  (\A e \in Engines : engine[e].pc = "allreduce") =>
    \A e \in Engines : engine[e].wave = engine[0].wave

\* When no more requests are sent, all of them come to an end and the group
\* comes to rest: no engine is left waiting in an all-reduce that the others
\* do not join, and the coordinator knows that the engines are paused.  The two
\* exceptions (missed) are the only ways to leave out an engine that the coordinator
\* takes to be woken by its request.
ComesToRest ==
  <>[] \/ missed
       \/ /\ \A r \in Requests : request[r].state \in {"new", "done"}
          /\ ~coord.running
          /\ \A e \in Engines : engine[e].pc = "input" /\ ~engine[e].running
=============================================================================
