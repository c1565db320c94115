------------------------ MODULE DPCoordinator_proofs ------------------------
(***************************************************************************)
(* Engines that meet in an all-reduce are in the same wave, for every      *)
(* number of engines, front-ends and requests, whatever is aborted and     *)
(* however late a front-end is.                                            *)
(*                                                                         *)
(* The argument: an engine that has left an all-reduce that ended the wave *)
(* counts as one wave further even before it has noted so (Level); then    *)
(* all engines are at the same level at every moment, and no front-end,    *)
(* coordinator or message in flight knows of a later wave than that.  So a *)
(* message can only repeat the wave an engine is in, never advance it.     *)
(***************************************************************************)
EXTENDS DPCoordinator, SequenceTheorems, TLAPS

\* The wave an engine is in, once it has acted on the last all-reduce.
Level(e) ==
  engine[e].wave + IF engine[e].pc = "reduced" /\ ~engine[e].any THEN 1 ELSE 0

\* The values of the variables when no wave after n has begun.
Waves(n) == [wave : 0..n, running : BOOLEAN]
FrontStates(n) ==
  [wave : 0..n, running : BOOLEAN, first : Seq(Engines), stats : Seq(Waves(n))]
Inputs(n) ==
  [type : {"ADD", "ABORT"}, req : Nat, wave : 0..n]
    \cup [type : {"START"}, wave : 0..n, exclude : Nat]
Notices(n) == [engine : Engines, wave : 0..n]
Reports(n) ==
  [type : {"wave_complete"}, wave : 0..(n - 1)] \cup [type : {"start_wave"}, wave : 0..n]

\* Nobody and no message knows of a wave after n.
KnownUpTo(n) ==
  /\ coord \in Waves(n)
  /\ front \in [Fronts -> FrontStates(n)]
  /\ inputs \in [Senders -> [Engines -> Seq(Inputs(n))]]
  /\ notices \in [Fronts -> Seq(Notices(n))]
  /\ reports \in [Engines -> Seq(Reports(n))]

\* The values of the requests and of the engines.
RequestStates ==
  [state : {"new", "sent", "running", "done"}, engine : Engines, front : Senders,
   left : Int]
EngineStates ==
  [wave : Nat, running : BOOLEAN, counter : Nat,
   pc : {"input", "allreduce", "reduced"}, any : BOOLEAN]

\* The types of the variables that carry no wave.
Types ==
  /\ request \in [Requests -> RequestStates]
  /\ sentCount \in Nat
  /\ engine \in [Engines -> EngineStates]
\* The engines are in the same wave, once all have acted on the last all-reduce.
SameLevel == \A e \in Engines : Level(e) = Level(0)
\* The inductive invariant.
IInv == Types /\ SameLevel /\ KnownUpTo(Level(0))

-----------------------------------------------------------------------------
\* What is known up to n is known up to any later wave.
LEMMA KnownLater ==
  ASSUME NEW n \in Nat, NEW m \in Nat, n <= m, KnownUpTo(n)
  PROVE  KnownUpTo(m)
<1>1. 0..n \subseteq 0..m /\ 0..(n - 1) \subseteq 0..(m - 1)
  OBVIOUS
<1>2. /\ Waves(n) \subseteq Waves(m)
      /\ Inputs(n) \subseteq Inputs(m)
      /\ Notices(n) \subseteq Notices(m)
      /\ Reports(n) \subseteq Reports(m)
  BY <1>1 DEF Waves, Inputs, Notices, Reports
<1>3. /\ Seq(Waves(n)) \subseteq Seq(Waves(m))
      /\ Seq(Inputs(n)) \subseteq Seq(Inputs(m))
      /\ Seq(Notices(n)) \subseteq Seq(Notices(m))
      /\ Seq(Reports(n)) \subseteq Seq(Reports(m))
  BY <1>2, SeqMonotonic
<1>4. FrontStates(n) \subseteq FrontStates(m)
  BY <1>1, <1>3 DEF FrontStates
<1> QED
  BY <1>2, <1>3, <1>4 DEF KnownUpTo

\* It holds initially.
LEMMA InitInv == Init => IInv
<1> SUFFICES ASSUME Init PROVE IInv
  OBVIOUS
<1> USE DPAssumption DEF Init
<1>0. 0 \in Engines /\ Coord \in Senders /\ 0 \in 0..0 /\ 0..0 \subseteq Nat
  BY DEF Engines, Senders
<1>1. Types
  BY <1>0 DEF Types, RequestStates, EngineStates
<1>2. Level(0) = 0 /\ SameLevel
  BY <1>0 DEF Level, SameLevel
<1>3. KnownUpTo(0)
  <2>1. coord \in Waves(0)
    BY <1>0 DEF Waves
  <2>2. front \in [Fronts -> FrontStates(0)]
    BY <1>0, EmptySeq DEF FrontStates
  <2>3. inputs \in [Senders -> [Engines -> Seq(Inputs(0))]]
    BY EmptySeq
  <2>4. notices \in [Fronts -> Seq(Notices(0))]
    BY EmptySeq
  <2>5. reports \in [Engines -> Seq(Reports(0))]
    BY EmptySeq
  <2> QED
    BY <2>1, <2>2, <2>3, <2>4, <2>5 DEF KnownUpTo
<1> QED
  BY <1>1, <1>2, <1>3 DEF IInv

\* The level of the group is a number, and all that is in flight is known to it.
LEMMA GroupLevel ==
  ASSUME IInv
  PROVE  \E n \in Nat :
           /\ KnownUpTo(n)
           /\ \A e \in Engines : Level(e) = n
           /\ \A e \in Engines : engine[e].wave \in 0..n
           /\ \A e \in Engines : engine[e].pc # "reduced" => engine[e].wave = n
<1>1. 0 \in Engines
  BY DPAssumption DEF Engines
<1>2. \A e \in Engines : Level(e) \in Nat /\ engine[e].wave \in 0..Level(e)
  BY DEF IInv, Types, EngineStates, Level
<1>3. \A e \in Engines : engine[e].pc # "reduced" => engine[e].wave = Level(e)
  BY DEF IInv, Types, EngineStates, Level
<1>4. Level(0) \in Nat /\ \A e \in Engines : Level(e) = Level(0)
  BY <1>1, <1>2 DEF IInv, SameLevel
<1>5. KnownUpTo(Level(0))
  BY DEF IInv
<1> QED
  BY <1>2, <1>3, <1>4, <1>5

\* A step that keeps the levels of the engines.
LEMMA LevelKept ==
  ASSUME NEW n, Types', \A e \in Engines : Level(e)' = n, KnownUpTo(n)'
  PROVE  IInv'
<1>1. 0 \in Engines
  BY DPAssumption DEF Engines
<1>2. Level(0)' = n
  BY <1>1
<1>3. SameLevel'
  BY <1>2 DEF SameLevel
<1>4. KnownUpTo(Level(0))'
  BY <1>2
<1> QED
  BY <1>3, <1>4 DEF IInv

-----------------------------------------------------------------------------
\* A front-end sends a request with the wave it believes in.
LEMMA AddRequestInv ==
  ASSUME IInv, NEW f \in Fronts, NEW e \in Engines, AddRequest(f, e)
  PROVE  IInv'
<1> USE DEF AddRequest
<1> PICK n \in Nat : /\ KnownUpTo(n)
                     /\ \A d \in Engines : Level(d) = n
  BY GroupLevel
<1>1. Types'
  <2>1. f \in Senders /\ sentCount' \in Nat
    BY DEF Senders, IInv, Types
  <2>2. [state |-> "sent", engine |-> e, front |-> f, left |-> NPasses]
          \in RequestStates
    BY <2>1, DPAssumption DEF RequestStates
  <2> QED
    BY <2>1, <2>2 DEF IInv, Types
<1>2. \A d \in Engines : Level(d)' = n
  BY DEF Level
<1>3. KnownUpTo(n)'
  <2> USE DEF KnownUpTo
  <2>1. inputs' \in [Senders -> [Engines -> Seq(Inputs(n))]]
    <3>1. [type |-> "ADD", req |-> sentCount + 1, wave |-> front[f].wave] \in Inputs(n)
      BY DEF Inputs, FrontStates, IInv, Types
    <3>2. f \in Senders
      BY DEF Senders
    <3> QED
      BY <3>1, <3>2
  <2>2. front' \in [Fronts -> FrontStates(n)]
    <3>1. Append(front[f].first, e) \in Seq(Engines)
      BY DEF FrontStates
    <3>2. front' \in {front, [front EXCEPT ![f].first = Append(front[f].first, e)]}
      OBVIOUS
    <3> QED
      BY <3>1, <3>2 DEF FrontStates
  <2> QED
    BY <2>1, <2>2
<1> QED
  BY <1>1, <1>2, <1>3, LevelKept

\* A front-end aborts a request.
LEMMA AbortRequestInv ==
  ASSUME IInv, NEW r \in Requests, AbortRequest(r)
  PROVE  IInv'
<1> USE DEF AbortRequest
<1> PICK n \in Nat : /\ KnownUpTo(n)
                     /\ \A d \in Engines : Level(d) = n
  BY GroupLevel
<1>1. Types'
  BY DEF IInv, Types
<1>2. \A d \in Engines : Level(d)' = n
  BY DEF Level
<1>3. KnownUpTo(n)'
  <2> DEFINE abort == [type |-> "ABORT", req |-> r, wave |-> 0]
  <2>1. abort \in Inputs(n)
    BY DEF Inputs, Requests
  <2>2. request[r].front \in Senders /\ request[r].engine \in Engines
    BY DEF IInv, Types, RequestStates
  <2>3. inputs' = [inputs EXCEPT ![request[r].front][request[r].engine] = Append(@, abort)]
    OBVIOUS
  <2> HIDE DEF abort, AbortRequest
  <2>4. inputs' \in [Senders -> [Engines -> Seq(Inputs(n))]]
    BY <2>1, <2>2, <2>3 DEF KnownUpTo
  <2> QED
    BY <2>4 DEF KnownUpTo, AbortRequest
<1> QED
  BY <1>1, <1>2, <1>3, LevelKept

\* A front-end tells the coordinator of a first request.
LEMMA NotifyInv == ASSUME IInv, NEW f \in Fronts, Notify(f) PROVE IInv'
<1> USE DEF Notify
<1> PICK n \in Nat : /\ KnownUpTo(n)
                     /\ \A d \in Engines : Level(d) = n
  BY GroupLevel
<1>1. Types'
  BY DEF IInv, Types
<1>2. \A d \in Engines : Level(d)' = n
  BY DEF Level
<1>3. KnownUpTo(n)'
  <2> USE DEF KnownUpTo
  <2>1. /\ front[f].first \in Seq(Engines) /\ front[f].wave \in 0..n
        /\ Head(front[f].first) \in Engines /\ Tail(front[f].first) \in Seq(Engines)
    BY HeadTailProperties DEF FrontStates
  <2>2. [engine |-> Head(front[f].first), wave |-> front[f].wave] \in Notices(n)
    BY <2>1 DEF Notices
  <2>3. notices' \in [Fronts -> Seq(Notices(n))]
    BY <2>2
  <2>4. front' \in [Fronts -> FrontStates(n)]
    BY <2>1 DEF FrontStates
  <2> QED
    BY <2>3, <2>4
<1> QED
  BY <1>1, <1>2, <1>3, LevelKept

\* A front-end takes over the last of the coordinator's updates.
LEMMA DrainStatsInv ==
  ASSUME IInv, NEW f \in Fronts, NEW k \in 1..MaxStats, DrainStats(f, k) PROVE IInv'
<1> USE DEF DrainStats
<1> PICK n \in Nat : /\ KnownUpTo(n)
                     /\ \A d \in Engines : Level(d) = n
  BY GroupLevel
<1>1. Types'
  BY DEF IInv, Types
<1>2. \A d \in Engines : Level(d)' = n
  BY DEF Level
<1>3. KnownUpTo(n)'
  <2> USE DEF KnownUpTo
  <2> DEFINE stats == front[f].stats
  <2>1. stats \in Seq(Waves(n)) /\ k \in 1..Len(stats)
    BY LenProperties DEF FrontStates
  <2>2. stats[k].wave \in 0..n /\ stats[k].running \in BOOLEAN
    <3>1. stats[k] \in Waves(n)
      BY <2>1, ElementOfSeq
    <3> QED
      BY <3>1 DEF Waves
  <2>3. SubSeq(stats, k + 1, Len(stats)) \in Seq(Waves(n))
    BY <2>1
  <2>4. front' = [front EXCEPT ![f].wave = stats[k].wave, ![f].running = stats[k].running,
                               ![f].stats = SubSeq(@, k + 1, Len(@))]
    OBVIOUS
  <2>5. front \in [Fronts -> FrontStates(n)]
    BY DEF KnownUpTo
  <2> HIDE DEF DrainStats
  <2>6. front' \in [Fronts -> FrontStates(n)]
    BY <2>2, <2>3, <2>4, <2>5 DEF FrontStates
  <2> QED
    BY <2>6 DEF DrainStats
<1> QED
  BY <1>1, <1>2, <1>3, LevelKept

-----------------------------------------------------------------------------
\* The coordinator publishes its wave.
LEMMA PublishStatsInv == ASSUME IInv, PublishStats PROVE IInv'
<1> USE DEF PublishStats
<1> PICK n \in Nat : /\ KnownUpTo(n)
                     /\ \A d \in Engines : Level(d) = n
  BY GroupLevel
<1>1. Types'
  BY DEF IInv, Types
<1>2. \A d \in Engines : Level(d)' = n
  BY DEF Level
<1>3. front' \in [Fronts -> FrontStates(n)]
  <2>1. \A f \in Fronts : front[f] \in FrontStates(n) /\ coord \in Waves(n)
    BY DEF KnownUpTo
  <2>2. \A f \in Fronts : Append(front[f].stats, coord) \in Seq(Waves(n))
    BY <2>1 DEF FrontStates
  <2> QED
    BY <2>1, <2>2 DEF FrontStates
<1>4. KnownUpTo(n)'
  BY <1>3 DEF KnownUpTo
<1> QED
  BY <1>1, <1>2, <1>4, LevelKept

\* A wave that nobody is ahead of may be started.
LEMMA StartIsKnown ==
  ASSUME NEW n \in Nat, KnownUpTo(n), NEW wave \in 0..n, NEW exclude \in Nat,
         send_start_wave(wave, exclude)
  PROVE  inputs' \in [Senders -> [Engines -> Seq(Inputs(n))]]
<1> DEFINE start == [type |-> "START", wave |-> wave, exclude |-> exclude]
<1>1. start \in Inputs(n)
  BY DEF Inputs
<1>2. Coord \in Senders
  BY DEF Senders
<1>3. inputs' = [inputs EXCEPT ![Coord] = [e \in Engines |-> Append(inputs[Coord][e], start)]]
  BY DEF send_start_wave
<1> HIDE DEF start
<1> QED
  BY <1>1, <1>2, <1>3 DEF KnownUpTo

\* The coordinator handles the notice of a front-end.
LEMMA CoordHandlesNoticeInv == ASSUME IInv, NEW f \in Fronts, CoordHandlesNotice(f) PROVE IInv'
<1> USE DEF CoordHandlesNotice
<1> PICK n \in Nat : /\ KnownUpTo(n)
                     /\ \A d \in Engines : Level(d) = n
  BY GroupLevel
<1>1. Types'
  BY DEF IInv, Types
<1>2. \A d \in Engines : Level(d)' = n
  BY DEF Level
<1>3. notices[f] \in Seq(Notices(n)) /\ Head(notices[f]) \in Notices(n)
      /\ Tail(notices[f]) \in Seq(Notices(n))
  BY HeadTailProperties DEF KnownUpTo
<1>4. notices' \in [Fronts -> Seq(Notices(n))]
  BY <1>3 DEF KnownUpTo
<1>5. coord' \in Waves(n) /\ inputs' \in [Senders -> [Engines -> Seq(Inputs(n))]]
  <2>1. CASE coord.running
    BY <2>1 DEF KnownUpTo
  <2>2. CASE ~coord.running
    <3>1. coord' \in Waves(n) /\ coord.wave \in 0..n
      BY <2>2 DEF KnownUpTo, Waves
    <3>2. Excluded(Head(notices[f])) \in Nat
      BY <1>3, DPAssumption DEF Excluded, Notices, NoEngine, Engines
    <3> QED
      BY <2>2, <3>1, <3>2, StartIsKnown
  <2> QED
    BY <2>1, <2>2
<1>6. KnownUpTo(n)'
  BY <1>4, <1>5 DEF KnownUpTo
<1> QED
  BY <1>1, <1>2, <1>6, LevelKept

\* The coordinator handles the report of an engine.
LEMMA CoordHandlesReportInv == ASSUME IInv, NEW e \in Engines, CoordHandlesReport(e) PROVE IInv'
<1> USE DEF CoordHandlesReport
<1> PICK n \in Nat : /\ KnownUpTo(n)
                     /\ \A d \in Engines : Level(d) = n
  BY GroupLevel
<1>1. Types'
  BY DEF IInv, Types
<1>2. \A d \in Engines : Level(d)' = n
  BY DEF Level
<1> DEFINE report == Head(reports[e])
<1>3. reports[e] \in Seq(Reports(n)) /\ report \in Reports(n)
      /\ Tail(reports[e]) \in Seq(Reports(n))
  BY HeadTailProperties DEF KnownUpTo
<1>4. reports' \in [Engines -> Seq(Reports(n))]
  BY <1>3 DEF KnownUpTo
<1>5. coord' \in Waves(n) /\ inputs' \in [Senders -> [Engines -> Seq(Inputs(n))]]
  <2>1. CASE report.type = "wave_complete" /\ WaveComplete(report.wave)
    <3>1. report.wave + 1 \in 0..n
      BY <1>3, <2>1 DEF Reports
    <3>2. coord' \in Waves(n)
      BY <2>1, <3>1 DEF WaveComplete, Waves, KnownUpTo
    <3> QED
      BY <2>1, <3>2 DEF WaveComplete, KnownUpTo
  <2>2. CASE report.type = "start_wave" /\ StartWave(report.wave, e)
    <3>1. report.wave \in 0..n /\ e \in Nat
      BY <1>3, <2>2, DPAssumption DEF Reports, Engines
    <3>2. CASE IsNewWave(report.wave)
      <4>0. coord' = [wave |-> report.wave, running |-> TRUE] /\ send_start_wave(report.wave, e)
        BY <2>2, <3>2 DEF StartWave
      <4>1. coord' \in Waves(n)
        BY <4>0, <3>1 DEF Waves
      <4> QED
        BY <3>1, <4>0, <4>1, StartIsKnown
    <3>3. CASE ~IsNewWave(report.wave)
      BY <2>2, <3>3 DEF StartWave, KnownUpTo
    <3> QED
      BY <3>2, <3>3
  <2> QED
    BY <2>1, <2>2
<1>6. KnownUpTo(n)'
  BY <1>4, <1>5 DEF KnownUpTo
<1> QED
  BY <1>1, <1>2, <1>6, LevelKept

-----------------------------------------------------------------------------
\* An input never advances an engine: it knows no later wave.
LEMMA HandleInputInv ==
  ASSUME IInv, NEW e \in Engines, NEW s \in Senders, HandleInput(e, s)
  PROVE  IInv'
<1> USE DEF HandleInput
<1> PICK n \in Nat : /\ KnownUpTo(n)
                     /\ \A d \in Engines : Level(d) = n
                     /\ \A d \in Engines : engine[d].pc # "reduced" => engine[d].wave = n
  BY GroupLevel
<1> DEFINE m == Head(inputs[s][e])
<1>0. engine[e].wave = n /\ engine[e].pc = "input"
  OBVIOUS
<1>3. inputs[s][e] \in Seq(Inputs(n)) /\ m \in Inputs(n)
      /\ Tail(inputs[s][e]) \in Seq(Inputs(n))
  BY HeadTailProperties DEF KnownUpTo
<1>4. inputs' \in [Senders -> [Engines -> Seq(Inputs(n))]]
  BY <1>3 DEF KnownUpTo
<1>m. m.wave \in 0..n
  BY <1>3 DEF Inputs
<1>5. /\ request' \in [Requests -> RequestStates]
      /\ engine' \in [Engines -> EngineStates]
      /\ \A d \in Engines : engine'[d].wave = engine[d].wave /\ engine'[d].pc = engine[d].pc
                            /\ engine'[d].any = engine[d].any
      /\ reports' \in [Engines -> Seq(Reports(n))]
  <2>1. CASE ReceiveAdd(e, m)
    <3>1. engine' = engine
      BY <2>1, <1>0, <1>m DEF ReceiveAdd
    <3>2. request' \in [Requests -> RequestStates]
      BY <2>1 DEF ReceiveAdd, IInv, Types, RequestStates
    <3>3. [type |-> "start_wave", wave |-> engine[e].wave] \in Reports(n)
      BY <1>0 DEF Reports
    <3>4. reports' \in [Engines -> Seq(Reports(n))]
      BY <2>1, <3>3 DEF ReceiveAdd, KnownUpTo
    <3> QED
      BY <3>1, <3>2, <3>4 DEF IInv, Types
  <2>2. CASE ReceiveAbort(e, m)
    <3>1. request' \in [Requests -> RequestStates]
      BY <2>2 DEF ReceiveAbort, IInv, Types, RequestStates
    <3>2. engine' = engine /\ reports' = reports
      BY <2>2 DEF ReceiveAbort
    <3> QED
      BY <3>1, <3>2 DEF IInv, Types, KnownUpTo
  <2>3. CASE ReceiveStart(e, m)
    <3>0. m.wave >= engine[e].wave => m.wave = n
      BY <1>0, <1>m
    <3>1. engine' = engine \/ engine' = [engine EXCEPT ![e].wave = n, ![e].running = TRUE]
      <4> HIDE DEF m
      <4> QED
        BY <2>3, <3>0 DEF ReceiveStart
    <3>2. engine \in [Engines -> EngineStates]
      BY DEF IInv, Types
    <3> QED
      <4>1. /\ engine' \in [Engines -> EngineStates]
            /\ \A d \in Engines :
                 /\ engine'[d].wave = engine[d].wave /\ engine'[d].pc = engine[d].pc
                 /\ engine'[d].any = engine[d].any
        BY <3>1, <3>2, <1>0 DEF EngineStates
      <4> QED
        BY <2>3, <4>1 DEF ReceiveStart, IInv, Types, KnownUpTo
  <2> QED
    BY <2>1, <2>2, <2>3
<1>1. Types'
  BY <1>5 DEF IInv, Types
<1>2. \A d \in Engines : Level(d)' = n
  BY <1>5 DEF Level
<1>6. KnownUpTo(n)'
  BY <1>4, <1>5 DEF KnownUpTo
<1> QED
  BY <1>1, <1>2, <1>6, LevelKept

\* A forward pass leaves the wave as it is.
LEMMA ForwardPassInv == ASSUME IInv, NEW e \in Engines, ForwardPass(e) PROVE IInv'
<1> USE DEF ForwardPass
<1> PICK n \in Nat : /\ KnownUpTo(n)
                     /\ \A d \in Engines : Level(d) = n
  BY GroupLevel
<1> DEFINE counter == engine[e].counter + 1
<1>0. /\ engine' = [engine EXCEPT ![e].running = TRUE, ![e].counter = counter % SyncInterval,
                                  ![e].pc = AfterPass(counter)]
      /\ engine[e].pc = "input" /\ AfterPass(counter) \in {"input", "allreduce"}
      /\ engine \in [Engines -> EngineStates]
  BY DEF AfterPass, IInv, Types
<1>c. counter % SyncInterval \in Nat
  <2>1. counter \in Nat /\ SyncInterval \in Nat \ {0}
    <3>1. engine[e] \in EngineStates
      BY <1>0
    <3>2. engine[e].counter \in Nat
      BY <3>1 DEF EngineStates
    <3> HIDE DEF ForwardPass
    <3> QED
      BY <3>2, DPAssumption
  <2> HIDE DEF counter, ForwardPass
  <2> QED
    BY <2>1
<1> HIDE DEF counter
<1>1. Types'
  <2>1. engine' \in [Engines -> EngineStates]
    <3> HIDE DEF ForwardPass
    <3>1. [engine[e] EXCEPT !.running = TRUE, !.counter = counter % SyncInterval,
                            !.pc = AfterPass(counter)] \in EngineStates
      <4>1. engine[e] \in EngineStates
        BY <1>0
      <4> QED
        BY <4>1, <1>0, <1>c DEF EngineStates
    <3> QED
      BY <1>0, <3>1
  <2>2. request' \in [Requests -> RequestStates]
    <3>1. \A r \in Requests : request[r] \in RequestStates
      BY DEF IInv, Types
    <3>2. \A r \in Requests :
            [request[r] EXCEPT !.left = @ - 1,
                               !.state = IF request[r].left = 1 THEN "done" ELSE @]
              \in RequestStates
      <4> TAKE r \in Requests
      <4> HIDE DEF ForwardPass
      <4>1. request[r] \in RequestStates /\ request[r].left - 1 \in Int
        BY <3>1 DEF RequestStates
      <4>2. (IF request[r].left = 1 THEN "done" ELSE request[r].state)
              \in {"new", "sent", "running", "done"}
        BY <4>1 DEF RequestStates
      <4> QED
        BY <4>1, <4>2 DEF RequestStates
    <3> QED
      BY <3>1, <3>2
  <2> QED
    BY <2>1, <2>2 DEF IInv, Types
<1>2. \A d \in Engines : Level(d)' = n
  <2>1. \A d \in Engines :
          /\ engine'[d].wave = engine[d].wave /\ engine'[d].any = engine[d].any
          /\ engine'[d].pc = "reduced" <=> engine[d].pc = "reduced"
    <3> HIDE DEF ForwardPass
    <3> QED
      BY <1>0 DEF EngineStates
  <2> HIDE DEF ForwardPass
  <2> QED
    BY <2>1 DEF Level
<1>3. KnownUpTo(n)'
  BY DEF KnownUpTo
<1> QED
  BY <1>1, <1>2, <1>3, LevelKept

\* An all-reduce moves the whole group, in one step.
LEMMA AllReduceInv == ASSUME IInv, AllReduce PROVE IInv'
<1> USE DEF AllReduce
<1> PICK n \in Nat : /\ KnownUpTo(n)
                     /\ \A d \in Engines : engine[d].pc # "reduced" => engine[d].wave = n
  BY GroupLevel
<1> DEFINE any == \E e \in Engines : Unfinished(e) # {}
<1>0. engine \in [Engines -> EngineStates] /\ \A e \in Engines : engine[e].wave = n
  BY DEF IInv, Types
<1>1. CASE any
  <2>1. engine' = [e \in Engines |-> [engine[e] EXCEPT !.pc = "reduced", !.any = TRUE]]
    BY <1>1
  <2>2. /\ engine' \in [Engines -> EngineStates]
        /\ \A e \in Engines :
             engine'[e].wave = n /\ engine'[e].pc = "reduced" /\ engine'[e].any = TRUE
    <3> HIDE DEF AllReduce, any
    <3> QED
      BY <1>0, <2>1 DEF EngineStates
  <2>3. \A e \in Engines : Level(e)' = n
    <3> HIDE DEF AllReduce, any
    <3> QED
      BY <2>2 DEF Level
  <2> QED
    BY <2>2, <2>3, LevelKept DEF IInv, Types, KnownUpTo
<1>2. CASE ~any
  <2>1. engine' = [e \in Engines |-> [engine[e] EXCEPT !.pc = "reduced", !.any = FALSE]]
    BY <1>2
  <2>2. /\ engine' \in [Engines -> EngineStates]
        /\ \A e \in Engines :
             engine'[e].wave = n /\ engine'[e].pc = "reduced" /\ engine'[e].any = FALSE
    <3> HIDE DEF AllReduce, any
    <3> QED
      BY <1>0, <2>1 DEF EngineStates
  <2>3. \A e \in Engines : Level(e)' = n + 1
    BY <2>2 DEF Level
  <2>4. KnownUpTo(n + 1)
    <3> HIDE DEF AllReduce, any
    <3>1. n + 1 \in Nat /\ n <= n + 1
      OBVIOUS
    <3> QED
      BY <3>1, KnownLater
  <2> QED
    BY <2>2, <2>3, <2>4, LevelKept DEF IInv, Types, KnownUpTo
<1> QED
  BY <1>1, <1>2

\* An engine that pauses reaches the level it had.
LEMMA AfterAllReduceInv == ASSUME IInv, NEW e \in Engines, AfterAllReduce(e) PROVE IInv'
<1> USE DEF AfterAllReduce
<1> PICK n \in Nat : /\ KnownUpTo(n)
                     /\ \A d \in Engines : Level(d) = n
  BY GroupLevel
<1>0. /\ engine \in [Engines -> EngineStates] /\ engine[e].pc = "reduced"
      /\ engine[e].wave + (IF engine[e].any THEN 0 ELSE 1) = n
  <2>1. engine \in [Engines -> EngineStates] /\ engine[e].pc = "reduced" /\ Level(e) = n
    BY DEF IInv, Types
  <2> QED
    BY <2>1 DEF Level
<1>1. CASE engine[e].any
  <2>1. engine' = [engine EXCEPT ![e].pc = "input", ![e].any = FALSE, ![e].running = TRUE]
    BY <1>0, <1>1 DEF EngineStates
  <2>2. engine' \in [Engines -> EngineStates] /\ \A d \in Engines : Level(d)' = n
    BY <1>0, <1>1, <2>1 DEF EngineStates, Level
  <2>3. reports' = reports
    BY <1>1
  <2> QED
    BY <2>2, <2>3, LevelKept DEF IInv, Types, KnownUpTo
<1>2. CASE ~engine[e].any
  <2>0. engine[e].wave \in Nat /\ engine[e].wave + 1 = n
    BY <1>0, <1>2 DEF EngineStates
  <2>1. engine' = [engine EXCEPT ![e].pc = "input", ![e].any = FALSE, ![e].running = FALSE,
                                 ![e].wave = n]
    BY <1>0, <1>2, <2>0 DEF EngineStates, EndsWave
  <2>2. engine' \in [Engines -> EngineStates] /\ \A d \in Engines : Level(d)' = n
    BY <1>0, <1>2, <2>0, <2>1 DEF EngineStates, Level
  <2>3. reports' \in [Engines -> Seq(Reports(n))]
    <3>1. CASE e # 0
      BY <3>1 DEF KnownUpTo
    <3>2. CASE e = 0
      <4>1. [type |-> "wave_complete", wave |-> engine[0].wave] \in Reports(n)
        BY <2>0, <3>2 DEF Reports
      <4>2. reports' = [reports EXCEPT ![0] =
                          Append(@, [type |-> "wave_complete", wave |-> engine[0].wave])]
        BY <1>2, <3>2
      <4> QED
        BY <3>2, <4>1, <4>2 DEF KnownUpTo
    <3> QED
      BY <3>1, <3>2
  <2> QED
    BY <2>2, <2>3, LevelKept DEF IInv, Types, KnownUpTo
<1> QED
  BY <1>1, <1>2

-----------------------------------------------------------------------------
\* Every step keeps the inductive invariant.
LEMMA NextInv == ASSUME IInv, [Next]_vars PROVE IInv'
<1>1. CASE Next
  <2>1. CASE \E f \in Fronts, e \in Engines : AddRequest(f, e)
    BY <2>1, AddRequestInv
  <2>2. CASE \E r \in Requests : AbortRequest(r)
    BY <2>2, AbortRequestInv
  <2>3. CASE \E f \in Fronts : FrontStep(f) \/ CoordHandlesNotice(f)
    BY <2>3, NotifyInv, DrainStatsInv, CoordHandlesNoticeInv DEF FrontStep
  <2>4. CASE PublishStats
    BY <2>4, PublishStatsInv
  <2>5. CASE \E e \in Engines : CoordHandlesReport(e) \/ EngineStep(e)
    BY <2>5, CoordHandlesReportInv, ForwardPassInv, AfterAllReduceInv DEF EngineStep
  <2>6. CASE \E e \in Engines, s \in Senders : HandleInput(e, s)
    BY <2>6, HandleInputInv
  <2>7. CASE AllReduce
    BY <2>7, AllReduceInv
  <2> QED
    BY <1>1, <2>1, <2>2, <2>3, <2>4, <2>5, <2>6, <2>7 DEF Next
<1>2. CASE UNCHANGED vars
  BY <1>2 DEF vars, IInv, Types, SameLevel, Level, KnownUpTo
<1> QED
  BY <1>1, <1>2

\* Engines that meet in an all-reduce are in the same wave, and no message or
\* process is ever ahead of them, for any number of engines and front-ends.
THEOREM WavesAlwaysAgree == Spec => []WavesAgree
<1>1. Init => IInv
  BY InitInv
<1>2. IInv /\ [Next]_vars => IInv'
  BY NextInv
<1>3. IInv => WavesAgree
  <2> SUFFICES ASSUME IInv, \A e \in Engines : engine[e].pc = "allreduce"
               PROVE  \A e \in Engines : engine[e].wave = engine[0].wave
    BY DEF WavesAgree
  <2>1. PICK n \in Nat : \A e \in Engines : engine[e].pc # "reduced" => engine[e].wave = n
    BY GroupLevel
  <2>2. 0 \in Engines
    BY DPAssumption DEF Engines
  <2> QED
    BY <2>1, <2>2
<1> QED
  BY <1>1, <1>2, <1>3, PTL DEF Spec
=============================================================================
