------------------------------ MODULE Scheduler ------------------------------
(***************************************************************************)
(* The scheduler of the engine core (vllm/v1/core/sched/scheduler.py): the *)
(* waiting and running queues, schedule(), update_from_output(),           *)
(* add_request() and finish_requests(), over the KV cache manager, the     *)
(* encoder cache manager and the scheduler side of the KV connector.       *)
(*                                                                         *)
(* One iteration of a loop of schedule() or update_from_output() is one    *)
(* step; the locals of the call in progress are in `call`.  The module     *)
(* that extends this one (EngineCore, HPUModelRunner) says when the calls  *)
(* are made and what happens between them.                                 *)
(*                                                                         *)
(* The token ids of a request are known in advance (Tokens): what sampling *)
(* chooses freely is when a request stops, how many draft tokens are       *)
(* accepted and how many are proposed.  Requests are numbered in the order *)
(* of their arrival.                                                       *)
(***************************************************************************)
EXTENDS NixlConnector, EncoderCacheManager

CONSTANTS MaxTokens,              \* [Req -> Nat]: sampling_params.max_tokens
          Guided,                 \* the requests with structured output
          MaxNumScheduledTokens,  \* max_num_scheduled_tokens
          MaxNumRunningReqs,      \* max_num_running_reqs
          LongPrefillThreshold,   \* long_prefill_token_threshold
          NumSpecTokens,          \* num_spec_tokens
          Lora,                   \* [Req -> Nat]: lora_int_id, 0 for none
          MaxLoras                \* max_loras

ASSUME SchedulerAssumption ==
  /\ Req = 1..Cardinality(Req)
  /\ Guided \subseteq Req
  /\ \A r \in Req : PromptLen[r] \in 1..(MaxModelLen - 1) /\ MaxTokens[r] \in Nat \ {0}
  /\ \A r \in Req : Len(Tokens[r]) = PromptLen[r] + MaxTokens[r]
  /\ MaxNumScheduledTokens \in Nat \ {0}
  /\ MaxNumRunningReqs \in Nat \ {0}
  /\ LongPrefillThreshold \in Nat
  /\ NumSpecTokens \in Nat
  /\ Lora \in [Req -> Nat] /\ MaxLoras \in Nat \ {0}
  /\ DOMAIN EncoderInputs = Req
  /\ \A r \in Req : \A i \in DOMAIN EncoderInputs[r] : EndOf(r, i) <= PromptLen[r]

VARIABLES req,               \* [Req -> Request]
          waiting, running,  \* Seq(Req)
          finished_req_ids,  \* finished since the last schedule()
          cached_reqs_data,  \* [Req -> Nat]: the length of _cached_reqs_data[r]
          kvm,               \* kv_cache_manager
          enc,               \* encoder_cache_manager
          conn,              \* connector, and finished_recving_kv_req_ids
          grammar,           \* the guided requests whose grammar is compiled
          call               \* the call in progress

schedulerVars == <<req, waiting, running, finished_req_ids, cached_reqs_data, kvm, enc, conn,
                   grammar, call>>

Status == {"NEW", "WAITING", "WAITING_FOR_FSM", "WAITING_FOR_REMOTE_KVS", "RUNNING",
           "PREEMPTED", "FINISHED"}
Live(r) == req[r].status \notin {"NEW", "FINISHED"}

NoTokens == [r \in Req |-> 0]
num_lookahead_tokens == IF UseEagle THEN NumSpecTokens ELSE 0

\* The locals of a call: the scheduler output under construction (or the one
\* that is applied), the position in the loop, and what schedule() collects.
\* output.num_computed_tokens and output.num_tokens are those of the requests
\* when they are scheduled.
NoOutput ==
  [num_scheduled_tokens |-> NoTokens, spec |-> NoTokens,
   num_computed_tokens |-> NoTokens, num_tokens |-> NoTokens,
   new |-> << >>, resumed |-> << >>, ran |-> << >>, finished |-> {},
   new_block_ids |-> [r \in Req |-> << >>],
   encoder_inputs |-> {}, free_encoder_input_ids |-> {}, kv_meta |-> {}]
NoCall ==
  [phase |-> "idle", req_index |-> 1, token_budget |-> 0, encoder_budget |-> 0,
   preempted |-> {}, skipped |-> << >>, output |-> NoOutput, new_running |-> << >>,
   finished_recving |-> {}, finished_sending |-> {}]

SchedulerInit ==
  /\ req = [r \in Req |-> [status |-> "NEW", num_tokens |-> PromptLen[r],
                           num_computed_tokens |-> 0, spec_token_ids |-> 0]]
  /\ waiting = << >> /\ running = << >>
  /\ finished_req_ids = {}
  /\ cached_reqs_data = NoTokens
  /\ kvm = InitManager
  /\ enc = InitEncoderCache
  /\ conn = InitConnector
  /\ grammar = {}
  /\ call = NoCall

-----------------------------------------------------------------------------
\* add_request, with the status a new Request is given.
add_request(r) ==
  /\ req' = [req EXCEPT ![r].status = IF r \in Guided THEN "WAITING_FOR_FSM" ELSE "WAITING"]
  /\ waiting' = Append(waiting, r)
  /\ UNCHANGED <<running, finished_req_ids, cached_reqs_data, kvm, enc, conn, grammar, call>>

\* The grammar of a request is compiled by another thread.
GrammarCompiled(r) ==
  /\ r \in Guided \ grammar
  /\ Live(r)
  /\ grammar' = grammar \cup {r}
  /\ UNCHANGED <<req, waiting, running, finished_req_ids, cached_reqs_data, kvm, enc, conn, call>>

\* _free_blocks, and _free_request: the encoder cache entries and the cached data
\* of the request go, and its blocks unless the connector still sends them.
FreedManager_KeepsBlocks(k, r) == free_block_hashes(k, r)
FreedManager(k, r) == free_block_hashes(free(k, r), r)
free_request(r, delay_free_blocks) ==
  /\ kvm' = IF delay_free_blocks THEN kvm ELSE FreedManager(kvm, r)
  /\ enc' = free_inputs(enc, r, get_cached_input_ids(enc, r))
  /\ cached_reqs_data' = [cached_reqs_data EXCEPT ![r] = 0]
  /\ finished_req_ids' = finished_req_ids \cup {r}

\* finish_requests for one request that has not finished.  (A finished one that is
\* still known is in no list, and raises: AbortRaises of EngineCore.)
finish_requests(r) ==
  /\ Live(r)
  /\ req' = [req EXCEPT ![r].status = "FINISHED"]
  /\ IF req[r].status = "RUNNING"
     THEN running' = Without(running, r) /\ UNCHANGED waiting
     ELSE waiting' = Without(waiting, r) /\ UNCHANGED running
  /\ free_request(r, FALSE)
  /\ UNCHANGED <<conn, grammar, call>>

has_requests == waiting # << >> \/ running # << >> \/ finished_req_ids # {}

-----------------------------------------------------------------------------
\* schedule().  Locals are initialised.
BeginSchedule ==
  call' = [NoCall EXCEPT !.phase = "running", !.token_budget = MaxNumScheduledTokens,
                         !.encoder_budget = MaxNumEncoderInputTokens]

Threshold(n) ==
  IF 0 < LongPrefillThreshold /\ LongPrefillThreshold < n THEN LongPrefillThreshold ELSE n

\* The loop over the running requests.
InRunningLoop ==
  call.phase = "running" /\ call.req_index <= Len(running) /\ call.token_budget > 0
Current == running[call.req_index]
num_tokens_with_spec(r) == req[r].num_tokens + req[r].spec_token_ids
PlanOfRunning(r) ==
  try_schedule_encoder_inputs(enc, r, req[r].num_computed_tokens,
    AtMost(AtMost(Threshold(num_tokens_with_spec(r) - req[r].num_computed_tokens),
                  call.token_budget),
           MaxModelLen - req[r].num_computed_tokens),
    call.encoder_budget)
NewTokensOfRunning(r) == PlanOfRunning(r).num_new_tokens
DraftTokens(r, n) ==
  LET d == n + req[r].num_computed_tokens - req[r].num_tokens IN IF d > 0 THEN d ELSE 0
FitsRunning(r, n) ==
  CanAllocate(kvm, r, << >>,
              num_required_blocks(req[r].num_computed_tokens, n, num_lookahead_tokens))

SkipRunning ==
  /\ InRunningLoop
  /\ NewTokensOfRunning(Current) = 0
  /\ call' = [call EXCEPT !.req_index = @ + 1]
  /\ UNCHANGED <<req, waiting, running, finished_req_ids, cached_reqs_data, kvm, enc, conn,
                 grammar>>

\* What the output records of a request that is scheduled for n tokens.
Scheduled(output, r, n, computed, spec, blocks, inputs) ==
  [output EXCEPT !.num_scheduled_tokens[r] = n, !.spec[r] = spec,
                 !.num_computed_tokens[r] = computed,
                 !.encoder_inputs = @ \cup InputsOf(r, inputs),
                 !.num_tokens[r] = req[r].num_tokens,
                 !.new_block_ids[r] = blocks]

\* The request gets its slots; its spec tokens are trimmed to those scheduled.
ScheduleRunning ==
  LET r == Current
      n == NewTokensOfRunning(r)
      draft == DraftTokens(r, n)
      after == allocate_slots(kvm, r, << >>, req[r].num_computed_tokens, n, draft,
                              num_lookahead_tokens, FALSE)
      inputs == PlanOfRunning(r).inputs
      had == Len(kvm.req_to_blocks[r])
  IN /\ InRunningLoop
     /\ n # 0
     /\ FitsRunning(r, n)
     /\ kvm' = after
     /\ enc' = allocate_inputs(enc, r, inputs)
     /\ req' = [req EXCEPT ![r].spec_token_ids = IF draft > 0 THEN AtMost(@, draft) ELSE @]
     /\ call' = [call EXCEPT
                   !.req_index = @ + 1,
                   !.token_budget = @ - n,
                   !.encoder_budget = @ - TokensOfInputs(InputsOf(r, inputs)),
                   !.output = LET o == Scheduled(@, r, n, req[r].num_computed_tokens, draft,
                                                 SubSeq(after.req_to_blocks[r], had + 1,
                                                        Len(after.req_to_blocks[r])), inputs)
                              IN [o EXCEPT !.ran = Append(@, r)]]
     /\ UNCHANGED <<waiting, running, finished_req_ids, cached_reqs_data, conn, grammar>>

\* No room: the last of the running requests loses its blocks and goes to the
\* head of the waiting queue.  When it is the current request, the loop ends.
PutBack_Lost(queue, r) == queue
PutBack_AtEnd(queue, r) == Append(queue, r)
PutBack(queue, r) == <<r>> \o queue
PreemptLast ==
  LET r == Current
      last == running[Len(running)]
  IN /\ InRunningLoop
     /\ NewTokensOfRunning(r) # 0
     /\ ~FitsRunning(r, NewTokensOfRunning(r))
     /\ running' = Front(running)
     /\ kvm' = free(kvm, last)
     /\ req' = [req EXCEPT ![last].status = "PREEMPTED", ![last].num_computed_tokens = 0]
     /\ waiting' = PutBack(waiting, last)
     /\ call' = [call EXCEPT !.preempted = @ \cup {last},
                             !.phase = IF last = r THEN "finish" ELSE @]
     /\ UNCHANGED <<finished_req_ids, cached_reqs_data, enc, conn, grammar>>

\* The waiting requests are looked at only when nothing was preempted.
MayAdmit == call.preempted = {}
RunningLoopEnds ==
  /\ call.phase = "running"
  /\ ~InRunningLoop
  /\ call' = [call EXCEPT !.phase = IF MayAdmit THEN "waiting" ELSE "finish"]
  /\ UNCHANGED <<req, waiting, running, finished_req_ids, cached_reqs_data, kvm, enc, conn,
                 grammar>>

-----------------------------------------------------------------------------
\* The loop over the waiting requests.
HasRoom == Len(running) # MaxNumRunningReqs
InWaitingLoop ==
  call.phase = "waiting" /\ waiting # << >> /\ call.token_budget > 0 /\ HasRoom

WaitsForGrammar_Always(r) == req[r].status = "WAITING_FOR_FSM"
WaitsForGrammar(r) == req[r].status = "WAITING_FOR_FSM" /\ r \notin grammar
WaitsForRemote(r) ==
  req[r].status = "WAITING_FOR_REMOTE_KVS" /\ r \notin conn.finished_recving

\* At most max_loras LoRAs are used in one step.
scheduled_loras ==
  {Lora[r] : r \in {q \in Req : call.output.num_scheduled_tokens[q] > 0}} \ {0}
ExceedsLoras_Never(r) == FALSE
ExceedsLoras(r) ==
  /\ Lora[r] # 0
  /\ Cardinality(scheduled_loras) = MaxLoras
  /\ Lora[r] \notin scheduled_loras

\* A request that received its blocks gets them hashed, and is WAITING again,
\* before it is looked at further; so is one whose grammar is compiled.
Received(r) == req[r].status = "WAITING_FOR_REMOTE_KVS"
ManagerAtHead(r) ==
  IF Received(r) THEN cache_blocks(kvm, r, remote_computed_tokens(kvm, r, req[r].num_tokens))
  ELSE kvm
ComputedAtHead(r) ==
  IF Received(r) THEN remote_computed_tokens(kvm, r, req[r].num_tokens)
  ELSE req[r].num_computed_tokens
StatusAtHead(r) ==
  IF req[r].status \in {"WAITING_FOR_FSM", "WAITING_FOR_REMOTE_KVS"} THEN "WAITING"
  ELSE req[r].status
ConnectorAtHead(r) == [conn EXCEPT !.finished_recving = IF Received(r) THEN @ \ {r} ELSE @]
ReqAtHead(r) ==
  [req EXCEPT ![r].status = StatusAtHead(r), ![r].num_computed_tokens = ComputedAtHead(r)]

\* The request at the head is skipped, to be put back at the end.
SkipWaiting ==
  LET r == Head(waiting) IN
  /\ InWaitingLoop
  /\ WaitsForRemote(r) \/ WaitsForGrammar(r)
  /\ waiting' = Tail(waiting)
  /\ call' = [call EXCEPT !.skipped = <<r>> \o @]
  /\ UNCHANGED <<req, running, finished_req_ids, cached_reqs_data, kvm, enc, conn, grammar>>
SkipLora ==
  LET r == Head(waiting) IN
  /\ InWaitingLoop
  /\ ~WaitsForRemote(r) /\ ~WaitsForGrammar(r) /\ ExceedsLoras(r)
  /\ waiting' = Tail(waiting)
  /\ call' = [call EXCEPT !.skipped = <<r>> \o @]
  /\ kvm' = ManagerAtHead(r) /\ conn' = ConnectorAtHead(r) /\ req' = ReqAtHead(r)
  /\ UNCHANGED <<running, finished_req_ids, cached_reqs_data, enc, grammar>>

\* The lookup of the request at the head, unless it has received its blocks; what
\* the connector adds; and the tokens and encoder inputs to schedule for it.
Lookup(r) ==
  IF ComputedAtHead(r) = 0 THEN get_computed_blocks(ManagerAtHead(r), r, req[r].num_tokens)
  ELSE [kvm |-> ManagerAtHead(r), hits |-> << >>]
LocalComputed(r) == ComputedAtHead(r) + BlockSize * Len(Lookup(r).hits)
ExternalComputed(r) ==
  IF ComputedAtHead(r) = 0 THEN num_external_computed_tokens(conn, r, LocalComputed(r)) ELSE 0
load_kv_async(r) == ExternalComputed(r) > 0
TokensOfWaiting(r) ==
  AtMost(Threshold(req[r].num_tokens - LocalComputed(r)), call.token_budget)
PlanOfWaiting(r) ==
  try_schedule_encoder_inputs(enc, r, LocalComputed(r), TokensOfWaiting(r), call.encoder_budget)
NewTokensOfWaiting(r) ==
  IF load_kv_async(r) THEN ExternalComputed(r) ELSE PlanOfWaiting(r).num_new_tokens
FitsWaiting(r) ==
  /\ NewTokensOfWaiting(r) > 0
  /\ CanAllocate(Lookup(r).kvm, r, Lookup(r).hits,
                 num_required_blocks(LocalComputed(r), NewTokensOfWaiting(r),
                                     num_lookahead_tokens))
AllocatedWaiting(r) ==
  allocate_slots(Lookup(r).kvm, r, Lookup(r).hits, LocalComputed(r), NewTokensOfWaiting(r), 0,
                 num_lookahead_tokens, load_kv_async(r))

\* The lookup raises an exception: the engine core dies, and takes no more steps.
LookupFails(r) ==
  ComputedAtHead(r) = 0 /\ LookupRaises(ManagerAtHead(r), r, req[r].num_tokens)
ConsidersHead ==
  /\ InWaitingLoop
  /\ ~WaitsForRemote(Head(waiting)) /\ ~WaitsForGrammar(Head(waiting))
  /\ ~ExceedsLoras(Head(waiting))
LookupOfHeadRaises == ConsidersHead /\ LookupFails(Head(waiting))
LooksUpHead == ConsidersHead /\ ~LookupFails(Head(waiting))

ScheduleWaiting ==
  LET r == Head(waiting)
      n == NewTokensOfWaiting(r)
      inputs == PlanOfWaiting(r).inputs
      after == AllocatedWaiting(r)
  IN /\ LooksUpHead
     /\ FitsWaiting(r)
     /\ ~load_kv_async(r)
     /\ kvm' = after
     /\ enc' = allocate_inputs(enc, r, inputs)
     /\ conn' = update_state_after_alloc(ConnectorAtHead(r), r, {})
     /\ waiting' = Tail(waiting)
     /\ running' = Append(running, r)
     /\ req' = [req EXCEPT ![r].status = "RUNNING",
                           ![r].num_computed_tokens = LocalComputed(r)]
     /\ call' = [call EXCEPT
                   !.token_budget = @ - n,
                   !.encoder_budget = @ - TokensOfInputs(InputsOf(r, inputs)),
                   !.output = LET o == Scheduled(@, r, n, LocalComputed(r), 0,
                                                 after.req_to_blocks[r], inputs)
                              IN IF StatusAtHead(r) = "PREEMPTED"
                                 THEN [o EXCEPT !.resumed = Append(@, r)]
                                 ELSE [o EXCEPT !.new = Append(@, r)]]
     /\ UNCHANGED <<finished_req_ids, cached_reqs_data, grammar>>

\* The blocks of the prompt are fetched from another engine; the request waits for
\* them with its blocks allocated, among the skipped requests.
LoadRemote ==
  LET r == Head(waiting)
      after == AllocatedWaiting(r)
      unhashed == {b \in Members(after.req_to_blocks[r]) : after.pool.block_hash[b] = NoHash}
  IN /\ LooksUpHead
     /\ FitsWaiting(r)
     /\ load_kv_async(r)
     /\ kvm' = after
     /\ conn' = update_state_after_alloc(conn, r, unhashed)
     /\ waiting' = Tail(waiting)
     /\ call' = [call EXCEPT !.skipped = <<r>> \o @]
     /\ req' = [req EXCEPT ![r].status = "WAITING_FOR_REMOTE_KVS"]
     /\ UNCHANGED <<running, finished_req_ids, cached_reqs_data, enc, grammar>>

\* The loop ends at the first request that does not fit, or has an encoder input
\* that does not; what was done for it at the head, and its memoised block hashes,
\* stay.
StopAtWaiting ==
  LET r == Head(waiting) IN
  /\ LooksUpHead
  /\ ~FitsWaiting(r)
  /\ kvm' = Lookup(r).kvm /\ conn' = ConnectorAtHead(r) /\ req' = ReqAtHead(r)
  /\ call' = [call EXCEPT !.phase = "finish"]
  /\ UNCHANGED <<waiting, running, finished_req_ids, cached_reqs_data, enc, grammar>>

WaitingLoopEnds ==
  /\ call.phase = "waiting"
  /\ ~InWaitingLoop
  /\ call' = [call EXCEPT !.phase = "finish"]
  /\ UNCHANGED <<req, waiting, running, finished_req_ids, cached_reqs_data, kvm, enc, conn,
                 grammar>>

\* waiting.extendleft(skipped_waiting_requests)
ExtendLeft(queue, skipped) == Reverse(skipped) \o queue

\* The end of schedule(): the output takes the finished requests, the freed encoder
\* inputs and the transfers to start, cached request data is taken from its queues,
\* and the computed tokens are advanced.
ScheduledCached(output) == Members(output.resumed) \cup Members(output.ran)
OutputOfCall ==
  [call.output EXCEPT !.finished = finished_req_ids, !.free_encoder_input_ids = enc.freed,
                      !.kv_meta = conn.reqs_need_recv]
EndSchedule ==
  /\ call.phase = "finish"
  /\ waiting' = ExtendLeft(waiting, call.skipped)
  /\ cached_reqs_data' = [r \in Req |->
        IF r \in ScheduledCached(call.output) /\ cached_reqs_data[r] > 0
        THEN cached_reqs_data[r] - 1 ELSE cached_reqs_data[r]]
  /\ req' = [r \in Req |-> [req[r] EXCEPT
                 !.num_computed_tokens = @ + call.output.num_scheduled_tokens[r]]]
  /\ finished_req_ids' = {}
  /\ enc' = [enc EXCEPT !.freed = {}]
  /\ conn' = [conn EXCEPT !.reqs_need_recv = {}]
  /\ UNCHANGED <<running, kvm, grammar>>

total_num_scheduled_tokens(output) ==
  FoldFunction(LAMBDA a, b : a + b, 0, output.num_scheduled_tokens)

-----------------------------------------------------------------------------
\* update_from_output(output, the model's answer).  A request is sampled for
\* when its last known token was among those scheduled; the model then answers
\* with the accepted draft tokens and one more.
BeginUpdate(output) == [NoCall EXCEPT !.phase = "update", !.output = output]

Samples_Early(output, r) ==
  output.num_computed_tokens[r] + output.num_scheduled_tokens[r] + 1 >= output.num_tokens[r]
Samples(output, r) ==
  output.num_computed_tokens[r] + output.num_scheduled_tokens[r] >= output.num_tokens[r]
Generated(output, r) == IF Samples(output, r) THEN 1..(1 + output.spec[r]) ELSE {0}

InUpdateLoop == call.phase = "update" /\ call.req_index <= Len(running)

KeepUnscheduled ==
  /\ InUpdateLoop
  /\ call.output.num_scheduled_tokens[Current] = 0
  /\ call' = [call EXCEPT !.req_index = @ + 1, !.new_running = Append(@, Current)]
  /\ UNCHANGED <<req, waiting, running, finished_req_ids, cached_reqs_data, kvm, enc, conn,
                 grammar>>

\* The rejected draft tokens are taken back.
Rejected_OffByOne(output, r, generated) ==
  IF output.spec[r] > 0 THEN output.spec[r] - generated ELSE 0
Rejected(output, r, generated) ==
  IF output.spec[r] > 0 THEN output.spec[r] + 1 - generated ELSE 0
\* check_stop, for the lengths: max_model_len and max_tokens.
LengthCap(r) == AtMost(MaxModelLen, PromptLen[r] + MaxTokens[r])
ReachesCap_Late(r, num_tokens) == num_tokens > LengthCap(r)
ReachesCap(r, num_tokens) == num_tokens >= LengthCap(r)

\* The encoder outputs that lie before the computed tokens are given up.
Processed(r, computed) == {i \in get_cached_input_ids(enc, r) : EndOf(r, i) <= computed}

\* The request goes on: all generated tokens are appended, and the runner's new
\* draft tokens replace the old ones.
ComputedAfter(r, generated) ==
  req[r].num_computed_tokens - Rejected(call.output, r, generated)
UpdateContinues(r, generated, drafts) ==
  /\ ~ReachesCap(r, req[r].num_tokens + generated)
  /\ drafts > 0 => generated > 0
  /\ req' = [req EXCEPT ![r].num_tokens = @ + generated,
                        ![r].num_computed_tokens = ComputedAfter(r, generated),
                        ![r].spec_token_ids = drafts]
  /\ enc' = free_inputs(enc, r, Processed(r, ComputedAfter(r, generated)))
  /\ call' = [call EXCEPT !.req_index = @ + 1, !.new_running = Append(@, r)]
  /\ UNCHANGED <<waiting, running, finished_req_ids, cached_reqs_data, kvm, conn, grammar>>

\* The request stops at one of the generated tokens (a stop token, or the length).
UpdateStops(r, generated) ==
  /\ \E n \in 1..generated :
       /\ ~ReachesCap(r, req[r].num_tokens + n - 1)
       /\ req' = [req EXCEPT ![r].status = "FINISHED", ![r].num_tokens = @ + n,
                             ![r].num_computed_tokens = ComputedAfter(r, generated)]
       /\ free_request(r, request_finished(kvm, r, ReachesCap(r, req[r].num_tokens + n),
                                           ComputedAfter(r, generated)))
  /\ call' = [call EXCEPT !.req_index = @ + 1]
  /\ UNCHANGED <<waiting, running, conn, grammar>>

UpdateScheduled ==
  /\ InUpdateLoop
  /\ call.output.num_scheduled_tokens[Current] > 0
  /\ \E generated \in Generated(call.output, Current) :
       \/ \E drafts \in 0..NumSpecTokens : UpdateContinues(Current, generated, drafts)
       \/ UpdateStops(Current, generated)

\* _update_from_kv_xfer_finished: blocks that were sent are freed.  Then cached
\* request data goes back to its queue, and running is replaced.
FreedManagers(k, sent) == FoldSet(LAMBDA r, m : FreedManager(m, r), k, sent)
ReturnsData_Always(r) == TRUE
ReturnsData(r) == r \notin finished_req_ids
EndUpdate ==
  /\ call.phase = "update"
  /\ ~InUpdateLoop
  /\ conn' = [conn EXCEPT !.finished_recving = @ \cup call.finished_recving]
  /\ kvm' = FreedManagers(kvm, call.finished_sending)
  /\ running' = call.new_running
  /\ cached_reqs_data' = [r \in Req |->
        IF r \in ScheduledCached(call.output) /\ ReturnsData(r)
        THEN cached_reqs_data[r] + 1 ELSE cached_reqs_data[r]]
  /\ call' = NoCall
  /\ UNCHANGED <<req, waiting, finished_req_ids, enc, grammar>>

\* The steps of schedule() up to its end, and those of update_from_output().
ScheduleSteps ==
  \/ SkipRunning \/ ScheduleRunning \/ PreemptLast \/ RunningLoopEnds
  \/ SkipWaiting \/ SkipLora \/ ScheduleWaiting \/ LoadRemote \/ StopAtWaiting
  \/ WaitingLoopEnds
UpdateSteps == KeepUnscheduled \/ UpdateScheduled \/ EndUpdate
=============================================================================
