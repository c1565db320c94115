----------------------------- MODULE EngineCore -----------------------------
(***************************************************************************)
(* The busy loop of the engine core (vllm/v1/engine/core.py) around the    *)
(* scheduler.  Between two steps it handles any number of client messages  *)
(* (add a request, abort one).  A step is step() when the executor runs    *)
(* one batch at a time, and step_with_batch_queue() when it runs several   *)
(* (pipeline parallelism): batches are then in flight while requests       *)
(* arrive, are aborted, preempted and scheduled again.                     *)
(*                                                                         *)
(* Of the workers the module has what scheduler outputs tell them          *)
(* (vllm/v1/worker/gpu_model_runner.py): the requests they know, the       *)
(* encoder outputs they keep, and the KV transfers they run.               *)
(***************************************************************************)
EXTENDS Scheduler

CONSTANT MaxConcurrentBatches      \* model_executor.max_concurrent_batches

\* KV connectors are modelled for the synchronous engine only.
ASSUME EngineAssumption ==
  /\ MaxConcurrentBatches \in Nat \ {0}
  /\ MaxConcurrentBatches > 1 => RemotePrefill \cup RemoteDecode = {}

VARIABLES batch_queue,           \* Seq(scheduler outputs), in flight
          worker,                \* [requests, encoder_cache, transfers]
          failed                 \* an exception of an abort has ended the process

engineVars == <<schedulerVars, batch_queue, worker>>
vars == <<engineVars, failed>>

Init ==
  /\ SchedulerInit
  /\ batch_queue = << >>
  /\ worker = [requests |-> {}, encoder_cache |-> {}, transfers |-> InitTransfers]
  /\ failed = FALSE

-----------------------------------------------------------------------------
\* _update_states and _execute_mm_encoder: finished requests and freed encoder
\* outputs are forgotten, then new requests and encoder outputs are added.
UpdatedWorker_KeepsFreed(w, o) ==
  [w EXCEPT !.requests = (@ \ o.finished) \cup Members(o.new),
            !.encoder_cache = {p \in @ : p[1] \notin o.finished} \cup o.encoder_inputs]
UpdatedWorker(w, o) ==
  [w EXCEPT !.requests = (@ \ o.finished) \cup Members(o.new),
            !.encoder_cache = ({p \in @ : p[1] \notin o.finished} \ o.free_encoder_input_ids)
                                \cup o.encoder_inputs]

-----------------------------------------------------------------------------
\* Client messages, handled between steps.
AddRequest(r) ==
  /\ call.phase = "idle" /\ ~failed
  /\ req[r].status = "NEW"
  /\ \A q \in Req : q < r => req[q].status # "NEW"
  /\ add_request(r)
  /\ UNCHANGED <<batch_queue, worker, failed>>

AbortRequest(r) ==
  /\ call.phase = "idle" /\ ~failed
  /\ finish_requests(r)
  /\ UNCHANGED <<batch_queue, worker, failed>>

\* A finished request whose blocks wait to be read by another engine.
Sending(r) == req[r].status = "FINISHED" /\ kvm.req_to_blocks[r] # << >>

\* A client that has not seen the end of a request yet aborts it while its blocks are
\* being sent: it is in self.requests and in no list, waiting.remove raises, and the
\* exception ends the engine core.
AbortRaises(r) ==
  /\ call.phase = "idle" /\ ~failed
  /\ Sending(r)
  /\ failed' = TRUE
  /\ UNCHANGED engineVars

\* reset_prefix_cache, which does nothing while a request holds a block; the
\* memoised hashes of the requests stay.
ResetPrefixCache ==
  /\ call.phase = "idle" /\ ~failed
  /\ CanReset(kvm.pool)
  /\ kvm' = [kvm EXCEPT !.pool = reset_prefix_cache(@)]
  /\ UNCHANGED <<req, waiting, running, finished_req_ids, cached_reqs_data, enc, conn, grammar,
                 call, batch_queue, worker, failed>>

CompileGrammar(r) == ~failed /\ GrammarCompiled(r) /\ UNCHANGED <<batch_queue, worker, failed>>

\* KV transfers go on beside the engine.
TransferArrives(k, r) ==
  /\ ~failed
  /\ <<k, r>> \in worker.transfers.recving \ worker.transfers.arrived
  /\ worker' = [worker EXCEPT !.transfers = TransferArrived(@, k, r)]
  /\ UNCHANGED <<schedulerVars, batch_queue, failed>>
TransferIsRead(k, r) ==
  /\ ~failed
  /\ Sending(r)
  /\ <<k, r>> \notin worker.transfers.read
  /\ worker' = [worker EXCEPT !.transfers = TransferRead(@, k, r)]
  /\ UNCHANGED <<schedulerVars, batch_queue, failed>>

\* step_fn begins with schedule(); a full batch queue is drained first.
BatchQueueFull ==
  MaxConcurrentBatches > 1 /\ Len(batch_queue) = MaxConcurrentBatches
StepSchedules ==
  /\ call.phase = "idle" /\ ~failed
  /\ has_requests
  /\ ~BatchQueueFull
  /\ BeginSchedule
  /\ UNCHANGED <<req, waiting, running, finished_req_ids, cached_reqs_data, kvm, enc, conn,
                 grammar, batch_queue, worker, failed>>
StepDrains ==
  /\ call.phase = "idle" /\ ~failed
  /\ has_requests
  /\ BatchQueueFull
  /\ call' = BeginUpdate(Head(batch_queue))
  /\ batch_queue' = Tail(batch_queue)
  /\ UNCHANGED <<req, waiting, running, finished_req_ids, cached_reqs_data, kvm, enc, conn,
                 grammar, worker, failed>>

\* The scheduler output is executed at once, or queued; an empty one makes the
\* oldest batch in flight be waited for.
StepDispatches ==
  /\ EndSchedule
  /\ IF MaxConcurrentBatches = 1
     THEN /\ call' = [NoCall EXCEPT !.phase = "execute", !.output = OutputOfCall]
          /\ UNCHANGED <<batch_queue, worker>>
     ELSE IF total_num_scheduled_tokens(call.output) > 0
     THEN /\ batch_queue' = Append(batch_queue, OutputOfCall)
          /\ worker' = UpdatedWorker(worker, OutputOfCall)
          /\ call' = NoCall
     ELSE IF batch_queue # << >>
     THEN /\ call' = BeginUpdate(Head(batch_queue))
          /\ batch_queue' = Tail(batch_queue)
          /\ UNCHANGED worker
     ELSE /\ call' = NoCall
          /\ UNCHANGED <<batch_queue, worker>>
  /\ UNCHANGED failed

\* execute_model of step(): the workers take the output, start its transfers and
\* return, with the answer, the transfers that are complete on all ranks.
ExecuteModel ==
  LET done == get_finished(start_load_kv(worker.transfers, call.output.kv_meta)) IN
  /\ call.phase = "execute"
  /\ worker' = [UpdatedWorker(worker, call.output) EXCEPT !.transfers = done.transfers]
  /\ call' = [BeginUpdate(call.output) EXCEPT !.finished_recving = done.recving,
                                              !.finished_sending = done.sending]
  /\ UNCHANGED <<req, waiting, running, finished_req_ids, cached_reqs_data, kvm, enc, conn,
                 grammar, batch_queue, failed>>

EngineStep ==
  \/ StepSchedules \/ StepDrains \/ StepDispatches \/ ExecuteModel
  \/ (ScheduleSteps /\ UNCHANGED <<batch_queue, worker, failed>>)
  \/ (UpdateSteps /\ UNCHANGED <<batch_queue, worker, failed>>)

\* What goes on until an exception ends the engine core, and with it its workers.
Steps ==
  \/ \E r \in Req : AddRequest(r) \/ AbortRequest(r) \/ CompileGrammar(r)
  \/ \E k \in Ranks, r \in Req : TransferArrives(k, r) \/ TransferIsRead(k, r)
  \/ ResetPrefixCache
  \/ EngineStep

Next == Steps \/ \E r \in Req : AbortRaises(r)

\* The busy loop keeps stepping while there are requests, the executor answers,
\* grammars compile and transfers complete in the end; clients owe nothing.
\* EngineStep is enabled exactly in the states of EngineActive, and no other action
\* changes `call`, so the first conjunct is weak fairness of EngineStep.
EngineActive == ~failed /\ (call.phase # "idle" \/ has_requests) /\ ~LookupOfHeadRaises
Fairness ==
  /\ <>[]EngineActive => []<><<EngineActive>>_call
  /\ \A r \in Req : WF_vars(CompileGrammar(r))
  /\ \A k \in Ranks, r \in Req :
       WF_vars(TransferArrives(k, r)) /\ WF_vars(TransferIsRead(k, r))

Spec == Init /\ [][Next]_vars /\ Fairness

-----------------------------------------------------------------------------
\* The types of the scheduler's and the engine's state; no request outgrows its
\* length.
TypeOK ==
  /\ req \in [Req -> [status : Status, num_tokens : Nat, num_computed_tokens : Nat,
                      spec_token_ids : 0..NumSpecTokens]]
  /\ \A r \in Req : req[r].num_tokens <= LengthCap(r)
  /\ waiting \in Seq(Req) /\ running \in Seq(Req)
  /\ finished_req_ids \subseteq Req /\ grammar \subseteq Guided
  /\ cached_reqs_data \in [Req -> Nat]
  /\ kvm.req_to_blocks \in [Req -> Seq(Blocks)]
  /\ kvm.num_cached_block \in [Req -> Nat]
  /\ call.phase \in {"idle", "running", "waiting", "finish", "execute", "update"}
  /\ Len(batch_queue) <= MaxConcurrentBatches
  /\ failed \in BOOLEAN

\* Every request that has arrived and not finished is in exactly one place - the
\* running list, the waiting queue or the local deque of skipped requests - and the
\* place fits its status; a finished request is in none.  schedule() and
\* finish_requests() move requests by popping from one list and adding to another.
\* An unfinished request is where finish_requests looks for it; a finished one that
\* is still in self.requests is not (AbortRaises).
Queued == waiting \o call.skipped
LiveRunning ==
  IF call.phase = "update"
  THEN call.new_running \o SubSeq(running, call.req_index, Len(running))
  ELSE running
OnePlace ==
  /\ IsInjective(LiveRunning \o Queued)
  /\ Members(LiveRunning) = {r \in Req : req[r].status = "RUNNING"}
  /\ Members(Queued) = {r \in Req : Live(r) /\ req[r].status # "RUNNING"}

\* First come, first served: the requests that never are skipped - those without
\* structured output, LoRA or remote blocks - stand in the order of their arrival
\* along the running list and then the waiting queue, whatever was preempted,
\* skipped, aborted or resumed.
MaySkip == Guided \cup RemotePrefill \cup {r \in Req : Lora[r] # 0}
Line == LiveRunning \o Reverse(call.skipped) \o waiting
FirstComeFirstServed ==
  \A i, j \in DOMAIN Line :
    (i < j /\ Line[i] \notin MaySkip /\ Line[j] \notin MaySkip) => Line[i] < Line[j]

\* The assertions of schedule(): the token budget is kept, no more requests run
\* than allowed and no more LoRAs are used; and only running requests are
\* scheduled, so none that was preempted by the same call.
ScheduleWithinLimits ==
  call.phase \in {"running", "waiting", "finish"} =>
    /\ total_num_scheduled_tokens(call.output) + call.token_budget = MaxNumScheduledTokens
    /\ call.token_budget >= 0
    /\ Len(running) <= MaxNumRunningReqs
    /\ \A r \in Req : call.output.num_scheduled_tokens[r] > 0 => req[r].status = "RUNNING"
    /\ Cardinality(scheduled_loras) <= MaxLoras

\* Only running requests, those that receive blocks or have received them, and those
\* whose blocks wait to be read hold blocks; the reference count of a block is the
\* number of its holders, and it is in the free queue exactly when that is 0.
BlocksOf(r) == Members(kvm.req_to_blocks[r])
OwnershipExact ==
  /\ \A r \in Req : kvm.req_to_blocks[r] # << >> =>
       \/ req[r].status = "RUNNING"
       \/ r \in RemotePrefill /\ req[r].status \in {"WAITING", "WAITING_FOR_REMOTE_KVS"}
       \/ r \in RemoteDecode /\ req[r].status = "FINISHED"
  /\ \A b \in Blocks \ {NullBlock} :
       /\ kvm.pool.ref_cnt[b] = Cardinality({r \in Req : b \in BlocksOf(r)})
       /\ b \in Members(kvm.pool.free_block_queue) <=> kvm.pool.ref_cnt[b] = 0
  /\ IsInjective(kvm.pool.free_block_queue)

\* Every token a running request has computed, or is computing in a batch in
\* flight, lies in a block the request holds.
ComputedTokensHaveSlots ==
  \A r \in Req : req[r].status = "RUNNING" =>
    req[r].num_computed_tokens <= BlockSize * Len(kvm.req_to_blocks[r])

\* Two requests share a block only where their tokens agree up to the end of
\* that block, and a block that carries a hash holds the tokens of that hash:
\* prefix caching, eviction, preemption and reuse never mix up contents.
SharedBlocksAgree ==
  \A r \in Req : \A i \in DOMAIN kvm.req_to_blocks[r] :
    LET b == kvm.req_to_blocks[r][i] IN
    /\ kvm.pool.block_hash[b] # NoHash => kvm.pool.block_hash[b] = block_hash_of(r, i)
    /\ \A q \in Req \ {r} : b \in BlocksOf(q) =>
         /\ i <= Len(kvm.req_to_blocks[q]) /\ kvm.req_to_blocks[q][i] = b
         /\ block_hash_of(q, i) = block_hash_of(r, i)

\* get_num_common_prefix_blocks counts blocks whose reference count is the
\* number of running requests; at the end of schedule() these are a common
\* prefix of the block lists of all of them, as cascade attention needs.
num_common_prefix_blocks_AllHeld ==
  LET blocks == kvm.req_to_blocks[running[1]]
  IN CHOOSE n \in 0..Len(blocks) :
       /\ \A i \in 1..n : kvm.pool.ref_cnt[blocks[i]] > 0
       /\ n < Len(blocks) => kvm.pool.ref_cnt[blocks[n + 1]] = 0
num_common_prefix_blocks ==
  LET blocks == kvm.req_to_blocks[running[1]]
  IN CHOOSE n \in 0..Len(blocks) :
       /\ \A i \in 1..n : kvm.pool.ref_cnt[blocks[i]] = Len(running)
       /\ n < Len(blocks) => kvm.pool.ref_cnt[blocks[n + 1]] # Len(running)
CommonPrefixIsCommon ==
  call.phase = "finish" /\ running # << >> =>
    \A r \in Members(running) :
      SubSeq(kvm.req_to_blocks[r], 1, num_common_prefix_blocks)
        = SubSeq(kvm.req_to_blocks[running[1]], 1, num_common_prefix_blocks)

\* An answer with tokens is applied to the state it was computed for: the request has
\* the tokens and the computed tokens it was scheduled with, so it is not being
\* prefilled again ("if a request is still being prefilled, we expect the model runner
\* to return empty token ids for the request"), although it may have been preempted
\* while the batch was in flight.  (With two batches the answer to a preempted request
\* has been dropped before the request is scheduled again; with three it has not.)
AnswersAreCurrent ==
  InUpdateLoop /\ call.output.num_scheduled_tokens[Current] > 0 /\ Samples(call.output, Current)
    => /\ req[Current].num_tokens = call.output.num_tokens[Current]
       /\ req[Current].num_computed_tokens
            = call.output.num_computed_tokens[Current] + call.output.num_scheduled_tokens[Current]

\* _cached_reqs_data keeps nothing for a finished request ("adding stopped reqs
\* to _cached_reqs_data will cause a memory leak").
NoCachedDataLeak == \A r \in Req : req[r].status = "FINISHED" => cached_reqs_data[r] = 0

\* schedule() does not raise at a waiting request: the prefix cache lookup never
\* indexes past the memoised block hashes, and after local hits, received blocks or
\* preemption there is a token left to compute (the assertion num_new_tokens > 0).
ScheduleNeverRaises ==
  /\ ~LookupOfHeadRaises
  /\ LooksUpHead /\ ~load_kv_async(Head(waiting)) => TokensOfWaiting(Head(waiting)) > 0

\* What the workers keep is what the scheduler counts on.  The requests they know
\* are alive, or their end is still to be told ("this is used to notify the workers
\* about the finished requests so that they can free the cached states"); and when
\* an output is handed over, their encoder cache is the scheduler's set of cached
\* inputs, which with the free slots fills the encoder cache.
WorkersAgree ==
  /\ \A r \in worker.requests : Live(r) \/ r \in finished_req_ids \cup call.output.finished
  /\ call.phase = "finish" =>
       /\ UpdatedWorker(worker, OutputOfCall).encoder_cache = enc.cached
       /\ enc.num_free_slots + TokensOfInputs(enc.cached) = EncoderCacheSize
       /\ enc.num_free_slots >= 0

\* Every encoder output that the scheduled tokens overlap is at the workers, across
\* chunks, preemption and batches in flight: the assertions of
\* _gather_mm_embeddings.
EncoderOutputPresent ==
  call.phase = "finish" =>
    \A r \in Req : \A i \in DOMAIN EncoderInputs[r] :
      Needs(r, i, OutputOfCall.num_computed_tokens[r], OutputOfCall.num_scheduled_tokens[r])
        => <<r, i>> \in UpdatedWorker(worker, OutputOfCall).encoder_cache

\* Blocks that a transfer is writing for a request that was not aborted belong to
\* that request alone, it waits for them, and no lookup finds them: the loads of the
\* ranks, and the blocks' hashes, are completed in steps apart.  (An abort does not
\* stop the transfer, and frees its blocks.)
TransfersWriteOwnBlocks ==
  \A r \in Req : req[r].status # "FINISHED"
                   /\ (\E k \in Ranks : <<k, r>> \in worker.transfers.recving) =>
    /\ req[r].status = "WAITING_FOR_REMOTE_KVS"
    /\ worker.transfers.target[r] \subseteq BlocksOf(r)
    /\ \A b \in worker.transfers.target[r] :
         kvm.pool.ref_cnt[b] = 1 /\ kvm.pool.block_hash[b] = NoHash

\* "True if the request is being saved/sent asynchronously and blocks should not be
\* freed until the request_id is returned from get_finished()": the blocks of a
\* request that stopped at its length stay until every rank was read.
SentBlocksStay ==
  \A r \in RemoteDecode :
    req[r].status = "FINISHED" /\ ReachesCap(r, req[r].num_tokens) /\ ~Sending(r)
      => \A k \in Ranks : <<k, r>> \in worker.transfers.read

\* Each request that arrives finishes, although it may be preempted, skipped
\* and overtaken, unless the abort of a request that is being sent ends the engine.
EveryRequestFinishes ==
  \A r \in Req : (req[r].status # "NEW") ~> (req[r].status = "FINISHED" \/ failed)
=============================================================================
