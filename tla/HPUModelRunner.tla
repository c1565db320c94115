--------------------------- MODULE HPUModelRunner ---------------------------
(***************************************************************************)
(* The HPU model runner (vllm/v1/worker/hpu_model_runner.py) under the     *)
(* synchronous engine core: its own copy of the state of each request, the *)
(* persistent batch, and the forward passes of execute_model: one pass per *)
(* prompt, then one for all decodes.                                       *)
(*                                                                         *)
(* A slot of the KV cache holds the sequence of tokens it was computed     *)
(* from, so that reading a slot that was never written, or was written for *)
(* other tokens, can be told.  The rows of the persistent batch move with  *)
(* their request (condense, swap_states copy all columns): a row is kept   *)
(* by request, and only the order of the requests is kept by index.        *)
(***************************************************************************)
EXTENDS EngineCore

VARIABLES requests,    \* [Req -> CachedRequestState]: what the runner knows
          req_ids,     \* input_batch.req_ids
          row,         \* input_batch.block_table, [Req -> Seq(Blocks)]
          kv_caches,   \* [Blocks -> [1..BlockSize -> Seq(token)]]
          passes       \* the forward passes still to run, each a Seq(Req)

runnerVars == <<requests, req_ids, row, kv_caches, passes>>

Forgotten == [known |-> FALSE, block_ids |-> << >>, num_computed_tokens |-> 0,
              output_token_ids |-> 0]

RunnerInit ==
  /\ Init
  /\ requests = [r \in Req |-> Forgotten]
  /\ req_ids = << >>
  /\ row = [r \in Req |-> << >>]
  /\ kv_caches = [b \in Blocks |-> [i \in 1..BlockSize |-> << >>]]
  /\ passes = << >>

-----------------------------------------------------------------------------
\* _update_states, the cached states.  block_ids has one list per KV cache group;
\* for a request that goes on, the lists of the new blocks are added as further
\* groups, so that the first stays as it was.
IsScheduled(o, r) == o.num_scheduled_tokens[r] > 0
ExtendBlockIds(block_ids, new) == Append(block_ids, new)
ReplaceBlockIds_Extends(block_ids, new) == Append(block_ids, new)
ReplaceBlockIds(block_ids, new) == <<new>>

\* The tokens the runner has not seen: those of the scheduled range that are not
\* drafts, beyond what it has.
MissingTokens(o, r) ==
  LET n == o.num_computed_tokens[r] + o.num_scheduled_tokens[r]
             - (PromptLen[r] + requests[r].output_token_ids)
  IN IF n > 0 THEN n ELSE 0

UpdatedState(o, r) ==
  LET seen == [requests[r] EXCEPT !.num_computed_tokens = o.num_computed_tokens[r],
                                  !.output_token_ids = @ + MissingTokens(o, r)]
  IN CASE r \in Members(o.new) ->
            [known |-> TRUE, block_ids |-> <<o.new_block_ids[r]>>,
             num_computed_tokens |-> o.num_computed_tokens[r], output_token_ids |-> 0]
       [] r \in Members(o.resumed) ->
            [seen EXCEPT !.block_ids = ReplaceBlockIds(@, o.new_block_ids[r])]
       [] r \in Members(o.ran) ->
            [seen EXCEPT !.block_ids = ExtendBlockIds(@, o.new_block_ids[r])]
       [] r \in o.finished -> Forgotten
       [] OTHER -> requests[r]

\* _update_states, the persistent batch: finished and unscheduled requests leave,
\* the others are added to the lowest free indices, then at the end.
Stays(o, r) == r \notin o.finished /\ IsScheduled(o, r)
KeptIn(o) == {r \in Members(req_ids) : Stays(o, r)}
ReqIdsToAdd(o) == SelectSeq(o.new \o o.resumed \o o.ran, LAMBDA r : r \notin KeptIn(o))
Ascending(S) == SetToSortSeq(S, LAMBDA a, b : a < b)
Holes(o) == Ascending({i \in DOMAIN req_ids : req_ids[i] \notin KeptIn(o)})
None == 0
FilledIds(o) ==
  LET add == ReqIdsToAdd(o)
      holes == Holes(o)
      extra == SubSeq(add, Len(holes) + 1, Len(add))
  IN [i \in DOMAIN req_ids |->
        IF req_ids[i] \in KeptIn(o) THEN req_ids[i]
        ELSE IF IndexIn(holes, i) <= Len(add) THEN add[IndexIn(holes, i)] ELSE None] \o extra

\* condense: the last requests move to the free indices, lowest first.
condense(ids) ==
  LET n == Cardinality({i \in DOMAIN ids : ids[i] # None})
      free_index == Ascending({i \in 1..n : ids[i] = None})
      movers == Reverse(SelectSeq(SubSeq(ids, n + 1, Len(ids)), LAMBDA r : r # None))
  IN [i \in 1..n |-> IF ids[i] # None THEN ids[i] ELSE movers[IndexIn(free_index, i)]]

\* The row of the block table: append_row for a request that stays, add_row with
\* the first group for one that is added.
UpdatedRow(o, r) ==
  IF r \in KeptIn(o) THEN row[r] \o o.new_block_ids[r]
  ELSE IF r \in Members(ReqIdsToAdd(o)) THEN UpdatedState(o, r).block_ids[1]
  ELSE << >>

\* ensure_decodes_first: the first prompt and the last decode are swapped while
\* the prompt comes first.
IsPrompt(o, r) == o.num_computed_tokens[r] < PromptLen[r]
ensure_decodes_first(o, ids) ==
  LET d == Cardinality({i \in DOMAIN ids : ~IsPrompt(o, ids[i])})
      first == Ascending({i \in 1..d : IsPrompt(o, ids[i])})
      last == Reverse(Ascending({i \in (d + 1)..Len(ids) : ~IsPrompt(o, ids[i])}))
  IN [i \in DOMAIN ids |->
        IF i \in Members(first) THEN ids[last[IndexIn(first, i)]]
        ELSE IF i \in Members(last) THEN ids[first[IndexIn(last, i)]]
        ELSE ids[i]]

\* The passes of execute_model: prompts one by one (max_prefill_batch_size is 1),
\* then the decodes in one batch.
PassesOf_LosesPrompt(o, ids) ==
  LET prompts == SelectSeq(ids, LAMBDA r : IsPrompt(o, r))
      decodes == SelectSeq(ids, LAMBDA r : ~IsPrompt(o, r))
  IN [i \in 1..(Len(prompts) - 1) |-> <<prompts[i]>>]
       \o (IF decodes = << >> THEN << >> ELSE <<decodes>>)
PassesOf(o, ids) ==
  LET prompts == SelectSeq(ids, LAMBDA r : IsPrompt(o, r))
      decodes == SelectSeq(ids, LAMBDA r : ~IsPrompt(o, r))
  IN [i \in DOMAIN prompts |-> <<prompts[i]>>] \o (IF decodes = << >> THEN << >> ELSE <<decodes>>)

\* _update_states, ensure_decodes_first and _get_prompts_and_decodes.
PrepareBatch ==
  LET o == call.output
      ids == condense(FilledIds(o))
      ordered == IF total_num_scheduled_tokens(o) = 0 THEN ids ELSE ensure_decodes_first(o, ids)
  IN /\ call.phase = "execute"
     /\ requests' = [r \in Req |-> UpdatedState(o, r)]
     /\ req_ids' = ordered
     /\ row' = [r \in Req |-> UpdatedRow(o, r)]
     /\ passes' = PassesOf(o, ordered)
     /\ call' = [call EXCEPT !.phase = "forward"]
     /\ UNCHANGED <<req, waiting, running, finished_req_ids, cached_reqs_data, kvm, enc, conn,
                    grammar, batch_queue, worker, failed, kv_caches>>

\* The assertions of _get_prompts_and_decodes; when one fails, the engine dies.
PassAssertions ==
  \A r \in Members(req_ids) :
    IF IsPrompt(call.output, r) THEN requests[r].output_token_ids = 0
    ELSE call.output.num_scheduled_tokens[r] = 1

\* A forward pass writes the slots of its tokens, then attends to all slots up to
\* them.
SlotBlock(r, p) == row[r][cdiv(p, BlockSize)]
SlotOffset(p) == ((p - 1) % BlockSize) + 1
PositionsOf(r) ==
  (requests[r].num_computed_tokens + 1)
    ..(requests[r].num_computed_tokens + call.output.num_scheduled_tokens[r])
WrittenBy(pass) ==
  [b \in Blocks |-> [i \in 1..BlockSize |->
     LET writers == {<<r, p>> \in Members(pass) \X (1..MaxModelLen) :
                       p \in PositionsOf(r) /\ SlotBlock(r, p) = b /\ SlotOffset(p) = i}
     IN IF writers = {} THEN kv_caches[b][i]
        ELSE LET w == CHOOSE x \in writers : TRUE IN SubSeq(Tokens[w[1]], 1, w[2])]]

ForwardPass ==
  /\ call.phase = "forward"
  /\ passes # << >>
  /\ PassAssertions
  /\ kv_caches' = WrittenBy(Head(passes))
  /\ passes' = Tail(passes)
  /\ UNCHANGED <<vars, requests, req_ids, row>>

\* The sampled tokens are added to the cached states, and the output is returned.
ReturnOutput ==
  /\ call.phase = "forward"
  /\ passes = << >>
  /\ requests' = [r \in Req |->
        IF IsScheduled(call.output, r) /\ Samples(call.output, r)
        THEN [requests[r] EXCEPT !.output_token_ids = @ + 1] ELSE requests[r]]
  /\ call' = BeginUpdate(call.output)
  /\ UNCHANGED <<req, waiting, running, finished_req_ids, cached_reqs_data, kvm, enc, conn,
                 grammar, batch_queue, worker, failed, req_ids, row, kv_caches, passes>>

\* The engine core around the runner.
EngineWithoutRunner ==
  \/ \E r \in Req : AddRequest(r) \/ AbortRequest(r)
  \/ ResetPrefixCache \/ StepSchedules \/ StepDispatches
  \/ (ScheduleSteps /\ UNCHANGED <<batch_queue, worker, failed>>)
  \/ (UpdateSteps /\ UNCHANGED <<batch_queue, worker, failed>>)

RunnerNext ==
  \/ EngineWithoutRunner /\ UNCHANGED runnerVars
  \/ PrepareBatch \/ ForwardPass \/ ReturnOutput

RunnerSpec == RunnerInit /\ [][RunnerNext]_<<vars, runnerVars>>

-----------------------------------------------------------------------------
\* The runner works from its own copies, updated by differences: when the passes
\* run, the batch holds exactly the scheduled requests, each once, and each has
\* the blocks, the number of computed tokens and the tokens that the scheduler
\* has for it - across chunks, preemption, resumption and aborts; and nothing is
\* kept of a request that is finished.  Every running request is scheduled in every
\* step: with one batch at a time only encoder inputs or drafts make schedule() leave
\* one out, and this runner has neither.
RunnerMirrorsScheduler ==
  call.phase = "forward" =>
    /\ IsInjective(req_ids)
    /\ Members(req_ids) = {r \in Req : IsScheduled(call.output, r)}
    /\ \A r \in Members(req_ids) :
         /\ row[r] = kvm.req_to_blocks[r]
         /\ requests[r].num_computed_tokens = call.output.num_computed_tokens[r]
         /\ PromptLen[r] + requests[r].output_token_ids = req[r].num_tokens
    /\ \A r \in Req : requests[r].known => Live(r)

\* Attention reads only slots that were written for the tokens of the request:
\* get_computed_blocks returns "blocks that are computed for the request".
ReadsWritten ==
  call.phase = "forward" /\ passes # << >> =>
    \A r \in Members(Head(passes)) :
      \A p \in 1..(requests[r].num_computed_tokens + call.output.num_scheduled_tokens[r]) :
        WrittenBy(Head(passes))[SlotBlock(r, p)][SlotOffset(p)] = SubSeq(Tokens[r], 1, p)
=============================================================================
