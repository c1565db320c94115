------------------------- MODULE EncoderCacheManager -------------------------
(***************************************************************************)
(* The cache of encoder outputs that the scheduler keeps account of        *)
(* (vllm/v1/core/encoder_cache_manager.py), as operators on a value        *)
(*                                                                         *)
(*   cached           the pairs <<r, i>> whose output the workers keep     *)
(*   num_free_slots   free slots, in tokens                                *)
(*   freed            given back since the last schedule()                 *)
(*                                                                         *)
(* and the choice of the encoder inputs of a step.  The i-th input of a    *)
(* request takes the place of `length' tokens of its prompt, after the     *)
(* first `offset' tokens.                                                  *)
(***************************************************************************)
EXTENDS Integers, Sequences, FiniteSetsExt

CONSTANTS EncoderInputs,           \* [Req -> Seq([offset, length])]: mm_positions
          EncoderCacheSize,        \* encoder_cache_size
          MaxNumEncoderInputTokens,  \* max_num_encoder_input_tokens
          DisableChunkedMMInput    \* disable_chunked_mm_input

\* The budget and the size are at least the longest input; inputs do not overlap
\* and come in order.
ASSUME EncoderAssumption ==
  /\ EncoderCacheSize \in Nat /\ MaxNumEncoderInputTokens \in Nat
  /\ DisableChunkedMMInput \in BOOLEAN
  /\ \A r \in DOMAIN EncoderInputs :
       EncoderInputs[r] \in Seq([offset : Nat, length : 1..MaxNumEncoderInputTokens])
  /\ \A r \in DOMAIN EncoderInputs : \A i \in DOMAIN EncoderInputs[r] :
       /\ EncoderInputs[r][i].length <= EncoderCacheSize
       /\ i > 1 => EncoderInputs[r][i].offset
                     >= EncoderInputs[r][i - 1].offset + EncoderInputs[r][i - 1].length

InitEncoderCache == [cached |-> {}, num_free_slots |-> EncoderCacheSize, freed |-> {}]

StartOf(r, i) == EncoderInputs[r][i].offset
EndOf(r, i) == EncoderInputs[r][i].offset + EncoderInputs[r][i].length
TokensOfInputs(pairs) == MapThenSumSet(LAMBDA p : EncoderInputs[p[1]][p[2]].length, pairs)
InputsOf(r, I) == {<<r, i>> : i \in I}

get_cached_input_ids(e, r) == {i \in DOMAIN EncoderInputs[r] : <<r, i>> \in e.cached}
can_allocate(e, r, i) == EncoderInputs[r][i].length <= e.num_free_slots

\* allocate, for each input of I.
allocate_inputs(e, r, I) ==
  [e EXCEPT !.cached = @ \cup InputsOf(r, I),
            !.num_free_slots = @ - TokensOfInputs(InputsOf(r, I))]

\* free_encoder_input, for each input of I.
free_inputs_SlotsLost(e, r, I) ==
  [e EXCEPT !.cached = @ \ InputsOf(r, I), !.freed = @ \cup InputsOf(r, I)]
free_inputs(e, r, I) ==
  [e EXCEPT !.cached = @ \ InputsOf(r, I),
            !.num_free_slots = @ + TokensOfInputs(InputsOf(r, I)),
            !.freed = @ \cup InputsOf(r, I)]

-----------------------------------------------------------------------------
\* An input is needed when it overlaps the n tokens after `computed', which is
\* what the runner checks too.
Needs(r, i, computed, n) == StartOf(r, i) < computed + n /\ EndOf(r, i) > computed

\* The inputs of the tokens to compute whose outputs are not at the workers; a
\* prefix hit may end inside an input.
needed_inputs_NotStarted(e, r, computed, n) ==
  {i \in DOMAIN EncoderInputs[r] \ get_cached_input_ids(e, r) :
     n > 0 /\ Needs(r, i, computed, n) /\ StartOf(r, i) >= computed}
needed_inputs(e, r, computed, n) ==
  {i \in DOMAIN EncoderInputs[r] \ get_cached_input_ids(e, r) :
     n > 0 /\ Needs(r, i, computed, n)}

\* _try_schedule_encoder_inputs: the inputs to schedule, the tokens that are left
\* to schedule, and the tokens of the inputs.  The loop ends at the first input
\* that cannot be scheduled; the tokens before it still can.  num_free_slots is
\* compared with each input on its own.
try_schedule_encoder_inputs(e, r, computed, n, budget) ==
  LET needed == needed_inputs(e, r, computed, n)
      partial(i) == /\ DisableChunkedMMInput
                    /\ computed < StartOf(r, i)
                    /\ computed + n < EndOf(r, i)
      upto(i) == TokensOfInputs(InputsOf(r, {j \in needed : j <= i}))
      stops == {i \in needed : partial(i) \/ ~can_allocate(e, r, i) \/ upto(i) > budget}
      first == Min(stops)
      inputs == IF stops = {} THEN needed ELSE {i \in needed : i < first}
  IN [inputs |-> inputs,
      num_new_tokens |-> IF stops = {} THEN n
                         ELSE IF computed < StartOf(r, first) THEN StartOf(r, first) - computed
                         ELSE 0]
=============================================================================
