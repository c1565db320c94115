--------------------------- MODULE KVCacheManager ---------------------------
(***************************************************************************)
(* The KV cache manager of the scheduler, for one KV cache group with full *)
(* attention: KVCacheManager, the unitary coordinator under it and         *)
(* FullAttentionManager (vllm/v1/core/kv_cache_manager.py,                 *)
(* kv_cache_coordinator.py, single_type_kv_cache_manager.py), as operators *)
(* on a manager value                                                      *)
(*                                                                         *)
(*   pool               the block pool (BlockPoolOps)                      *)
(*   req_to_blocks      [Req -> Seq(Blocks)]                               *)
(*   num_cached_block   [Req -> Nat]                                       *)
(*   block_hashes       req_to_block_hashes: how many block hashes of the  *)
(*                      request have been computed and memoised            *)
(*                                                                         *)
(* The tokens of a request are given in advance: its prompt and the tokens *)
(* the model will sample for it.  The hash of its i-th block stands for    *)
(* all tokens up to the end of that block, since hash_block_tokens chains  *)
(* the hash of the parent block; hashes do not collide.                    *)
(***************************************************************************)
EXTENDS BlockPoolOps, FiniteSets, SequencesExt

CONSTANTS Req,              \* request ids
          Tokens,           \* [Req -> Seq(token)]: prompt and sampled tokens
          BlockSize,        \* block_size
          MaxModelLen,      \* max_model_len
          UseEagle          \* use_eagle

ASSUME ManagerAssumption ==
  /\ BlockSize \in Nat \ {0}
  /\ MaxModelLen \in Nat \ {0}
  /\ UseEagle \in BOOLEAN
  /\ IsFiniteSet(Req)
  /\ \A r \in Req : Tokens[r] \in Seq(Members(Tokens[r]))
  /\ \A r \in Req : \A i \in 1..(Len(Tokens[r]) \div BlockSize) :
        SubSeq(Tokens[r], 1, i * BlockSize) \in Hashes

cdiv(a, b) == (a + b - 1) \div b
AtMost(a, b) == IF a <= b THEN a ELSE b

\* hash_request_tokens, for the i-th block.
block_hash_of(r, i) == SubSeq(Tokens[r], 1, i * BlockSize)

InitManager ==
  [pool |-> InitPool,
   req_to_blocks |-> [r \in Req |-> << >>],
   num_cached_block |-> [r \in Req |-> 0],
   block_hashes |-> [r \in Req |-> 0]]

-----------------------------------------------------------------------------
\* The memoised hashes that get_computed_blocks looks up: computed now if the
\* list is empty.
HashesAtLookup(k, r, num_tokens) ==
  IF k.block_hashes[r] = 0 THEN num_tokens \div BlockSize ELSE k.block_hashes[r]

\* How many blocks find_longest_cache_hit may hit: at least one token is left
\* to compute.
max_num_blocks(num_tokens) == (num_tokens - 1) \div BlockSize

\* The loop of find_longest_cache_hit runs over block_hashes[0..max_num_blocks);
\* it stops at the first miss.
HitLength(k, r, num_tokens) ==
  CHOOSE n \in 0..AtMost(max_num_blocks(num_tokens), HashesAtLookup(k, r, num_tokens)) :
    /\ \A i \in 1..n : HasCached(k.pool, block_hash_of(r, i))
    /\ \/ n = AtMost(max_num_blocks(num_tokens), HashesAtLookup(k, r, num_tokens))
       \/ ~HasCached(k.pool, block_hash_of(r, n + 1))

\* The loop indexes past the memoised hashes when all of them hit.
LookupRaises(k, r, num_tokens) ==
  /\ EnableCaching
  /\ HashesAtLookup(k, r, num_tokens) < max_num_blocks(num_tokens)
  /\ HitLength(k, r, num_tokens) = HashesAtLookup(k, r, num_tokens)

\* get_computed_blocks: the manager with the memoised hashes, and the hits; with
\* EAGLE the last block hit is dropped.
num_hits(k, r, num_tokens) ==
  LET n == HitLength(k, r, num_tokens) IN IF UseEagle /\ n > 0 THEN n - 1 ELSE n
get_computed_blocks(k, r, num_tokens) ==
  IF ~EnableCaching THEN [kvm |-> k, hits |-> << >>]
  ELSE [kvm |-> [k EXCEPT !.block_hashes[r] = HashesAtLookup(k, r, num_tokens)],
        hits |-> [i \in 1..num_hits(k, r, num_tokens) |->
                     get_cached_block(k.pool, block_hash_of(r, i))]]

-----------------------------------------------------------------------------
\* allocate_slots.  computed counts the tokens computed before this call, hits
\* included; new the tokens to add; draft those of them that are speculative.
num_required_blocks_LookaheadOnly(computed, new, lookahead) ==
  cdiv(AtMost(computed + lookahead, MaxModelLen), BlockSize)
num_required_blocks(computed, new, lookahead) ==
  cdiv(AtMost(computed + new + lookahead, MaxModelLen), BlockSize)

num_new_blocks(k, r, hits, required) ==
  LET n == required - Len(hits) - Len(k.req_to_blocks[r])
  IN IF n > 0 THEN n ELSE 0

\* get_num_blocks_to_allocate against get_num_free_blocks.
num_evictable(k, hits) ==
  Cardinality({b \in Members(hits) : k.pool.ref_cnt[b] = 0 /\ b # NullBlock})
CanAllocate(k, r, hits, required) ==
  required - Len(hits) - Len(k.req_to_blocks[r]) + num_evictable(k, hits)
    <= Len(k.pool.free_block_queue)

\* touch, for the blocks hit.
touch_blocks(p, blocks) == FoldLeft(touch, p, blocks)

\* get_new_blocks(n), as the pool after and the blocks taken.
get_new_blocks(p, n) ==
  FoldLeft(LAMBDA acc, i : [pool |-> get_new_block(acc.pool),
                            blocks |-> Append(acc.blocks, popleft(acc.pool))],
           [pool |-> p, blocks |-> << >>],
           [i \in 1..n |-> i])

\* The hashes of the blocks that become full are memoised.
Memoised(old, full) == IF full > old THEN full ELSE old

\* cache_full_blocks: the blocks with the given numbers get their hashes.
cache_full_blocks(p, r, blocks, numbers) ==
  FoldLeft(LAMBDA g, i : cache_full_block(g, blocks[i], block_hash_of(r, i)), p, numbers)

\* cache_blocks: the blocks that are full with num_tokens tokens, and have no hash yet.
cache_blocks(k, r, num_tokens) ==
  LET full == num_tokens \div BlockSize
      cached == k.num_cached_block[r]
      new == [i \in 1..(IF full < cached THEN 0 ELSE full - cached) |-> cached + i]
  IN [k EXCEPT !.pool = cache_full_blocks(@, r, k.req_to_blocks[r], new),
               !.num_cached_block[r] = full,
               !.block_hashes[r] = Memoised(@, full)]

\* allocate_slots when CanAllocate holds (else the call returns None).  With delay
\* the blocks get no hashes yet: they will be written by a transfer.
allocate_slots(k, r, hits, computed, new, draft, lookahead, delay) ==
  LET touched == touch_blocks(k.pool, hits)
      got == get_new_blocks(touched, num_new_blocks(k, r, hits,
                              num_required_blocks(computed, new, lookahead)))
      saved == [k EXCEPT !.pool = got.pool,
                         !.req_to_blocks[r] = @ \o hits \o got.blocks,
                         !.num_cached_block[r] = IF k.req_to_blocks[r] = << >>
                                                 THEN Len(hits) ELSE @]
  IN IF EnableCaching /\ ~delay THEN cache_blocks(saved, r, computed + new - draft) ELSE saved

\* free_blocks; free: the blocks go back last block first.
free_blocks(p, blocks) == FoldLeft(free_block, p, blocks)
free_order(blocks) == Reverse(blocks)
free(k, r) ==
  [k EXCEPT !.pool = free_blocks(@, free_order(k.req_to_blocks[r])),
            !.req_to_blocks[r] = << >>,
            !.num_cached_block[r] = 0]

free_block_hashes(k, r) == [k EXCEPT !.block_hashes[r] = 0]
=============================================================================
