---------------------------- MODULE BlockPoolOps ----------------------------
(***************************************************************************)
(* One iteration of each loop of the block pool                            *)
(* (vllm/v1/core/block_pool.py), as operators on a pool value              *)
(*                                                                         *)
(*   free_block_queue   sequence of free blocks, next to pop first         *)
(*   ref_cnt            [Blocks -> Nat]                                    *)
(*   block_hash         [Blocks -> Hashes \cup {NoHash}]                   *)
(*   cached             cached_block_hash_to_block: [Hashes -> Seq(Blocks)],*)
(*                      the blocks of a hash in insertion order            *)
(*   view               the hashes a consumer of kv_event_queue believes   *)
(*                      to be cached (BlockStored adds, BlockRemoved and   *)
(*                      AllBlocksCleared take away; the queue is a FIFO)   *)
(*                                                                         *)
(* BlockPool.tla runs the loops one iteration per step; KVCacheManager.tla *)
(* folds the same operators over whole block lists.                        *)
(***************************************************************************)
EXTENDS Integers, Sequences

CONSTANTS NumBlocks,        \* num_gpu_blocks
          Hashes,           \* the block hashes that can occur
          NoHash,           \* None
          EnableCaching     \* enable_caching

ASSUME PoolAssumption ==
  /\ NumBlocks \in Nat \ {0}
  /\ NoHash \notin Hashes
  /\ EnableCaching \in BOOLEAN

Blocks == 0..(NumBlocks - 1)
NullBlock == 0              \* the placeholder popped by the constructor

Members(q) == {q[i] : i \in DOMAIN q}
DropAt(q, i) == [j \in 1..(Len(q) - 1) |-> IF j < i THEN q[j] ELSE q[j + 1]]
IndexIn(q, b) == CHOOSE i \in DOMAIN q : q[i] = b
Without(q, b) == DropAt(q, IndexIn(q, b))

\* __init__: all blocks free but the null block.
InitPool ==
  [free_block_queue |-> [i \in 1..(NumBlocks - 1) |-> i],
   ref_cnt |-> [b \in Blocks |-> 0],
   block_hash |-> [b \in Blocks |-> NoHash],
   cached |-> [h \in Hashes |-> << >>],
   view |-> {}]

\* touch, for one block: a free block leaves the queue.
touch_Unqueued(p, b) == [p EXCEPT !.ref_cnt[b] = @ + 1]
touch(p, b) ==
  [p EXCEPT !.free_block_queue = IF p.ref_cnt[b] = 0 /\ b # NullBlock
                                 THEN Without(@, b) ELSE @,
            !.ref_cnt[b] = @ + 1]

\* popleft: the head of the linked list, or with prefix caching off the lowest
\* id (FreeKVCacheBlockQueueHPU keeps a heap).
popleft(p) ==
  IF EnableCaching THEN p.free_block_queue[1]
  ELSE CHOOSE b \in Members(p.free_block_queue) :
         \A c \in Members(p.free_block_queue) : b <= c

\* _maybe_evict_cached_block: the block loses its hash and its entry in the
\* index.  BlockRemoved is sent even when another block still has the hash.
maybe_evict_KeepsHash(p, b) ==
  LET h == p.block_hash[b] IN
  IF h # NoHash /\ b \in Members(p.cached[h])
  THEN [p EXCEPT !.cached[h] = Without(@, b), !.view = @ \ {h}]
  ELSE p
maybe_evict_SilentView(p, b) ==
  LET h == p.block_hash[b] IN
  IF h # NoHash /\ b \in Members(p.cached[h])
  THEN [p EXCEPT !.block_hash[b] = NoHash, !.cached[h] = Without(@, b)]
  ELSE p
maybe_evict_cached_block(p, b) ==
  LET h == p.block_hash[b] IN
  IF h # NoHash /\ b \in Members(p.cached[h])
  THEN [p EXCEPT !.block_hash[b] = NoHash, !.cached[h] = Without(@, b),
                 !.view = @ \ {h}]
  ELSE p

\* get_new_blocks, for one block.
get_new_block(p) ==
  LET b == popleft(p)
      q == [p EXCEPT !.free_block_queue = Without(@, b)]
      e == IF EnableCaching THEN maybe_evict_cached_block(q, b) ELSE q
  IN [e EXCEPT !.ref_cnt[b] = @ + 1]

\* cache_full_blocks, for one block: the hash of a full block is set once.
cache_full_block(p, b, h) ==
  [p EXCEPT !.block_hash[b] = h, !.cached[h] = Append(@, b), !.view = @ \cup {h}]

\* free_blocks, for one block: the last reference puts it at the end.
free_block(p, b) ==
  [p EXCEPT !.ref_cnt[b] = @ - 1,
            !.free_block_queue = IF p.ref_cnt[b] = 1 /\ b # NullBlock
                                 THEN Append(@, b) ELSE @]

\* reset_prefix_cache, when only the null block is in use.
CanReset(p) == NumBlocks - Len(p.free_block_queue) = 1
reset_prefix_cache(p) ==
  [p EXCEPT !.cached = [h \in Hashes |-> << >>],
            !.block_hash = [b \in Blocks |-> NoHash],
            !.view = {}]

\* get_cached_block: the first block of the hash.
HasCached(p, h) == p.cached[h] # << >>
get_cached_block(p, h) == p.cached[h][1]
=============================================================================
