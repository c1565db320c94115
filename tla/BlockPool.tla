----------------------------- MODULE BlockPool -----------------------------
(***************************************************************************)
(* The block pool under the calls its one client makes                     *)
(* (SingleTypeKVCacheManager and KVCacheManager.allocate_slots/free, full  *)
(* attention, one KV cache group).  The engine core calls the pool from    *)
(* one thread, so a call is never interleaved with another; here each      *)
(* iteration of a call's loops is one step, so that the invariants are     *)
(* shown to hold between the iterations too, where an assertion of the     *)
(* code would fail.                                                        *)
(*                                                                         *)
(* A request is the chain of the hashes of its full blocks, in the order   *)
(* of the blocks; two requests share blocks where their chains agree.      *)
(***************************************************************************)
EXTENDS BlockPoolOps, FiniteSets

CONSTANTS Requests,
          HashOf            \* [Requests -> Seq(Hashes)]

\* A block hash covers the hash of the block before it (hash_block_tokens), so
\* equal hashes are at equal places of chains that agree up to there.
ASSUME ChainAssumption ==
  /\ IsFiniteSet(Requests)
  /\ HashOf \in [Requests -> Seq(Hashes)]
  /\ \A r, s \in Requests : \A i \in 1..Len(HashOf[r]), j \in 1..Len(HashOf[s]) :
        HashOf[r][i] = HashOf[s][j] =>
          i = j /\ \A k \in 1..i : HashOf[r][k] = HashOf[s][k]

VARIABLES pool,
          req_to_blocks,    \* [Requests -> Seq(Blocks)]
          num_cached_block, \* [Requests -> Nat]
          todo              \* what is left of the call in progress

vars == <<pool, req_to_blocks, num_cached_block, todo>>

\* todo: the request, the computed blocks still to touch, the number of blocks
\* still to take, to cache and to free.
NoCall(r) == [req |-> r, touch |-> << >>, new |-> 0, cache |-> 0, free |-> 0]

Idle == todo.touch = << >> /\ todo.new = 0 /\ todo.cache = 0 /\ todo.free = 0

Init ==
  /\ pool = InitPool
  /\ req_to_blocks = [r \in Requests |-> << >>]
  /\ num_cached_block = [r \in Requests |-> 0]
  /\ \E r \in Requests : todo = NoCall(r)

-----------------------------------------------------------------------------
\* find_longest_cache_hit with a limit on the length: k blocks are hit when the
\* first k hashes are cached, and k is the limit or the next hash is a miss.
\* The limit (the number of tokens less one) is any length of the request.
Hits(r, k) ==
  /\ EnableCaching \/ k = 0
  /\ \A i \in 1..k : HasCached(pool, HashOf[r][i])

computed_blocks(r, k) == [i \in 1..k |-> get_cached_block(pool, HashOf[r][i])]

\* get_num_blocks_to_allocate: the new blocks and the hits that are free now.
num_evictable(blocks) ==
  Cardinality({b \in Members(blocks) : pool.ref_cnt[b] = 0 /\ b # NullBlock})
CanAllocate_IgnoresHits(blocks, n) == n <= Len(pool.free_block_queue)
CanAllocate(blocks, n) == n + num_evictable(blocks) <= Len(pool.free_block_queue)

\* allocate_slots: k hits for a request without blocks, n new blocks, and then
\* c of its blocks become full and are cached.  A new request needs at least
\* one new block, for the token that the hit must leave to compute.
AllocateSlots(r, k, n, c) ==
  LET held == req_to_blocks[r] IN
  /\ Idle
  /\ Hits(r, k)
  /\ held # << >> => k = 0
  /\ held = << >> => n > 0
  /\ CanAllocate(computed_blocks(r, k), n)
  /\ EnableCaching \/ c = 0
  /\ num_cached_block[r] + k + c <= Len(HashOf[r])
  /\ num_cached_block[r] + k + c <= Len(held) + k + n
  /\ todo' = [req |-> r, touch |-> computed_blocks(r, k), new |-> n,
              cache |-> c, free |-> 0]
  /\ UNCHANGED <<pool, req_to_blocks, num_cached_block>>

\* The loop of touch, with save_new_computed_blocks.
TouchStep ==
  LET r == todo.req
      b == todo.touch[1]
  IN /\ todo.touch # << >>
     /\ pool' = touch(pool, b)
     /\ req_to_blocks' = [req_to_blocks EXCEPT ![r] = Append(@, b)]
     /\ num_cached_block' = [num_cached_block EXCEPT ![r] = @ + 1]
     /\ todo' = [todo EXCEPT !.touch = Tail(@)]

\* The loop of get_new_blocks, with allocate_new_blocks.
NewBlockStep ==
  LET r == todo.req IN
  /\ todo.touch = << >> /\ todo.new > 0
  /\ pool' = get_new_block(pool)
  /\ req_to_blocks' = [req_to_blocks EXCEPT ![r] = Append(@, popleft(pool))]
  /\ todo' = [todo EXCEPT !.new = @ - 1]
  /\ UNCHANGED num_cached_block

\* The loop of cache_full_blocks, with cache_blocks.
CacheStep ==
  LET r == todo.req
      i == num_cached_block[r] + 1
  IN /\ todo.touch = << >> /\ todo.new = 0 /\ todo.cache > 0
     /\ pool' = cache_full_block(pool, req_to_blocks[r][i], HashOf[r][i])
     /\ num_cached_block' = [num_cached_block EXCEPT ![r] = i]
     /\ todo' = [todo EXCEPT !.cache = @ - 1]
     /\ UNCHANGED req_to_blocks

\* free: the request finished, was aborted or was preempted.
Free(r) ==
  /\ Idle
  /\ todo' = [NoCall(r) EXCEPT !.free = Len(req_to_blocks[r])]
  /\ UNCHANGED <<pool, req_to_blocks, num_cached_block>>

\* The loop of free_blocks over the blocks of the request, last block first.
FreeIndex_Forwards(r) == 1
FreeIndex(r) == Len(req_to_blocks[r])
FreeStep ==
  LET r == todo.req
      i == FreeIndex(r)
  IN /\ todo.free > 0
     /\ pool' = free_block(pool, req_to_blocks[r][i])
     /\ req_to_blocks' = [req_to_blocks EXCEPT ![r] = DropAt(@, i)]
     /\ num_cached_block' = [num_cached_block EXCEPT ![r] = IF @ >= i THEN @ - 1 ELSE @]
     /\ todo' = [todo EXCEPT !.free = @ - 1]

ResetPrefixCache ==
  /\ Idle
  /\ CanReset(pool)
  /\ pool' = reset_prefix_cache(pool)
  /\ UNCHANGED <<req_to_blocks, num_cached_block, todo>>

Next ==
  \/ \E r \in Requests :
       \/ \E k, c \in 0..Len(HashOf[r]) : \E n \in 0..NumBlocks :
            AllocateSlots(r, k, n, c)
       \/ Free(r)
  \/ TouchStep \/ NewBlockStep \/ CacheStep \/ FreeStep
  \/ ResetPrefixCache

Spec == Init /\ [][Next]_vars

-----------------------------------------------------------------------------
Holders(b) == {r \in Requests : b \in Members(req_to_blocks[r])}

\* At every step of every call, a block's ref_cnt is the number of requests whose
\* block lists hold it (no reference leaks and none is dropped twice), and exactly
\* the blocks with ref_cnt 0 but the null block are in the free queue, each once.
\* So touch removes only blocks that are queued, get_new_blocks pops only blocks
\* with ref_cnt = 0 (its assertion), and no block is handed to two requests.
BlocksAccounted ==
  /\ \A b \in Blocks : pool.ref_cnt[b] = Cardinality(Holders(b))
  /\ \A b \in Blocks :
       b \in Members(pool.free_block_queue) <=> b # NullBlock /\ pool.ref_cnt[b] = 0
  /\ \A i, j \in DOMAIN pool.free_block_queue :
       pool.free_block_queue[i] = pool.free_block_queue[j] => i = j

\* The hash index and the hashes of the blocks agree, so a lookup never returns a
\* block that was evicted and given to somebody else; and a request's first
\* num_cached_block blocks carry its own hashes and the others none: what a request
\* holds is never evicted under it, and the assertions "blk.block_hash is None" of
\* cache_full_blocks hold.
IndexIsExact ==
  /\ \A h \in Hashes : \A b \in Blocks :
       b \in Members(pool.cached[h]) <=> pool.block_hash[b] = h
  /\ \A r \in Requests : \A i \in DOMAIN req_to_blocks[r] :
       pool.block_hash[req_to_blocks[r][i]] =
         IF i <= num_cached_block[r] THEN HashOf[r][i] ELSE NoHash

\* Once allocate_slots has passed its check, the queue holds enough blocks for
\* the rest of the call, although touching the hits shrinks the queue: neither
\* get_new_blocks nor popleft raises half way through an allocation.
CallCompletes ==
  todo.new + num_evictable(todo.touch) <= Len(pool.free_block_queue)

\* What a consumer of the KV events believes to be cached is cached.
EventsSound == \A h \in pool.view : HasCached(pool, h)

\* Blocks are evicted from the end of a chain: while a block of a request's
\* chain is cached, so are all the blocks before it.  (free releases the last
\* block first; a chain with a hole would keep blocks no lookup can reach.)
ChainsHaveNoHoles ==
  \A r \in Requests : \A i, j \in 1..Len(HashOf[r]) :
     i < j /\ HasCached(pool, HashOf[r][j]) => HasCached(pool, HashOf[r][i])
=============================================================================
