------------------------- MODULE OnlineDefragmenter -------------------------
(***************************************************************************)
(* The online defragmenter of the Gaudi model runner                       *)
(* (vllm_gaudi/extension/defragmentation.py, called by run_defragmenter of *)
(* vllm_gaudi/v1/worker/hpu_model_runner.py).  The scheduler hands out     *)
(* block ids that it believes to be places in the KV cache; the            *)
(* defragmenter moves blocks to low places behind its back and keeps the   *)
(* mapping.  It learns of the blocks only through the scheduler outputs:   *)
(* the new blocks of requests, and the ids of finished requests.           *)
(*                                                                         *)
(* update_state is one step for the new blocks and one for each finished   *)
(* request; defragment is one step, since its pairs are disjoint and their *)
(* order does not matter.  Nor does the order of a list of blocks, which   *)
(* is only walked through: req_blocks counts how often a block is in it.   *)
(* The scheduler belongs to vLLM; it is modelled by what run_defragmenter  *)
(* sees of it.                                                             *)
(***************************************************************************)
EXTENDS Integers, Sequences, FiniteSets

CONSTANTS Req,
          NumBlocks,        \* places in the KV cache
          DefragThreshold,  \* VLLM_DEFRAG_THRESHOLD
          MaxSwaps,         \* to_swap_pad_thresholds[-1]
          PrefixCaching,    \* config.prefix_caching
          MayReuseId,       \* clients resubmit the id of an aborted request
          MaxEntries        \* bound: how often a block is in a list of req_blocks

ASSUME DefragAssumption ==
  /\ NumBlocks \in Nat \ {0}
  /\ DefragThreshold \in Nat
  /\ MaxSwaps \in Nat
  /\ PrefixCaching \in BOOLEAN
  /\ MayReuseId \in BOOLEAN
  /\ MaxEntries \in Nat
  /\ IsFiniteSet(Req)

Blocks == 0..(NumBlocks - 1)
NullBlock == 0

VARIABLES used_blocks,        \* [Blocks -> Nat]: references by place, 0: no entry
          req_blocks,         \* [Req -> [Blocks -> Nat]], all 0: no entry
          mapped,             \* range(len(fwd_mapping_table)), as a set
          fwd_mapping_table,  \* [Blocks -> Blocks], block id to place
          bwd_mapping_table,  \* [Blocks -> Blocks], place to block id
          kv_caches,          \* [Blocks -> block id last written there]
          written,            \* block ids whose contents count
          held,               \* the scheduler: block ids of each request
          status,             \* the scheduler: status of each request
          finished_req_ids,   \* the scheduler: finished since the last output
          output              \* the scheduler output being executed

defragVars == <<used_blocks, req_blocks, mapped, fwd_mapping_table, bwd_mapping_table>>
schedVars == <<held, status, finished_req_ids>>
vars == <<defragVars, kv_caches, written, schedVars, output>>

\* What is left to do for the output: new blocks to count for req, finished
\* requests to forget; fresh are the blocks the forward pass will write.
NoOutput(r) == [phase |-> "idle", req |-> r, new |-> {}, finished |-> {}, fresh |-> {}]

TypeOK ==
  /\ used_blocks \in [Blocks -> Nat]
  /\ req_blocks \in [Req -> [Blocks -> 0..MaxEntries]]
  /\ mapped \subseteq Blocks
  /\ fwd_mapping_table \in [Blocks -> Blocks]
  /\ bwd_mapping_table \in [Blocks -> Blocks]
  /\ kv_caches \in [Blocks -> Blocks]
  /\ written \subseteq Blocks
  /\ held \in [Req -> SUBSET (Blocks \ {NullBlock})]
  /\ status \in [Req -> {"unknown", "waiting", "running", "preempted"}]
  /\ finished_req_ids \subseteq Req
  /\ output \in [phase : {"idle", "update", "forward"}, req : Req,
                 new : SUBSET (Blocks \ {NullBlock}), finished : SUBSET Req,
                 fresh : SUBSET (Blocks \ {NullBlock})]

NoBlocks == [b \in Blocks |-> 0]

\* __init__; a table shorter than a block id maps it to itself.
Init ==
  /\ used_blocks = [p \in Blocks |-> 0]
  /\ req_blocks = [r \in Req |-> NoBlocks]
  /\ mapped = {}
  /\ fwd_mapping_table = [b \in Blocks |-> b]
  /\ bwd_mapping_table = [p \in Blocks |-> p]
  /\ kv_caches = [p \in Blocks |-> NullBlock]
  /\ written = {}
  /\ held = [r \in Req |-> {}]
  /\ status = [r \in Req |-> "unknown"]
  /\ finished_req_ids = {}
  /\ \E r \in Req : output = NoOutput(r)

-----------------------------------------------------------------------------
\* The scheduler.  A request arrives, is preempted, finishes or is aborted;
\* an id is used again once its end was told to the workers, or at once.
AddRequest(r) ==
  /\ output.phase = "idle"
  /\ status[r] = "unknown"
  /\ r \in finished_req_ids => MayReuseId
  /\ status' = [status EXCEPT ![r] = "waiting"]
  /\ UNCHANGED <<defragVars, kv_caches, written, held, finished_req_ids, output>>

Preempt(r) ==
  /\ output.phase = "idle"
  /\ status[r] = "running"
  /\ status' = [status EXCEPT ![r] = "preempted"]
  /\ held' = [held EXCEPT ![r] = {}]
  /\ UNCHANGED <<defragVars, kv_caches, written, finished_req_ids, output>>

FinishRequest(r) ==
  /\ output.phase = "idle"
  /\ status[r] # "unknown"
  /\ status' = [status EXCEPT ![r] = "unknown"]
  /\ held' = [held EXCEPT ![r] = {}]
  /\ finished_req_ids' = finished_req_ids \cup {r}
  /\ UNCHANGED <<defragVars, kv_caches, written, output>>

\* A request is scheduled with blocks hit in the prefix cache, if it starts or
\* resumes, and with blocks that are free.
Unheld == {b \in Blocks \ {NullBlock} : \A r \in Req : b \notin held[r]}
Schedule(r, hits, fresh) ==
  /\ output.phase = "idle"
  /\ status[r] # "unknown"
  /\ hits \subseteq (IF PrefixCaching /\ status[r] # "running" THEN written ELSE {})
  /\ fresh \subseteq Unheld \ hits
  /\ status[r] # "running" => fresh # {}
  /\ \A b \in hits \cup fresh : req_blocks[r][b] < MaxEntries
  /\ output' = [phase |-> "update", req |-> r, new |-> hits \cup fresh,
                finished |-> finished_req_ids, fresh |-> fresh]
  /\ held' = [held EXCEPT ![r] = @ \cup hits \cup fresh]
  /\ status' = [status EXCEPT ![r] = "running"]
  /\ finished_req_ids' = {}
  /\ UNCHANGED <<defragVars, kv_caches, written>>

\* An output without requests still tells of the finished ones.
ScheduleNothing ==
  /\ output.phase = "idle"
  /\ finished_req_ids # {}
  /\ output' = [output EXCEPT !.phase = "update", !.finished = finished_req_ids]
  /\ finished_req_ids' = {}
  /\ UNCHANGED <<defragVars, kv_caches, written, held, status>>

-----------------------------------------------------------------------------
resolve(b) == fwd_mapping_table[b]
unresolve(p) == bwd_mapping_table[p]

\* update_state, the new blocks: req_blocks, _extend_mapping_table, use_block.
use_blocks_Once(new) ==
  [p \in Blocks |-> IF unresolve(p) \in new THEN 1 ELSE used_blocks[p]]
use_blocks(new) ==
  [p \in Blocks |-> IF unresolve(p) \in new THEN used_blocks[p] + 1 ELSE used_blocks[p]]
extend_mapping_table(new) == mapped \cup {b \in Blocks : \E c \in new : b <= c}
UseBlocks ==
  /\ output.phase = "update"
  /\ output.new # {}
  /\ req_blocks' = [req_blocks EXCEPT ![output.req] =
       [b \in Blocks |-> IF b \in output.new THEN @[b] + 1 ELSE @[b]]]
  /\ mapped' = extend_mapping_table(output.new)
  /\ used_blocks' = use_blocks(output.new)
  /\ output' = [output EXCEPT !.new = {}]
  /\ UNCHANGED <<fwd_mapping_table, bwd_mapping_table, kv_caches, written, schedVars>>

\* update_state, one finished request: free_block for each of its blocks.  One
\* without an entry raises KeyError; the step is not enabled, the worker stops.
free_blocks_of(r) == [p \in Blocks |-> used_blocks[p] - req_blocks[r][unresolve(p)]]
ForgetFinished(r) ==
  /\ output.phase = "update" /\ output.new = {}
  /\ r \in output.finished
  /\ req_blocks[r] # NoBlocks
  /\ used_blocks' = free_blocks_of(r)
  /\ req_blocks' = [req_blocks EXCEPT ![r] = NoBlocks]
  /\ output' = [output EXCEPT !.finished = @ \ {r}]
  /\ UNCHANGED <<mapped, fwd_mapping_table, bwd_mapping_table, kv_caches, written, schedVars>>

-----------------------------------------------------------------------------
\* defragment.  The highest used place is paired with the lowest free one (the
\* null block is not free), the next highest with the next lowest, while the
\* free place is the lower.
Used == {p \in Blocks : used_blocks[p] > 0}
FreePlaces == {p \in Blocks \ {NullBlock} : p \notin Used}
UsedAbove(p) == {q \in Used : q > p}
FreeBelow(p) == {q \in FreePlaces : q < p}
to_swap_Ascending(u, f) ==
  /\ u \in Used /\ f \in FreePlaces
  /\ Cardinality({q \in Used : q < u}) = Cardinality(FreeBelow(f))
  /\ Cardinality(FreeBelow(f)) < MaxSwaps
  /\ f < u
to_swap(u, f) ==
  /\ u \in Used /\ f \in FreePlaces
  /\ Cardinality(UsedAbove(u)) = Cardinality(FreeBelow(f))
  /\ Cardinality(UsedAbove(u)) < MaxSwaps
  /\ f < u

Fragmented ==
  Used # {} /\ \E max_used \in Used :
    /\ \A p \in Used : p <= max_used
    /\ max_used - DefragThreshold > Cardinality(Used)

\* The place that p changes contents with.
IsSwapped(p) == \E q \in Blocks : to_swap(p, q) \/ to_swap(q, p)
Partner(p) ==
  IF IsSwapped(p) THEN CHOOSE q \in Blocks : to_swap(p, q) \/ to_swap(q, p)
  ELSE p

\* update_mapping for both blocks of each pair.
NewFwd == [b \in Blocks |-> Partner(fwd_mapping_table[b])]
NewBwd_Stale == bwd_mapping_table
NewBwd == [p \in Blocks |-> bwd_mapping_table[Partner(p)]]

\* CacheSwapUtils: the used places are copied to the free ones; the free ones
\* are copied back only with prefix caching.
SwappedCaches_OneWay ==
  [p \in Blocks |-> IF p \in FreePlaces THEN kv_caches[Partner(p)] ELSE kv_caches[p]]
SwappedCaches ==
  [p \in Blocks |-> IF p \in FreePlaces \/ PrefixCaching THEN kv_caches[Partner(p)]
                    ELSE kv_caches[p]]

UpdateEnds == output.phase = "update" /\ output.new = {} /\ output.finished = {}
Defragment ==
  /\ UpdateEnds
  /\ Fragmented
  /\ used_blocks' = [p \in Blocks |-> used_blocks[Partner(p)]]
  /\ fwd_mapping_table' = NewFwd
  /\ bwd_mapping_table' = NewBwd
  /\ kv_caches' = SwappedCaches
  /\ output' = [output EXCEPT !.phase = "forward"]
  /\ UNCHANGED <<req_blocks, mapped, written, schedVars>>

LeaveAlone ==
  /\ UpdateEnds
  /\ ~Fragmented
  /\ output' = [output EXCEPT !.phase = "forward"]
  /\ UNCHANGED <<defragVars, kv_caches, written, schedVars>>

\* The forward pass writes the new blocks at the places they resolve to.
WrittenAt(p) == unresolve(p)
Forward ==
  /\ output.phase = "forward"
  /\ kv_caches' = [p \in Blocks |-> IF WrittenAt(p) \in output.fresh THEN WrittenAt(p)
                                    ELSE kv_caches[p]]
  /\ written' = written \cup output.fresh
  /\ output' = NoOutput(output.req)
  /\ UNCHANGED <<defragVars, schedVars>>

Next ==
  \/ \E r \in Req :
       \/ AddRequest(r) \/ Preempt(r) \/ FinishRequest(r) \/ ForgetFinished(r)
       \/ \E hits, fresh \in SUBSET (Blocks \ {NullBlock}) : Schedule(r, hits, fresh)
  \/ ScheduleNothing \/ UseBlocks \/ Defragment \/ LeaveAlone \/ Forward

Spec == Init /\ [][Next]_vars

-----------------------------------------------------------------------------
\* The two tables stay inverse to each other, within their length, and the null
\* block is never moved: no two block ids are resolved to the same place, however
\* often blocks move and the tables grow.
MappingIsPermutation ==
  /\ \A b \in Blocks : bwd_mapping_table[fwd_mapping_table[b]] = b
  /\ \A p \in Blocks : fwd_mapping_table[bwd_mapping_table[p]] = p
  /\ fwd_mapping_table[NullBlock] = NullBlock
  /\ \A b \in mapped : 0..b \subseteq mapped
  /\ \A b \in Blocks \ mapped : fwd_mapping_table[b] = b
  /\ Used \subseteq mapped

\* The reference count of a place is the number of entries of req_blocks that
\* resolve to it, although places change under the entries: free_block never
\* deletes a missing entry of used_blocks.
Entries(p) == {e \in Req \X (1..MaxEntries) : e[2] <= req_blocks[e[1]][unresolve(p)]}
UsedIsReferenced == \A p \in Blocks : used_blocks[p] = Cardinality(Entries(p))

\* A place that a scheduled request uses is never taken for free.  The ids that
\* the scheduler uses are counted, even those of a request that was preempted.
UsedCoversHeld ==
  output.phase \in {"idle", "forward"} =>
    \A r \in Req : \A b \in held[r] : used_blocks[resolve(b)] > 0

\* What was written under a block id is found under it again, wherever the block
\* was moved: for the blocks of the requests, and with prefix caching for the
\* free blocks too.
ContentsFollow ==
  output.phase = "idle" =>
    \A b \in written :
      PrefixCaching \/ (\E r \in Req : b \in held[r]) => kv_caches[resolve(b)] = b

\* Defragmentation compacts: after it the used places are the lowest ones (if
\* one call may swap enough of them), so one call is enough.
IsCompact(S) == \A p \in S : \A q \in 1..p : q \in S
Compacts == [][Defragment /\ MaxSwaps >= NumBlocks => IsCompact(Used')]_vars
=============================================================================
