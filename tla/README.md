# Verification of the vLLM v1 engine core and its Gaudi parts

TLA+ models of the block pool, the scheduler, the engine core loop, KV transfer,
the encoder cache, the workers' message queue and executor, data parallel waves,
the HPU model runner and the Gaudi defragmenter of this repository; TLC runs on
small instances; TLAPS proofs for instances of every size.  `PROJECT.json` maps
every definition to the lines it models, and lists the runs, the mutants that
show that each property can fail, the hazards and the findings.

## 1. The system

The repository holds the vLLM engine (`vllm/`, of which `vllm/v1` is the current
one) and the Gaudi plugin (`vllm_gaudi/`).  One engine core process schedules
requests step by step; each step runs one forward pass for the scheduled tokens
of many requests.  Keys and values of computed tokens stay in *blocks* of the KV
cache on the device.

| Component | State | Operations | Hard behaviour |
|---|---|---|---|
| Free block queue (`core/kv_cache_utils.py`) | links in the blocks, head, tail, count | `popleft`, `remove`, `append`; the HPU variant is a heap | removal from the middle, lists of length 0 and 1 |
| Block pool (`core/block_pool.py`) | `ref_cnt` and hash of each block, free queue, hash index, events | `touch`, `get_new_blocks`, `cache_full_blocks`, `free_blocks`, `reset_prefix_cache` | free blocks stay hittable until they are evicted; blocks are shared |
| KV cache manager (`core/kv_cache_manager.py`, `single_type_kv_cache_manager.py`, coordinator) | blocks and number of cached blocks of each request, memoised hashes | `get_computed_blocks`, `allocate_slots`, `free` | the check of the free blocks comes before the hits are touched; hashes are delayed for blocks to be received |
| Encoder cache manager (`core/encoder_cache_manager.py`) | cached inputs, free slots, freed ids | `can_allocate`, `allocate`, `free`, `get_freed_ids` | workers keep the outputs and hear of frees one step later |
| Scheduler (`core/sched/scheduler.py`) | waiting and running queues, requests, `finished_req_ids`, `_cached_reqs_data` | `add_request`, `finish_requests`, `schedule`, `update_from_output` | preemption inside the loop, chunked prefill, rejected drafts, requests skipped for a grammar, a LoRA or remote blocks |
| KV connector (`kv_connector/v1/nixl_connector.py`) | requests to fetch, transfers in flight, counts by rank | `get_num_new_matched_tokens`, `update_state_after_alloc`, `request_finished`, `start_load_kv`, `get_finished` | ranks finish in any order; blocks are written and read while the engine goes on |
| Engine core (`engine/core.py`) | batch queue | busy loop, `step`, `step_with_batch_queue`, client messages | several batches in flight while requests are aborted, preempted and resumed |
| Data parallel waves (`engine/coordinator.py`, `DPEngineCoreProc`, `DPAsyncMPClient`) | wave number and running flag, in every process | requests, notices, START_DP_WAVE, all-reduce, wave complete | engines must all run or all pause, and each process knows only an old state of the others |
| Executor (`executor/multiproc_executor.py`) | pending futures, response queues, failure and shutdown flags | `collective_rpc`, worker busy loop, monitor, `shutdown` | three threads; a worker may die at any moment; answers carry no call number |
| Shared memory broadcast (`shm_broadcast.py`) | ring of chunks with flags, positions, sockets | `enqueue`, `dequeue` | no lock: flags are read and written one by one |
| HPU model runner (`worker/hpu_model_runner.py`, `gpu_input_batch.py`, `block_table.py`) | copies of the requests, persistent batch, KV cache | `_update_states`, `execute_model` | copies are kept by differences; the order of the passes in a step |
| Online defragmenter (`vllm_gaudi/extension/defragmentation.py`) | reference counts by place, block lists, two mapping tables | `update_state`, `defragment` | blocks move behind the scheduler's back, and it hears only of new blocks and finished requests |

The engine core calls the scheduler, which calls the KV cache manager (and through
it the pool), the encoder cache manager and the connector; everything in the
engine core process but the executor's threads happens on one thread.  The
concurrency is between that thread and the clients (messages handled between
steps), the workers (batches and transfers in flight), the threads that compile
grammars, and the other engines of a data parallel group.  The executor sends its
calls through the shared memory broadcast.  The runner and the defragmenter see
only the sequence of scheduler outputs.

## 2. Modules

| Module | Models | How |
|---|---|---|
| `FreeBlockQueueSpec` | what the free queue promises | a sequence; take the first, remove one, append one |
| `FreeKVCacheBlockQueue` | the linked list | one action per method, the links as functions on blocks |
| `FreeKVCacheBlockQueue_proofs` | | theorems |
| `BlockPoolOps` | the methods of `BlockPool`, one block at a time | operators on a record `pool`; used by the two modules below |
| `BlockPool` | the pool under the calls of its manager | each loop iteration of a call is a step (`todo` is what is left of it) |
| `BlockPool_proofs` | | theorems |
| `KVCacheManager` | the manager's calls as a whole | operators on a record `kvm`, folds over `BlockPoolOps` |
| `EncoderCacheManager` | encoder cache and choice of the inputs of a step | operators on a record `enc` |
| `NixlConnector` | both sides of the KV connector | operators on two records, of the scheduler and of the workers |
| `Scheduler` | `schedule()` and `update_from_output()` | each loop iteration is a step, the locals are in `call`; extends the three above |
| `EngineCore` | the busy loop around the scheduler | client messages when no call is in progress; one batch at a time or a batch queue; `worker` is what outputs tell the workers, and their transfers |
| `EngineCore_proofs` | | theorems |
| `EngineCoreSafety_proofs` | | theorems that follow from the invariant of `EngineCore_proofs` |
| `HPUModelRunner` | the runner under the synchronous engine core | `PrepareBatch` is `_update_states` and the sorting, `ForwardPass` one pass, `ReturnOutput` the end |
| `BroadcastSpec` | what the message queue promises | every reader gets messages 1, 2, 3, ... in order, none before it was enqueued |
| `MessageQueue` | the shared memory ring and the sockets | each access to a flag or to the data of a chunk is a step |
| `MessageQueue_proofs` | | theorems |
| `MultiprocExecutor` | executor, I/O thread, monitor, workers | queues as `BroadcastSpec` promises them; each blocking point is a state of `main`, `io` or `monitor` |
| `MultiprocExecutor_proofs` | | theorems |
| `DPCoordinator` | coordinator, front-ends, engines of a group | one action per message handled; in order for each pair of processes |
| `DPCoordinator_proofs` | | theorems |
| `OnlineDefragmenter` | the defragmenter with a scheduler reduced to what it is told | `update_state` in steps, `defragment`, the forward pass |
| `OnlineDefragmenter_proofs` | | theorems |
| `MC*` | instances | |

Abstractions.  Token ids are known in advance for each request; what sampling
decides freely is when a request stops and how many drafts are proposed and
accepted.  A block hash is the sequence of tokens up to the end of the block (no
collisions).  A slot of the KV cache in `HPUModelRunner` holds the tokens it was
computed from, so a read of a wrong or unwritten slot is seen.  A consumer of KV
events is the set of hashes it believes cached (`view`).  An encoder input is its
place in the prompt.  A transfer is the set of blocks it writes; it is complete on
a rank at any moment after its start.  A message of the broadcast is its number,
and a chunk holds a number, the sign that the message is in the socket, or a part
of a message (`Torn`).  Shared memory is sequentially consistent: what the code
obtains from the processor on other architectures is not modelled.  In
`DPCoordinator` a request is the number of passes it takes.  In
`OnlineDefragmenter` the order of a block list does not matter (it is only walked
through), so a list is a count per block; `mapped` is the range of indices of the
mapping tables; the pairs of one `defragment` are disjoint, so they are swapped in
one step.  An exception in the code that ends the process is a state in which the
step is not enabled, and a property says that it is not reached; the one that a client
can cause at any time, by aborting a request that is being sent, is an action of its own
(`AbortRaises`, which sets `failed`).  Two history variables record what goes wrong in
known ways, so that a property can say that it goes wrong in no other way: `misread` in
`MultiprocExecutor` and `missed` in `DPCoordinator`.

## 3. Runs

Passing runs:

| Run | Instance | Question |
|---|---|---|
| `free_queue` | 5 blocks | Are the links one list of the free blocks after any calls, and does the list implement the queue? |
| `block_pool` | 3 requests, chains of 2 and 3 hashes with common prefixes, 3 usable blocks | Do counts, free queue, index, block lists and KV events agree between any two loop iterations, can an allocation fail half way, and are chains evicted from their end? |
| `engine` | 4 requests, blocks of 2 tokens, 5 usable blocks, 2 running, budget 4; one guided, one fetched from another engine, one fetched by another engine over 2 ranks, two with encoder inputs, LoRA limit 1 | Queues, limits, ownership, sharing, cached data, lookups, what the workers keep, transfers, with any request aborted at any time; does every request finish? |
| `pipeline` | 3 requests, 2 batches in flight, chunks of 2 tokens, encoder inputs that span chunks, one guided | Order of requests; are answers applied to the state they were computed for, are encoder outputs there when needed, is the common prefix common; does every request finish? |
| `speculative` | 2 requests, up to 2 drafts, 7 usable blocks, EAGLE lookahead | Do rejected drafts keep counts right, and does every request finish? |
| `runner` | 4 requests, caching off | Does the runner's copy match the scheduler, and does attention read only what was written? |
| `shm_broadcast` | 2 local readers, a remote one, 2 chunks, small and large messages | Is a reader ever disturbed, does every reader get every message once and in order, and does every message arrive? |
| `executor` | 2 workers, 3 calls, 1 or 2 batches in flight, methods that raise | Do answers go to their calls unless a utility call disturbs them, and does the engine learn of a worker's death unless a utility call waits for it? |
| `dp_waves` | 2 engines, one front-end, 2 requests, all-reduce every 2 passes | Are engines that meet in the same wave, and does the group come to rest unless an engine was not woken? |
| `defragmenter` | 2 requests, 3 usable blocks, threshold 0, prefix caching | Mapping, counts, contents; does one call compact? |

Bounds.  Blocks of two tokens are the smallest with full and partial blocks; the
pools are small enough that running requests must be preempted and large enough
that two run and share a prefix.  Each request has one fixed token sequence, and
all arrival, abort, stop and acceptance choices are explored.  Two ranks are enough
for completions in different steps.  Two chunks and more messages than chunks make
the ring wrap round and fill up.  Two requests of a data parallel group meet every
combination of paused, running and waiting engines, and make two waves; the
all-reduce after 2 passes instead of 24 leaves passes between two of them.
`MaxEntries` bounds how often a block is listed for a request of the defragmenter,
as a guard of `Schedule`; 2 is enough for a request that resumes with a block it
had.  Deadlock is not checked where the system may stop: the engine, the runner,
the defragmenter, the executor and the waves rest when all requests or calls of the
instance are done (or an exception has stopped a process); it is checked for the
queue, the pool and the broadcast, whose readers poll for ever.

Fairness.  The busy loop keeps stepping while there are requests, an execution is
answered, a grammar that is being compiled is compiled in the end, and a transfer
completes and is read; clients owe nothing.  `EngineCore` states the first as
<>[] enabled => []<> step on `call`, which is weak fairness of `EngineStep`.
The writer of the broadcast finishes the enqueue it began unless it times out, and
readers keep dequeuing, as `worker_busy_loop` does.  Threads of the executor that
can run do, and workers that live work.  A blocking `execute_model` has a time-out, as
in the code; a utility call has none (`collective_rpc` defaults to `timeout=None`), and
nothing relies on the time-out of a future.
In the waves processes run and messages arrive; a message to an engine is handled
under strong fairness, since the engine empties its input queue in every round of
the loop but leaves that phase again and again.

Disagreements between the code and what it says of itself, each a run in which
TLC finds the stated property violated (quotes and lines under `findings`):

| Run | What happens |
|---|---|
| `prefill_before_decode` | A prompt hits a block that a decode of the same step completes; the runner runs prompts first, and they read the slot before it is written. |
| `defrag_same_id` | An id aborted, resubmitted and scheduled in one step: the new request's blocks are forgotten and overwritten. |

`defrag_same_id` is why the theorems on held blocks assume `~MayReuseId`.

The models also reach the following, for which no run is kept; they shape what the
passing runs state.  The change of constants that shows each is given.

* A request preempted after its first output token and resumed has output tokens
  while it recomputes its prompt, which `_get_prompts_and_decodes` asserts not to
  happen (`hpu_model_runner.py:875`).  `PassAssertions` is a guard of
  `ForwardPass`, so such a state of `HPUModelRunner` is a dead end.
* A request aborted before it was ever scheduled is reported finished to the
  defragmenter, which has no entry for it (`defragmentation.py:160`).  `ForgetFinished`
  is not enabled for it, so such a state of `OnlineDefragmenter` is a dead end.
* After accepted drafts and preemption the memoised hashes are too few for the
  lookup (`MCSpec` with `NumBlocks` 6, `UseEagle` FALSE, `NumSpecTokens` 1, budget 6:
  `ScheduleNeverRaises`).
* With just the memory the start-up check demands, the null block is missing for a
  request of `max_model_len`, which never finishes (`MCSpec` with `NumBlocks` 4 and
  no drafts: `EveryRequestFinishes`).
* With batches in flight, `update_from_output` puts cached data back for a request
  that was aborted before the last `schedule()` (`scheduler.py:832`), and an output
  without tokens is not sent, so that the workers do not hear of the finished
  requests and freed encoder inputs it carries (`core.py:260`).  So
  `NoCachedDataLeak` and `WorkersAgree` are checked in `engine` and not in
  `pipeline`.
* With three batches in flight a request can be preempted and resumed before an
  old batch answers, and gets a token while it is being prefilled
  (`scheduler.py:765`; `MCPipeline` with `MaxConcurrentBatches` 3: `AnswersAreCurrent`).
  With two, the answer to a request that was preempted is dropped before the request is
  scheduled again, and the property holds.
* A finished request whose blocks are being sent is in `self.requests` and in no list.
  An abort of it - the client may not have seen its last output yet - gets to
  `self.waiting.remove` (`scheduler.py:899`), which raises, and the engine core ends; the
  interface says "If the request is not in the queue, this method will do nothing"
  (`core/sched/interface.py:80`).  It is the action `AbortRaises`, after which `failed`
  holds; the safety properties hold up to it, and `EveryRequestFinishes` excepts it.
* In the runner the new blocks of a request that goes on are added as a further group
  (`hpu_model_runner.py:767`), and only the row of the persistent batch has them all.  A
  running request that is skipped in a step and so taken out of the batch would come back
  with its first group only.  The instances of `runner` do not skip one: with one batch
  at a time, no encoder inputs and a budget for all running requests a running request is
  scheduled or preempted, and a preempted one gets all its blocks anew.
* With batches in flight a running request whose tokens are all in flight is not
  counted for the LoRA limit, and the assertion fails one step later
  (`scheduler.py:309`; `MCPipeline` with LoRAs 1, 2, 0 and chunks of one token).
  One batch at a time is enough when a running request is held back by the encoder
  budget: its LoRA is not counted either (requests with LoRAs 0, 1, 2, of which the
  first two have an input of length 2 at offset 1, `LongPrefillThreshold` 1, three
  running, `MaxLoras` 1, encoder budget 2: `ScheduleWithinLimits`).
* Blocks that were received get hashes even with prefix caching off
  (`_update_waiting_for_remote_kv`, `scheduler.py:1016`), and `get_new_blocks` then
  does not evict them, so that the assertion of `cache_full_blocks` fails when one is
  used again (`MCEngine` with `EnableCaching` FALSE: a request holds a block with the
  hash of another, `SharedBlocksAgree`).  With drafts and several batches in flight the
  hashed blocks of a request can run ahead of its certain tokens.  Both are outside
  `Modelled` (section 4).
* A preempted request keeps its encoder outputs, and a request before it in the
  queue may need their slots (`MCPipeline` with `EncoderCacheSize` 2 or 3:
  `EveryRequestFinishes`).  Two inputs of one request that fit alone are both
  scheduled although they do not fit together (`scheduler.py:675`; no prefix caching,
  `EncoderCacheSize` 4, budget 3, no chunks: the free slots become negative).
* A request that has received its blocks holds them behind a preempted request that
  needs them (`MCEngine` with `NumBlocks` 5: `EveryRequestFinishes`), and such
  holders are not counted by `get_num_common_prefix_blocks` (`CommonPrefixIsCommon`
  fails in `MCEngine`).
* A request aborted while its blocks are on their way gives them up while the
  transfer still writes them (`TransfersWriteOwnBlocks` without its exception for
  finished requests).  The property holds for all other requests of the same run.
* The engine that is not woken because it has the first request of the wave does not
  wake when that request is aborted before its first pass, and the others wait for
  it (`coordinator.py:242`).  A front-end that hears of a newer wave before it sends its
  notice (`core_client.py:972`) has the same effect.  Both set `missed`, without which
  `ComesToRest` is violated; nothing else keeps the group from its rest.
* A utility call while futures are pending takes an answer that belongs to the I/O
  thread, and one that fails in one worker leaves the answers of the others to the
  next call.  Both set `misread`, without which `AnswersMatchCalls` is violated.
* A utility call that waits for a worker that dies waits for ever: it has no time-out and
  no event that cancels it (`multiproc_executor.py:210`), and the engine does not look
  into its input queue (`WaitsForTheDead`, without which `EngineLearnsOfDeath` is
  violated).
* A prompt that hits a block completed in the same step (`prefill_before_decode`)
  needs prefix caching, so `runner` has it off, as it is with the heap free queue.

## 4. Proofs

Free list (for every `NumBlocks`).  `ListCorrect` and `CountCorrect` follow from
the inductive invariant `IInv = TypeOK /\ CountIsFree /\ InUseUnlinked /\
WellLinked`: `InUseUnlinked` is needed because an append to an empty list does not
write `prev_free_block`.  The lemmas give the list after each method explicitly.
`ListSimulatesQueue` is the step part of the refinement that `free_queue` checks:
each step is a step of the queue for the sequence that the links spell.

Message queue (for every number of local and remote readers, chunks and messages).
`ReadersSafe` and `QueueImplementsBroadcast` follow from the inductive invariant
`IInv = Ring /\ LocalSockets /\ RemoteSockets` (`QueueInvariant`).

* `Ring`: the chunks a reader is behind the writer are the messages it has yet to
  take (`Positions`); a chunk is marked written iff it has a message and is not the
  one being written (`WrittenOnes`); the flag of a written chunk says whether the
  reader has taken its message (`Flags`).  The writer sums flags one by one while
  readers set them: the sum is full only if every flag it read was set, and flags of
  a written chunk are never unset (`WriterAt`), so a writer that goes on is less
  than a round ahead of every reader.  A reader that saw its flag unset enters only
  a written chunk, so the flag must be reset before the chunk is marked
  (`ReaderAt`).
* `LocalSockets`: the socket of a local reader is increasing, holds only messages it
  has yet to take, and holds (or is about to get) that of each overflow chunk ahead
  of it.  So the head of the socket is the message the reader waits for, though
  nothing in it names the chunk.
* `RemoteSockets`: the socket of a remote reader holds what was sent and not taken.

Defragmenter (for every number of blocks and requests, threshold, limit on swaps,
with and without prefix caching).

* `Accounting` (types, `MappingIsPermutation`, `UsedIsReferenced`, what may be
  pending in the output, the null block in no list) is inductive and gives
  `MappingCorrect` and `CountsCorrect`.  The key lemma is that `Partner` is an
  involution: ranks of used and free places are strictly monotonic, so a place
  occurs in at most one pair (`PairsAreDisjoint`).  Exact counts are needed to show
  that no count becomes negative, and `NullNotListed` to show that the null block is
  not used and so never moved.
* `Ownership` (who holds blocks is running, who finished does not hold, what is
  held is listed or about to be; contents of the blocks that count) is inductive
  together with `Accounting` when no id is used again before the workers heard of
  its end, and gives `HeldNeverFree` and `ContentsCorrect`.  In the one-way copy,
  a held block's place is used, so its partner is free and is the one copied to.

Block pool (for every number of blocks, every finite set of requests and every
choice of their hash chains, caching on or off).  The five theorems are conjuncts of
one inductive invariant (`PoolInvariant`), since they need each other: a count can
only be lowered if the holder is counted (`BlocksAccounted`), a block of the free
queue may be evicted because nobody holds it, so no list is changed under its request
(`IndexIsExact`), and the free blocks suffice for the rest of a call although hits
are taken out of the queue one by one (`CallCompletes`).  What is added to them:

* a request holds a block once, never the null block, and a block without a hash
  alone (`HeldOnce`, `HeldAlone`): only then is the block that gets a hash in
  `cache_full_blocks` no one else's;
* what is left of a call fits the request and its chain (`CallFits`);
* every hash that a free block builds on is carried by a block in use or further back
  in the queue (`EvictionOrder`).  `ChainsHaveNoHoles` is not inductive: that the
  head of the queue can be evicted without a hole depends on the order of the whole
  queue.  `free` appends the last block first, and a block that is used by another
  request goes with the blocks before it.

Executor (for every number of workers, calls and concurrent batches).
`EngineGetsItsAnswers` has no further assumption: methods may raise, and utility calls
may be made beside pending futures.  What is inductive is `misread \/ IInv`, since once two
threads have read one queue nothing is known of the rest.  Answers carry no call number,
so `IInv` is about what each worker owes (`Uncollected`, the answers that are in its queue or will be): an answer
read is to the oldest call owed (lemma `AnswerRead`).

* Before a failure, and while no future has given up, the output rank owes exactly
  the tasks of the I/O thread and the others nothing (`OpenInStep`); a blocking call
  is the only one owed (`Collecting`).
* A future that gives up leaves its answer behind, and later ones may get the answer
  of another call (`Lost`, `TasksInStep`, `ResultsMatch`).  The engine takes futures
  oldest first, and ends at the one that gave up; so no wrong answer is used.
* Queues are closed and tasks cancelled only when the executor has failed or the
  engine has ended (`Flags`), after which nothing new is broadcast.

Waves (for every number of engines, front-ends and requests, whatever is aborted and
however late a front-end is, `missed` or not).  `WavesAlwaysAgree` follows from
`IInv = Types /\ SameLevel /\ KnownUpTo(Level(0))`: an engine that left an all-reduce
that ended the wave counts as one wave further before it has noted so (`Level`); at
every moment all engines are at the same level, and no process and no message knows
of a later wave, so a message can only repeat the wave an engine is in.

Scheduler and engine core (for every set of requests and every choice of limits,
budgets, chunks, drafts, LoRAs, grammars, encoder inputs and remote blocks).

* `RequestsHaveOnePlace` and `ServedInOrder`, for any number of batches in flight,
  follow from `QueueInv = Shapes /\ Control /\ InPlace`.  `InPlace` says of the running
  list, the requests skipped by the `schedule()` in progress and the waiting queue that
  they are disjoint, that each lists a request once and that the list fits its status,
  and that apart from requests that may be skipped each list is in the order of arrival
  and the running list is ahead of the waiting queue.  `OnePlace` alone is not
  inductive: inside `schedule()` a skipped request is in neither list, and inside
  `update_from_output()` a request that has just stopped is still in the old `running`.
  A finished request is in no list, so `OnePlace` says that `running.remove` and
  `waiting.remove` find every request that has not finished; that they do not find one
  that is still being sent is `AbortRaises`, which changes nothing but `failed` (lemma
  `NextSteps`), so that the invariants are about `Steps` only.
  `Control` bounds the loop index of `update_from_output()` and says that nothing is
  left over as skipped once a `schedule()` has ended.  The proof uses nothing of what the KV cache manager, the encoder cache or
  the connector answer, so it covers every answer they could give.
* `CachedDataIsDropped` and `AnswersStayCurrent` assume `MaxConcurrentBatches = 1` and
  follow from `OutputInv = OutputRecords /\ CachedData` together with `QueueInv`
  (`OutputInvariant`).  During `schedule()` the output records the counts of what it
  schedules as they are, also after a preemption took a request out of it again; after
  it, each request that waits for its answer has advanced by exactly the scheduled
  tokens.  Of the requests that the output returns cached data for, one that is
  finished is in `finished_req_ids`, so its data is not put back.  With batches in
  flight the first property is false, and the second is false from three batches on
  (section 3); that it holds with two is model-checked in `pipeline`.

* The other theorems rest on `EngineInvariant`, which says that
  `QueueInv /\ TransferInv /\ EngineInv` is inductive.  `EngineInv` has three parts.
  `ManagerOK(kvm)`: the pool is exact (free queue, counts, hash index), each request's
  list holds a block once with its own hashes on the first `num_cached_block` of them,
  the counts are the numbers of holders, and a block without a hash has one holder.
  `Progress(r)`: a running request's hashed blocks hold computed and certain tokens
  (not drafts), and its blocks have room for all tokens in flight; a waiting one holds
  blocks only if it received them, a finished one only if they are to be read.
  `OutsOK`: the shape of the outputs in the call and in flight.  `TransferInv` counts
  arrivals and reads per rank: without it a completion could be reported twice, and the
  blocks of a request freed or handed over before the last rank.  Inside `schedule()`
  the scheduled tokens count as computed, and in `update_from_output()` drafts are
  doubtful until their request's turn (`Counted`, `Doubtful`); without this, neither
  call preserves `Progress` step by step.  It gives `BlocksAreOwned`,
  `SharedBlocksHoldTheSame`, `PrefixIsCommon` and `TokensHaveSlots` directly.
* Each of the others adds an invariant of its own: `TypesAreKept` (`TypeInv`);
  `OwnBlocksAreWritten` (`LoadInv`: a load, from its request in the connector through the
  output to the ranks, writes only blocks behind the hashed ones of a request that
  waits for them); `EncoderOutputsAreThere` (`EncoderInv`: what the scheduler takes for
  cached is at the workers once outputs in flight and freed inputs are counted);
  `LimitsAreKept` (`LimitsInv`, `LoraInv`); `LookupsSucceed` (`HashInv`: the memoised
  hashes of a request reach all full blocks it can be asked for); `WorkersKeepUp`
  (`KnowsInv`, `SlotsInv`); `SentBlocksAreKept` (`SendInv`: `ReadInv` counts the reads
  of a request, `CapInv` keeps live requests below their length, `DraftsFollow` says
  that drafts follow the last known token, so that a request that reaches its length
  has a full block to send).
* Hypotheses.  `Modelled` is `(MaxConcurrentBatches = 1 \/ NumSpecTokens = 0) /\
  (EnableCaching \/ RemotePrefill = {})`; outside it the engine invariant is false
  (section 3).  `LorasKept`: all LoRAs fit, or one batch at a time and no encoder
  inputs for requests with a LoRA; otherwise the LoRA limit can be exceeded (section
  3; the `engine` run has such requests, without the chunks that make it happen).
  `LookupsSucceed` has one batch and no drafts, since accepted drafts leave too few
  hashes.  `WorkersKeepUp` has one batch, and at most one input per request
  (`OneInput`), since two are compared with the free slots each on its own
  (`scheduler.py:675`).  `PrefixIsCommon` has no KV transfers, since requests that
  received blocks or wait to be read hold blocks without running.
  `OwnBlocksAreWritten` has none beyond `Modelled`: its `LoadInv` is about the requests
  that were not aborted, whose blocks no abort of another touches.  `SentBlocksAreKept` has one batch,
  and requests to be read that are longer than a block (`LongEnough`): only full blocks
  are sent, and a request without one is freed at once.
* The manager's calls are folds over blocks.  What one iteration of `touch`,
  `get_new_block`, `cache_full_block` and `free_block` keeps is proved first, for a pool
  in the middle of such a loop (the facts `BlockPool_proofs` has for its steps, stated
  for a pool as a value); then the fold of the code is shown to be a function of the
  number of iterations, and the first iteration after which the fact fails is shown not
  to exist.  Finite sets are treated likewise, by a smallest set.

Assumptions on constants are `NumBlocksAssumption`, `MessageQueueAssumption`,
`DefragAssumption`, `PoolAssumption`, `ChainAssumption` (a hash determines its place
in a chain and all hashes before it, as a hash of the whole prefix does),
`ExecutorAssumption`, `DPAssumption`, and for the engine `SchedulerAssumption`,
`ManagerAssumption`, `EncoderAssumption`, `ConnectorAssumption` and
`EngineAssumption` (lengths, limits and sizes are those the configuration checks of
the code allow); TLC evaluates them in the runs.

Only model-checked: liveness (`EveryRequestFinishes`, `EveryMessageArrives`,
`EngineLearnsOfDeath`, `ComesToRest`), which is out of the prover's reach; `Compacts`
(a counting argument on ranks); the initial condition of the free list refinement and
the queue as a recursive walk (an induction over data); the runner's copy of the
requests and what attention reads (`RunnerMirrorsScheduler`, `ReadsWritten`), whose
specification has more steps than the engine's, so that every engine lemma would have
to be stated again for it, and whose `condense` and `ensure_decodes_first` are sorts;
and the engine's properties in the instances that the hypotheses above leave out, which
`pipeline` (two batches in flight), `speculative` and `engine` cover where they hold.

## 5. Not modelled, and what could follow

Not modelled, with the reasons in `PROJECT.json`: the hybrid coordinator and sliding
windows, output processing, grammar and draft computations, bucketing, the Gaudi
runner's tensors, workers, kernels, models, the V0 engine.

Open, in this order:

1. Proofs of the runner's copy of the requests (`RunnerMirrorsScheduler`), of
   `AnswersAreCurrent` with two batches in flight, and of `Compacts` for the
   defragmenter.
2. The hybrid coordinator and the sliding window manager; the Gaudi runner's
   differences to the modelled one.
3. An abstract specification of the engine (each request gets a prefix of its own
   answer, once, and then finishes) that `EngineCore` implements.
