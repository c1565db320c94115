----------------------- MODULE FreeKVCacheBlockQueue -----------------------
(***************************************************************************)
(* The doubly linked list of free KV cache blocks                          *)
(* (vllm/v1/core/kv_cache_utils.py, class FreeKVCacheBlockQueue).  The     *)
(* links live in the blocks themselves (prev_free_block, next_free_block), *)
(* so a block that is handed out with a link still set would corrupt the   *)
(* list when it comes back.                                                *)
(*                                                                         *)
(* The caller (BlockPool) takes out only blocks that are in the queue and  *)
(* puts back only blocks it took out; in_use records which is which.       *)
(***************************************************************************)
EXTENDS Integers, Sequences, FiniteSets

CONSTANT NumBlocks      \* num_gpu_blocks

ASSUME NumBlocksAssumption == NumBlocks \in Nat \ {0}

Blocks == 0..(NumBlocks - 1)
NoBlock == -1           \* Python's None in a link

VARIABLES prev_free_block,   \* [Blocks -> Blocks \cup {NoBlock}]
          next_free_block,
          free_list_head,
          free_list_tail,
          num_free_blocks,
          in_use,            \* the caller's side: blocks it has taken out
          ret                \* the last call and the block it took or returned

vars == <<prev_free_block, next_free_block, free_list_head, free_list_tail,
          num_free_blocks, in_use, ret>>

Link == Blocks \cup {NoBlock}

TypeOK ==
  /\ prev_free_block \in [Blocks -> Link]
  /\ next_free_block \in [Blocks -> Link]
  /\ free_list_head \in Link
  /\ free_list_tail \in Link
  /\ num_free_blocks \in 0..NumBlocks
  /\ in_use \subseteq Blocks
  /\ ret \in [op : {"init", "popleft", "remove", "append"}, block : Link]

-----------------------------------------------------------------------------
\* __init__: the blocks in the order of their ids.
Init ==
  /\ num_free_blocks = NumBlocks
  /\ free_list_head = 0
  /\ free_list_tail = NumBlocks - 1
  /\ prev_free_block = [b \in Blocks |-> IF b > 0 THEN b - 1 ELSE NoBlock]
  /\ next_free_block = [b \in Blocks |-> IF b < NumBlocks - 1 THEN b + 1 ELSE NoBlock]
  /\ in_use = {}
  /\ ret = [op |-> "init", block |-> NoBlock]

\* remove(b): the neighbours of b are linked to each other and b to nothing.
NextWithout(b) ==
  [x \in Blocks |-> IF x = b THEN NoBlock
                    ELSE IF x = prev_free_block[b] THEN next_free_block[b]
                    ELSE next_free_block[x]]

PrevWithout_NoBackLink(b) == [prev_free_block EXCEPT ![b] = NoBlock]
PrevWithout(b) ==
  [x \in Blocks |-> IF x = b THEN NoBlock
                    ELSE IF x = next_free_block[b] THEN prev_free_block[b]
                    ELSE prev_free_block[x]]

TailWithout(b) == IF b = free_list_tail THEN prev_free_block[b] ELSE free_list_tail

Unlink(b) ==
  /\ next_free_block' = NextWithout(b)
  /\ prev_free_block' = PrevWithout(b)
  /\ free_list_head' = IF b = free_list_head THEN next_free_block[b]
                                             ELSE free_list_head
  /\ free_list_tail' = TailWithout(b)
  /\ num_free_blocks' = num_free_blocks - 1
  /\ in_use' = in_use \cup {b}

\* popleft; the caller never asks an empty queue (get_new_blocks checks first).
PopLeft ==
  /\ free_list_head # NoBlock
  /\ Unlink(free_list_head)
  /\ ret' = [op |-> "popleft", block |-> free_list_head]

\* remove, called by touch for a block with ref_cnt = 0.
Remove(b) ==
  /\ b \notin in_use
  /\ Unlink(b)
  /\ ret' = [op |-> "remove", block |-> b]

\* append: b is linked behind the tail.  An empty list only gets its head.
LinkLast_AtHead(b) ==
  /\ prev_free_block' = [x \in Blocks |->
       IF x = free_list_head THEN b ELSE prev_free_block[x]]
  /\ next_free_block' = [next_free_block EXCEPT ![b] = free_list_head]
  /\ free_list_head' = b
  /\ free_list_tail' = IF free_list_tail = NoBlock THEN b ELSE free_list_tail
LinkLast(b) ==
  /\ IF free_list_tail # NoBlock
     THEN /\ next_free_block' = [next_free_block EXCEPT ![free_list_tail] = b,
                                                        ![b] = NoBlock]
          /\ prev_free_block' = [prev_free_block EXCEPT ![b] = free_list_tail]
          /\ UNCHANGED free_list_head
     ELSE /\ next_free_block' = [next_free_block EXCEPT ![b] = NoBlock]
          /\ free_list_head' = b
          /\ UNCHANGED prev_free_block
  /\ free_list_tail' = b

\* append, called by free_blocks for a block whose ref_cnt fell to 0.
AppendBlock_NotCounted(b) ==
  /\ b \in in_use
  /\ LinkLast(b)
  /\ UNCHANGED num_free_blocks
  /\ in_use' = in_use \ {b}
  /\ ret' = [op |-> "append", block |-> b]
AppendBlock(b) ==
  /\ b \in in_use
  /\ LinkLast(b)
  /\ num_free_blocks' = num_free_blocks + 1
  /\ in_use' = in_use \ {b}
  /\ ret' = [op |-> "append", block |-> b]

Next == PopLeft \/ \E b \in Blocks : Remove(b) \/ AppendBlock(b)

Spec == Init /\ [][Next]_vars

-----------------------------------------------------------------------------
\* get_all_free_blocks: the links followed from the head.  A list with a cycle
\* is cut after NumBlocks blocks.
get_all_free_blocks ==
  LET node[k \in Nat] ==
        IF k = 0 THEN free_list_head
        ELSE LET last == node[k - 1]
             IN IF last = NoBlock THEN NoBlock ELSE next_free_block[last]
      len == Cardinality({k \in 0..(NumBlocks - 1) : node[k] # NoBlock})
  IN [i \in 1..len |-> node[i - 1]]

\* Whatever the order of calls, the assertion in append holds, the list has a
\* head exactly when a block is free, and num_free_blocks (which get_new_blocks
\* trusts before it pops) is the number of blocks that can really be popped.
CountIsExact ==
  /\ (free_list_head = NoBlock) <=> (in_use = Blocks)
  /\ (free_list_tail = NoBlock) <=> (in_use = Blocks)
  /\ num_free_blocks = Cardinality(Blocks \ in_use)

\* A block handed out keeps no link into the list: popleft, remove and append
\* leave prev_free_block and next_free_block of every block in use at None, so
\* an append to an empty list (which does not write prev_free_block) is right.
InUseUnlinked ==
  \A b \in in_use : prev_free_block[b] = NoBlock /\ next_free_block[b] = NoBlock

\* q is the list the links and the two ends describe.
IsList(q) ==
  /\ \A i, j \in 1..num_free_blocks : q[i] = q[j] => i = j
  /\ \A b \in Blocks : b \notin in_use <=> \E i \in 1..num_free_blocks : q[i] = b
  /\ \A i \in 1..num_free_blocks :
       /\ next_free_block[q[i]] = IF i < num_free_blocks THEN q[i + 1] ELSE NoBlock
       /\ prev_free_block[q[i]] = IF i > 1 THEN q[i - 1] ELSE NoBlock
  /\ free_list_head = IF num_free_blocks > 0 THEN q[1] ELSE NoBlock
  /\ free_list_tail = IF num_free_blocks > 0 THEN q[num_free_blocks] ELSE NoBlock

\* The links are never lost, crossed or closed to a cycle: there is one sequence
\* of exactly the free blocks that both directions of the links spell out, from
\* free_list_head to free_list_tail.
WellLinked == \E q \in [1..num_free_blocks -> Blocks] : IsList(q)

\* The linked list implements the FIFO with removal that the block pool relies
\* on: after any calls, walking the list (get_all_free_blocks) gives the free
\* blocks in their eviction order, and popleft returns the first of them.
Abstract == INSTANCE FreeBlockQueueSpec
              WITH queue <- get_all_free_blocks,
                   InitQueue <- [i \in 1..NumBlocks |-> i - 1],
                   InitRet <- [op |-> "init", block |-> NoBlock]
ImplementsQueue == Abstract!QueueSpec
=============================================================================
