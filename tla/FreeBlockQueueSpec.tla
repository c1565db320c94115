------------------------- MODULE FreeBlockQueueSpec -------------------------
(***************************************************************************)
(* What the free block queue promises its owner, the block pool: a FIFO    *)
(* from which a block in the middle can be taken out without disturbing    *)
(* the order of the others.  The queue order is the eviction order of the  *)
(* prefix cache, so "the order of the others" is the promise that matters. *)
(*                                                                         *)
(* The doubly linked list of FreeKVCacheBlockQueue implements this         *)
(* specification; the block pool (BlockPool.tla) is written on top of it.  *)
(***************************************************************************)
EXTENDS Naturals, Sequences

CONSTANTS Blocks,       \* the KV cache blocks
          InitQueue,    \* all of them, in the order of the constructor's list
          InitRet       \* the value of ret before the first call

VARIABLES queue,        \* the free blocks, next to be handed out first
          ret           \* the last call and the block it took or returned

specVars == <<queue, ret>>

\* The block ids of a queue.
Members(q) == {q[i] : i \in DOMAIN q}

\* q without the block at position i, the others in their order.
DropAt(q, i) == [j \in 1..(Len(q) - 1) |-> IF j < i THEN q[j] ELSE q[j + 1]]

SpecInit == queue = InitQueue /\ ret = InitRet

SpecPopLeft ==
  /\ queue # << >>
  /\ queue' = Tail(queue)
  /\ ret' = [op |-> "popleft", block |-> Head(queue)]

SpecRemove(b) ==
  \E i \in DOMAIN queue :
    /\ queue[i] = b
    /\ queue' = DropAt(queue, i)
    /\ ret' = [op |-> "remove", block |-> b]

SpecAppend(b) ==
  /\ b \notin Members(queue)
  /\ queue' = Append(queue, b)
  /\ ret' = [op |-> "append", block |-> b]

SpecNext == SpecPopLeft \/ \E b \in Blocks : SpecRemove(b) \/ SpecAppend(b)

QueueSpec == SpecInit /\ [][SpecNext]_specVars
=============================================================================
