--------------------------- MODULE BroadcastSpec ---------------------------
(***************************************************************************)
(* What a message queue of shm_broadcast.py promises: one writer enqueues  *)
(* messages, and each reader dequeues all of them, in order and once.      *)
(* Messages are numbered as they are enqueued.                             *)
(***************************************************************************)
EXTENDS Naturals

CONSTANT Readers

VARIABLES
  sent,   \* the number of messages enqueued
  got     \* for each reader, the message it dequeued last (0: none)

BroadcastInit == sent = 0 /\ got = [r \in Readers |-> 0]

Enqueue == sent' = sent + 1 /\ UNCHANGED got

Dequeue(r) ==
  /\ got[r] < sent
  /\ got' = [got EXCEPT ![r] = @ + 1]
  /\ UNCHANGED sent

BroadcastNext == Enqueue \/ \E r \in Readers : Dequeue(r)

Broadcast == BroadcastInit /\ [][BroadcastNext]_<<sent, got>>
=============================================================================
