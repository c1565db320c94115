---------------------------- MODULE MessageQueue ----------------------------
(***************************************************************************)
(* MessageQueue of shm_broadcast.py: one writer, local readers on a ring   *)
(* of chunks in shared memory, and remote readers on a socket.  There is   *)
(* no lock; each access to a flag or to the data of a chunk is a step, and *)
(* writing and reading data take time.  Messages too large for a chunk go  *)
(* through a socket, the chunk only says so.                               *)
(***************************************************************************)
EXTENDS Integers, Sequences

CONSTANTS
  NReaders,        \* local readers, their ranks are 1..NReaders
  RemoteReaders,   \* readers on other nodes
  MaxChunks,       \* chunks of the ring
  MaxMessages      \* bound on the messages enqueued

LocalReaders == 1..NReaders
Readers == LocalReaders \cup RemoteReaders
Chunks == 0..(MaxChunks - 1)

ASSUME MessageQueueAssumption ==
  /\ NReaders \in Nat \ {0} /\ MaxChunks \in Nat \ {0} /\ MaxMessages \in Nat
  /\ RemoteReaders \cap LocalReaders = {}

\* What a chunk holds besides a message, which is its number.
Overflow == 0   \* the message is in the socket
Torn == -1      \* nothing, or a part of a message

VARIABLES
  written, read_flag, data,   \* the shared memory: metadata and data by chunk
  sockets,                    \* messages on their way to each reader
  write_idx, writer,          \* the writer: its current_idx and its locals
  read_idx, reader,           \* the local readers: the same for each
  sent, got                   \* messages enqueued; the last one of each reader

ringVars == <<written, read_flag, data>>
writerVars == <<write_idx, writer, sent>>
readerVars == <<read_idx, reader, got>>
vars == <<ringVars, sockets, writerVars, readerVars>>

\* The state after wait_until_ready: the flags are 0, everyone is subscribed.
Init ==
  /\ written = [c \in Chunks |-> FALSE]
  /\ read_flag = [c \in Chunks |-> [r \in LocalReaders |-> 0]]
  /\ data = [c \in Chunks |-> Torn]
  /\ sockets = [r \in Readers |-> << >>]
  /\ write_idx = 0
  /\ writer = [pc |-> "idle", i |-> 1, read_count |-> 0, big |-> FALSE]
  /\ read_idx = [r \in LocalReaders |-> 0]
  /\ reader = [r \in LocalReaders |-> [pc |-> "poll", read_flag |-> 0, buf |-> Torn]]
  /\ sent = 0
  /\ got = [r \in Readers |-> 0]

-----------------------------------------------------------------------------
\* enqueue and acquire_write.  The flags of the readers are summed one by one,
\* then the written flag is read.
Enqueue(big) ==
  /\ writer.pc = "idle"
  /\ sent < MaxMessages
  /\ writer' = [writer EXCEPT !.pc = "scan", !.i = 1, !.read_count = 0, !.big = big]
  /\ UNCHANGED <<ringVars, sockets, write_idx, sent, readerVars>>

SumReadFlag ==
  /\ writer.pc = "scan" /\ writer.i <= NReaders
  /\ writer' = [writer EXCEPT !.i = @ + 1,
                              !.read_count = @ + read_flag[write_idx][writer.i]]
  /\ UNCHANGED <<ringVars, sockets, write_idx, sent, readerVars>>

Scanned == writer.pc = "scan" /\ writer.i > NReaders
Blocked_IfUnread == written[write_idx] /\ writer.read_count = 0
Blocked == written[write_idx] /\ writer.read_count # NReaders

WaitForReaders ==
  /\ Scanned /\ Blocked
  /\ writer' = [writer EXCEPT !.i = 1, !.read_count = 0]
  /\ UNCHANGED <<ringVars, sockets, write_idx, sent, readerVars>>

EnqueueTimesOut ==
  /\ Scanned /\ Blocked
  /\ writer' = [writer EXCEPT !.pc = "idle"]
  /\ UNCHANGED <<ringVars, sockets, write_idx, sent, readerVars>>

ClearWritten ==
  /\ Scanned /\ ~Blocked
  /\ written' = [written EXCEPT ![write_idx] = FALSE]
  /\ writer' = [writer EXCEPT !.pc = "begin"]
  /\ UNCHANGED <<read_flag, data, sockets, write_idx, sent, readerVars>>

BeginWrite ==
  /\ writer.pc = "begin"
  /\ data' = [data EXCEPT ![write_idx] = Torn]
  /\ writer' = [writer EXCEPT !.pc = "end"]
  /\ UNCHANGED <<written, read_flag, sockets, write_idx, sent, readerVars>>

EndWrite ==
  /\ writer.pc = "end"
  /\ data' = [data EXCEPT ![write_idx] = IF writer.big THEN Overflow ELSE sent + 1]
  /\ writer' = [writer EXCEPT !.pc = "reset", !.i = 1]
  /\ UNCHANGED <<written, read_flag, sockets, write_idx, sent, readerVars>>

\* The flags of the readers are reset first, then the chunk is marked written.
ResetReadFlag ==
  /\ writer.pc = "reset" /\ writer.i <= NReaders
  /\ read_flag' = [read_flag EXCEPT ![write_idx][writer.i] = 0]
  /\ writer' = [writer EXCEPT !.i = @ + 1]
  /\ UNCHANGED <<written, data, sockets, write_idx, sent, readerVars>>

FlagsReset_AllButLast == writer.pc = "reset" /\ writer.i >= NReaders
FlagsReset == writer.pc = "reset" /\ writer.i > NReaders
MarkWritten ==
  /\ FlagsReset
  /\ written' = [written EXCEPT ![write_idx] = TRUE]
  /\ write_idx' = (write_idx + 1) % MaxChunks
  /\ sent' = sent + 1
  /\ writer' = [writer EXCEPT !.pc = IF writer.big THEN "send" ELSE "remote"]
  /\ UNCHANGED <<read_flag, data, sockets, readerVars>>

\* enqueue, after acquire_write: a large message goes to the sockets of the
\* local readers, and every message to those of the remote ones.
SendTo(S) == [r \in Readers |-> IF r \in S THEN Append(sockets[r], sent) ELSE sockets[r]]
SendLarge ==
  /\ writer.pc = "send"
  /\ sockets' = SendTo(LocalReaders)
  /\ writer' = [writer EXCEPT !.pc = "remote"]
  /\ UNCHANGED <<ringVars, write_idx, sent, readerVars>>

SendRemote ==
  /\ writer.pc = "remote"
  /\ sockets' = SendTo(RemoteReaders)
  /\ writer' = [writer EXCEPT !.pc = "idle"]
  /\ UNCHANGED <<ringVars, write_idx, sent, readerVars>>

-----------------------------------------------------------------------------
\* dequeue and acquire_read.  The reader reads its own flag, then the written
\* flag.  When the chunk is not ready it starts again; a dequeue that times out
\* or is cancelled here leaves the same state.
ReadFlag(r) ==
  /\ reader[r].pc = "poll"
  /\ reader' = [reader EXCEPT ![r].pc = "check",
                              ![r].read_flag = read_flag[read_idx[r]][r]]
  /\ UNCHANGED <<ringVars, sockets, writerVars, read_idx, got>>

CanRead_IgnoresFlag(r) == written[read_idx[r]]
CanRead(r) == written[read_idx[r]] /\ reader[r].read_flag = 0

CheckWritten(r) ==
  /\ reader[r].pc = "check"
  /\ reader' = [reader EXCEPT ![r].pc = IF CanRead(r) THEN "read" ELSE "poll"]
  /\ UNCHANGED <<ringVars, sockets, writerVars, read_idx, got>>

\* Reading takes time: what was read is what the chunk holds at the end of it.
ReadChunk(r) ==
  /\ reader[r].pc = "read"
  /\ reader' = [reader EXCEPT ![r].pc = "mark", ![r].buf = data[read_idx[r]]]
  /\ UNCHANGED <<ringVars, sockets, writerVars, read_idx, got>>

MarkRead(r) ==
  /\ reader[r].pc = "mark"
  /\ read_flag' = [read_flag EXCEPT ![read_idx[r]][r] = 1]
  /\ read_idx' = [read_idx EXCEPT ![r] = (@ + 1) % MaxChunks]
  /\ reader' = [reader EXCEPT ![r].pc = IF reader[r].buf = Overflow THEN "recv" ELSE "poll"]
  /\ got' = IF reader[r].buf = Overflow THEN got ELSE [got EXCEPT ![r] = reader[r].buf]
  /\ UNCHANGED <<written, data, sockets, writerVars>>

\* MessageQueue.recv, without a timeout, as the workers call it.
Recv(r) ==
  /\ r \in LocalReaders => reader[r].pc = "recv"
  /\ sockets[r] # << >>
  /\ got' = [got EXCEPT ![r] = Head(sockets[r])]
  /\ sockets' = [sockets EXCEPT ![r] = Tail(@)]
  /\ reader' = [q \in LocalReaders |-> IF q = r THEN [reader[q] EXCEPT !.pc = "poll"]
                                       ELSE reader[q]]
  /\ UNCHANGED <<ringVars, writerVars, read_idx>>

-----------------------------------------------------------------------------
WriterStep ==
  \/ SumReadFlag \/ WaitForReaders \/ ClearWritten \/ BeginWrite \/ EndWrite
  \/ ResetReadFlag \/ MarkWritten \/ SendLarge \/ SendRemote
LocalStep(r) == ReadFlag(r) \/ CheckWritten(r) \/ ReadChunk(r) \/ MarkRead(r)

Next ==
  \/ \E big \in BOOLEAN : Enqueue(big)
  \/ WriterStep \/ EnqueueTimesOut
  \/ \E r \in LocalReaders : LocalStep(r)
  \/ \E r \in Readers : Recv(r)

\* A writer finishes the enqueue it began (unless it times out), readers keep
\* dequeuing (worker_busy_loop), and sockets deliver.
Fairness ==
  /\ WF_vars(WriterStep)
  /\ \A r \in LocalReaders : WF_vars(LocalStep(r))
  /\ \A r \in Readers : WF_vars(Recv(r))

Spec == Init /\ [][Next]_vars /\ Fairness

-----------------------------------------------------------------------------
\* While a reader is inside acquire_read, the chunk it was given is its next
\* one and stays as it is: the writer does not come round and write it.
ReadersUndisturbed ==
  \A r \in LocalReaders : reader[r].pc \in {"read", "mark"} =>
    /\ written[read_idx[r]]
    /\ data[read_idx[r]] # Torn
    /\ reader[r].pc = "mark" => reader[r].buf = data[read_idx[r]]
    /\ data[read_idx[r]] \in {Overflow, got[r] + 1}

\* The queue delivers to each reader every message, in order and once.
BS == INSTANCE BroadcastSpec
ImplementsBroadcast == BS!Broadcast

\* A message that was enqueued reaches every reader.
EveryMessageArrives ==
  \A r \in Readers : \A n \in 1..MaxMessages : (sent = n) ~> (got[r] >= n)
=============================================================================
