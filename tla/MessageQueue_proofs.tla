------------------------ MODULE MessageQueue_proofs ------------------------
(***************************************************************************)
(* The shared memory queue is safe and implements the broadcast            *)
(* specification, for every number of readers, chunks and messages.        *)
(*                                                                         *)
(* The argument: a reader is as many chunks behind the writer as it has    *)
(* messages to take (Positions), so the chunk it is at holds its next one; *)
(* the read flag of a written chunk says whether the reader has taken its  *)
(* message (Flags); the writer takes a chunk only after it has counted a   *)
(* set flag for each reader, and flags are only set in the meantime        *)
(* (WriterAt).  Sockets hold messages the reader has yet to take, in       *)
(* order, and exactly the ones whose chunk says so (LocalSockets).         *)
(***************************************************************************)
EXTENDS MessageQueue, TLAPS

\* The messages reader r has taken from the ring.
Consumed(r) == got[r] + IF reader[r].pc = "recv" THEN 1 ELSE 0

\* The message a chunk was last written with, below 1 if it never was.
MessageIn(c) ==
  IF c < write_idx THEN sent - (write_idx - 1 - c)
  ELSE sent - (write_idx + MaxChunks - 1 - c)

\* The writer is inside acquire_write.
Writing == writer.pc \in {"begin", "end", "reset"}

\* The locals of the writer and of a reader.
WriterStates ==
  [pc : {"idle", "scan", "begin", "end", "reset", "send", "remote"},
   i : Nat, read_count : Nat, big : BOOLEAN]
ReaderStates ==
  [pc : {"poll", "check", "read", "mark", "recv"}, read_flag : {0, 1}, buf : Int]

\* The types of the variables.
Types ==
  /\ written \in [Chunks -> BOOLEAN]
  /\ read_flag \in [Chunks -> [LocalReaders -> {0, 1}]]
  /\ data \in [Chunks -> Int]
  /\ sockets \in [Readers -> Seq(Int)]
  /\ write_idx \in Chunks
  /\ writer \in WriterStates
  /\ read_idx \in [LocalReaders -> Chunks]
  /\ reader \in [LocalReaders -> ReaderStates]
  /\ sent \in Nat
  /\ got \in [Readers -> Nat]

\* A reader is at most a round behind the writer, less than one while the
\* writer has a chunk, and its distance in the ring is what it has yet to take.
Positions ==
  \A r \in LocalReaders :
    /\ Consumed(r) <= sent
    /\ sent - Consumed(r) <= MaxChunks
    /\ Writing => sent - Consumed(r) < MaxChunks
    /\ \/ read_idx[r] + (sent - Consumed(r)) = write_idx
       \/ read_idx[r] + (sent - Consumed(r)) = write_idx + MaxChunks

\* The chunks marked written are those with a message, except the one being
\* written, and hold that message or the note that it is in the socket.
WrittenOnes ==
  \A c \in Chunks :
    /\ written[c] <=> MessageIn(c) >= 1 /\ ~(Writing /\ c = write_idx)
    /\ written[c] => data[c] \in {Overflow, MessageIn(c)}

\* The flag of a written chunk says whether the reader has taken its message.
Flags ==
  \A c \in Chunks, r \in LocalReaders :
    written[c] => (read_flag[c][r] = 1 <=> Consumed(r) >= MessageIn(c))

\* What the writer knows in the middle of its scan and of its reset.
WriterAt ==
  /\ writer.pc = "scan" =>
       /\ writer.i \in 1..(NReaders + 1)
       /\ writer.read_count <= writer.i - 1
       /\ writer.read_count = writer.i - 1 =>
            \A r \in LocalReaders : r < writer.i => read_flag[write_idx][r] = 1
  /\ writer.pc = "reset" =>
       /\ writer.i \in 1..(NReaders + 1)
       /\ data[write_idx] = IF writer.big THEN Overflow ELSE sent + 1
       /\ \A r \in LocalReaders : r < writer.i => read_flag[write_idx][r] = 0

\* What a reader knows between its reads of the flags and its mark.
ReaderAt ==
  \A r \in LocalReaders :
    /\ reader[r].pc = "check" /\ reader[r].read_flag = 0 => read_flag[read_idx[r]][r] = 0
    /\ reader[r].pc \in {"read", "mark"} =>
         written[read_idx[r]] /\ read_flag[read_idx[r]][r] = 0
    /\ reader[r].pc = "mark" => reader[r].buf = data[read_idx[r]]

\* Message n is in the socket of r, or is large and about to be sent there.
InSocket(r, n) == \E k \in 1..Len(sockets[r]) : sockets[r][k] = n
Unsent(n) == writer.pc = "send" /\ n = sent

\* The socket of a local reader holds large messages it has yet to take, in
\* order; the one it waits for, and the one of each overflow chunk, is there
\* or about to be.
LocalSockets ==
  \A r \in LocalReaders :
    /\ \A k, l \in 1..Len(sockets[r]) : k < l => sockets[r][k] < sockets[r][l]
    /\ \A k \in 1..Len(sockets[r]) :
         got[r] < sockets[r][k] /\ sockets[r][k] <= sent /\ ~Unsent(sockets[r][k])
    /\ writer.pc = "send" => got[r] < sent
    /\ reader[r].pc = "recv" => InSocket(r, Consumed(r)) \/ Unsent(Consumed(r))
    /\ \A c \in Chunks : written[c] /\ MessageIn(c) > Consumed(r) =>
         (data[c] = Overflow <=> InSocket(r, MessageIn(c)) \/ Unsent(MessageIn(c)))

\* The socket of a remote reader holds all that was sent and not yet taken.
Delivered == IF writer.pc \in {"send", "remote"} THEN sent - 1 ELSE sent
RemoteSockets ==
  \A r \in RemoteReaders :
    /\ got[r] + Len(sockets[r]) = Delivered
    /\ \A k \in 1..Len(sockets[r]) : sockets[r][k] = got[r] + k

\* The inductive invariant.
Ring == Types /\ Positions /\ WrittenOnes /\ Flags /\ WriterAt /\ ReaderAt
IInv == Ring /\ LocalSockets /\ RemoteSockets

\* The index after x in the ring.
LEMMA NextChunk ==
  ASSUME NEW x \in Chunks
  PROVE  /\ (x + 1) % MaxChunks \in Chunks
         /\ (x + 1) % MaxChunks = IF x + 1 = MaxChunks THEN 0 ELSE x + 1
  BY MessageQueueAssumption, SMT DEF Chunks

\* The distance of a reader to the writer grows by one when the writer moves on.
LEMMA WriterAdvances ==
  ASSUME NEW n \in Nat \ {0}, NEW w \in 0..(n - 1), NEW p \in 0..(n - 1),
         NEW s \in Nat, NEW a \in Nat, a <= s, s - a < n,
         p + (s - a) = w \/ p + (s - a) = w + n,
         NEW v, v = IF w + 1 = n THEN 0 ELSE w + 1
  PROVE  /\ a <= s + 1 /\ s + 1 - a <= n
         /\ p + (s + 1 - a) = v \/ p + (s + 1 - a) = v + n
<1>1. CASE w + 1 = n
  <2>1. v = 0
    BY <1>1
  <2> QED
    BY <1>1, <2>1
<1>2. CASE w + 1 # n
  <2>1. v = w + 1
    BY <1>2
  <2> QED
    BY <1>2, <2>1
<1> QED
  BY <1>1, <1>2

\* The chunk a reader is at holds the message it needs next, if there is one.
LEMMA NextMessage ==
  ASSUME Types, Positions, NEW r \in LocalReaders
  PROVE  /\ Consumed(r) \in Nat
         /\ Consumed(r) < sent => MessageIn(read_idx[r]) = Consumed(r) + 1
         /\ Consumed(r) = sent => MessageIn(read_idx[r]) = sent + 1 - MaxChunks
<1>1. /\ MaxChunks \in Nat \ {0} /\ write_idx \in 0..(MaxChunks - 1)
      /\ read_idx[r] \in 0..(MaxChunks - 1) /\ sent \in Nat /\ got[r] \in Nat
  BY MessageQueueAssumption DEF Types, WriterStates, ReaderStates, Chunks, Readers
<1>2. Consumed(r) \in Nat
  BY <1>1 DEF Consumed
<1>3. /\ Consumed(r) <= sent
      /\ sent - Consumed(r) <= MaxChunks
      /\ \/ read_idx[r] + (sent - Consumed(r)) = write_idx
         \/ read_idx[r] + (sent - Consumed(r)) = write_idx + MaxChunks
  BY DEF Positions
<1> QED
  BY <1>1, <1>2, <1>3 DEF MessageIn

\* Two chunks hold two messages.
LEMMA MessagesDiffer ==
  ASSUME Types, NEW c \in Chunks, NEW d \in Chunks
  PROVE  /\ MessageIn(c) \in Int /\ MessageIn(c) <= sent
         /\ sent - MaxChunks < MessageIn(c)
         /\ MessageIn(c) = MessageIn(d) => c = d
         /\ MessageIn(write_idx) = sent + 1 - MaxChunks
  BY MessageQueueAssumption DEF Types, WriterStates, ReaderStates, Chunks, MessageIn

\* The initial state satisfies the inductive invariant.
LEMMA InitInv == Init => IInv
<1> SUFFICES ASSUME Init PROVE IInv
  OBVIOUS
<1> USE MessageQueueAssumption DEF Init
<1>1. Types
  BY DEF Types, WriterStates, ReaderStates, Chunks, Readers, Torn
<1>2. Positions
  BY DEF Positions, Consumed, Writing, Readers
<1>3. WrittenOnes
  BY DEF WrittenOnes, MessageIn, Chunks
<1>4. Flags /\ WriterAt /\ ReaderAt
  BY DEF Flags, WriterAt, ReaderAt, Chunks
<1>5. LocalSockets /\ RemoteSockets
  BY DEF LocalSockets, RemoteSockets, Delivered, Readers, Chunks
<1> QED
  BY <1>1, <1>2, <1>3, <1>4, <1>5 DEF IInv, Ring

\* Steps that leave the sockets and what the readers have consumed alone, and
\* publish no chunk, keep the sockets right.
LEMMA SocketsKept ==
  ASSUME LocalSockets, UNCHANGED sent,
         (writer.pc = "send") <=> (writer.pc = "send")',
         \A r \in LocalReaders : sockets'[r] = sockets[r] /\ got'[r] = got[r],
         \A r \in LocalReaders : Consumed(r)' = Consumed(r),
         \A r \in LocalReaders : (reader[r].pc = "recv") <=> (reader[r].pc = "recv")',
         \A c \in Chunks : MessageIn(c)' = MessageIn(c),
         \A c \in Chunks : written'[c] => written[c] /\ data'[c] = data[c]
  PROVE  LocalSockets'
<1> SUFFICES ASSUME NEW r \in LocalReaders
    PROVE
    /\ \A k, l \in 1..Len(sockets'[r]) : k < l => sockets'[r][k] < sockets'[r][l]
    /\ \A k \in 1..Len(sockets'[r]) :
         got'[r] < sockets'[r][k] /\ sockets'[r][k] <= sent' /\ ~Unsent(sockets[r][k])'
    /\ writer'.pc = "send" => got'[r] < sent'
    /\ reader'[r].pc = "recv" => InSocket(r, Consumed(r))' \/ Unsent(Consumed(r))'
    /\ \A c \in Chunks : written'[c] /\ MessageIn(c)' > Consumed(r)' =>
         (data'[c] = Overflow <=> InSocket(r, MessageIn(c))' \/ Unsent(MessageIn(c))')
  BY DEF LocalSockets
<1>0. sockets'[r] = sockets[r] /\ got'[r] = got[r] /\ sent' = sent
  OBVIOUS
<1>1. /\ \A k, l \in 1..Len(sockets'[r]) : k < l => sockets'[r][k] < sockets'[r][l]
      /\ \A k \in 1..Len(sockets'[r]) :
           got'[r] < sockets'[r][k] /\ sockets'[r][k] <= sent' /\ ~Unsent(sockets[r][k])'
      /\ writer'.pc = "send" => got'[r] < sent'
  BY <1>0 DEF LocalSockets, Unsent
<1>2. reader'[r].pc = "recv" => InSocket(r, Consumed(r))' \/ Unsent(Consumed(r))'
  BY <1>0 DEF LocalSockets, Unsent, InSocket
<1>3. \A c \in Chunks : written'[c] /\ MessageIn(c)' > Consumed(r)' =>
         (data'[c] = Overflow <=> InSocket(r, MessageIn(c))' \/ Unsent(MessageIn(c))')
  BY <1>0 DEF LocalSockets, Unsent, InSocket
<1> QED
  BY <1>1, <1>2, <1>3

-----------------------------------------------------------------------------
\* Steps of the writer.  One that touches no chunk keeps the ring right:
LEMMA RingKept ==
  ASSUME Ring, UNCHANGED <<ringVars, write_idx, sent, readerVars>>,
         Types', Writing' <=> Writing, WriterAt'
  PROVE  /\ Ring'
         /\ \A r \in LocalReaders : Consumed(r)' = Consumed(r)
         /\ \A c \in Chunks : MessageIn(c)' = MessageIn(c)
<1> USE DEF Ring, ringVars, readerVars
<1>0. /\ \A r \in LocalReaders : Consumed(r)' = Consumed(r)
      /\ \A c \in Chunks : MessageIn(c)' = MessageIn(c)
  BY DEF Consumed, MessageIn
<1>1. Positions'
  BY <1>0 DEF Positions
<1>2. Flags' /\ ReaderAt'
  BY <1>0 DEF Flags, ReaderAt
<1>3. WrittenOnes'
  BY <1>0 DEF WrittenOnes
<1> QED
  BY <1>0, <1>1, <1>2, <1>3

\* and one that touches no socket either keeps all of it.
LEMMA WriterMoves ==
  ASSUME IInv, UNCHANGED <<ringVars, sockets, write_idx, sent, readerVars>>,
         Types', Writing' <=> Writing, WriterAt',
         (writer.pc = "send") <=> (writer.pc = "send")',
         Delivered' = Delivered
  PROVE  IInv'
<1> USE DEF IInv
<1>1. /\ Ring'
      /\ \A r \in LocalReaders : Consumed(r)' = Consumed(r)
      /\ \A c \in Chunks : MessageIn(c)' = MessageIn(c)
  BY RingKept
<1>2. LocalSockets'
  BY <1>1, SocketsKept DEF ringVars, readerVars
<1>3. RemoteSockets'
  BY DEF RemoteSockets, readerVars
<1> QED
  BY <1>1, <1>2, <1>3

\* Starting an enqueue keeps the invariant.
LEMMA EnqueueInv == ASSUME IInv, NEW big \in BOOLEAN, Enqueue(big) PROVE IInv'
<1> USE DEF Enqueue
<1>1. Types'
  BY DEF IInv, Ring, Types, WriterStates, ReaderStates, ringVars, readerVars
<1>2. writer'.pc = "scan" /\ writer'.i = 1 /\ writer'.read_count = 0
  BY DEF IInv, Ring, Types, WriterStates, ReaderStates
<1>3. WriterAt'
  BY <1>2, MessageQueueAssumption DEF WriterAt, LocalReaders
<1> QED
  BY <1>1, <1>2, <1>3, WriterMoves DEF Writing, Delivered

\* Counting a flag: the count is full only when all flags counted were set.
LEMMA SumReadFlagInv == ASSUME IInv, SumReadFlag PROVE IInv'
<1> USE DEF SumReadFlag
<1>0. /\ writer.i \in 1..NReaders /\ writer.read_count \in Nat /\ NReaders \in Nat
      /\ writer.pc = "scan" /\ write_idx \in Chunks
      /\ read_flag[write_idx][writer.i] \in {0, 1}
  BY MessageQueueAssumption DEF IInv, Ring, Types, WriterStates, ReaderStates, WriterAt, LocalReaders
<1>1. Types'
  <2>1. /\ writer.i + 1 \in Nat
        /\ writer.read_count + read_flag[write_idx][writer.i] \in Nat
    BY <1>0
  <2>2. writer' \in WriterStates
    BY <2>1 DEF IInv, Ring, Types, WriterStates, ReaderStates
  <2> QED
    BY <2>2 DEF IInv, Ring, Types, WriterStates, ReaderStates, ringVars, readerVars
<1>2. /\ writer'.pc = "scan" /\ writer'.i = writer.i + 1
      /\ writer'.read_count = writer.read_count + read_flag[write_idx][writer.i]
  BY <1>0 DEF IInv, Ring, Types, WriterStates, ReaderStates
<1>3. WriterAt'
  <2>1. /\ writer.read_count <= writer.i - 1
        /\ writer.read_count = writer.i - 1 =>
            \A r \in LocalReaders : r < writer.i => read_flag[write_idx][r] = 1
    BY <1>0 DEF IInv, Ring, WriterAt
  <2>2. /\ writer'.i \in 1..(NReaders + 1)
        /\ writer'.read_count <= writer'.i - 1
    BY <1>0, <1>2, <2>1
  <2>3. writer'.read_count = writer'.i - 1 =>
            \A r \in LocalReaders : r < writer'.i => read_flag[write_idx][r] = 1
    BY <1>0, <1>2, <2>1 DEF LocalReaders
  <2> QED
    BY <1>2, <2>2, <2>3 DEF WriterAt, ringVars
<1> QED
  BY <1>0, <1>1, <1>2, <1>3, WriterMoves DEF Writing, Delivered

\* Starting the scan again keeps the invariant.
LEMMA WaitForReadersInv == ASSUME IInv, WaitForReaders PROVE IInv'
<1> USE DEF WaitForReaders, Scanned
<1>1. Types'
  BY DEF IInv, Ring, Types, WriterStates, ReaderStates, ringVars, readerVars
<1>2. writer'.pc = "scan" /\ writer'.i = 1 /\ writer'.read_count = 0
  BY DEF IInv, Ring, Types, WriterStates, ReaderStates
<1>3. WriterAt'
  BY <1>2, MessageQueueAssumption DEF WriterAt, LocalReaders
<1> QED
  BY <1>1, <1>2, <1>3, WriterMoves DEF Writing, Delivered

\* Giving up an enqueue keeps the invariant.
LEMMA EnqueueTimesOutInv == ASSUME IInv, EnqueueTimesOut PROVE IInv'
<1> USE DEF EnqueueTimesOut, Scanned
<1>1. Types'
  BY DEF IInv, Ring, Types, WriterStates, ReaderStates, ringVars, readerVars
<1>2. writer'.pc = "idle"
  BY DEF IInv, Ring, Types, WriterStates, ReaderStates
<1>3. WriterAt'
  BY <1>2 DEF WriterAt
<1> QED
  BY <1>1, <1>2, <1>3, WriterMoves DEF Writing, Delivered

\* The chunk is given up by all readers when the writer takes it.
LEMMA ClearWrittenInv == ASSUME IInv, ClearWritten PROVE IInv'
<1> USE DEF ClearWritten, Scanned, readerVars
<1> USE DEF IInv, Ring
<1>0. /\ \A r \in LocalReaders : Consumed(r)' = Consumed(r)
      /\ \A c \in Chunks : MessageIn(c)' = MessageIn(c)
  BY DEF Consumed, MessageIn
<1>t. Types'
  BY DEF Types, WriterStates, ReaderStates
<1>w. /\ writer'.pc = "begin" /\ writer.pc = "scan" /\ write_idx \in Chunks
      /\ written' = [written EXCEPT ![write_idx] = FALSE]
  BY DEF Types, WriterStates, ReaderStates
<1>a. \A r \in LocalReaders : Consumed(r) >= MessageIn(write_idx)
  <2> SUFFICES ASSUME NEW r \in LocalReaders PROVE Consumed(r) >= MessageIn(write_idx)
    OBVIOUS
  <2>1. CASE written[write_idx]
    <3>1. writer.i = NReaders + 1 /\ writer.read_count = NReaders
      BY <2>1, <1>w, MessageQueueAssumption DEF Blocked, WriterAt, Types, WriterStates, ReaderStates
    <3>2. r < writer.i
      BY <3>1, MessageQueueAssumption DEF LocalReaders
    <3>3. writer.read_count = writer.i - 1
      BY <3>1, MessageQueueAssumption
    <3>4. read_flag[write_idx][r] = 1
      BY <3>2, <3>3, <1>w DEF WriterAt
    <3> QED
      BY <2>1, <3>4, <1>w DEF Flags
  <2>2. CASE ~written[write_idx]
    <3>1. ~(MessageIn(write_idx) >= 1)
      BY <2>2, <1>w DEF WrittenOnes, Writing
    <3> QED
      BY <3>1, <1>w, MessagesDiffer, NextMessage
  <2> QED
    BY <2>1, <2>2
<1>1. Positions'
  <2> SUFFICES ASSUME NEW r \in LocalReaders
               PROVE  sent - Consumed(r) < MaxChunks
    BY <1>0 DEF Positions
  <2>1. /\ MaxChunks \in Nat \ {0} /\ sent \in Nat /\ Consumed(r) \in Nat
        /\ MessageIn(write_idx) = sent + 1 - MaxChunks /\ Consumed(r) >= MessageIn(write_idx)
    BY <1>a, <1>w, MessagesDiffer, NextMessage, MessageQueueAssumption DEF Types
  <2> HIDE DEF ClearWritten, IInv, Ring
  <2> QED
    BY <2>1
<1>2. WrittenOnes'
  BY <1>0, <1>w DEF WrittenOnes, Writing, Types, WriterStates, ReaderStates
<1>3. Flags'
  BY <1>0, <1>w DEF Flags, Types, WriterStates, ReaderStates
<1>4. WriterAt'
  BY <1>w DEF WriterAt
<1>5. ReaderAt'
  <2> SUFFICES ASSUME NEW r \in LocalReaders, reader[r].pc \in {"read", "mark"}
               PROVE  read_idx[r] # write_idx
    BY <1>w DEF ReaderAt, Types, WriterStates, ReaderStates
  <2> QED
    BY <1>a, <1>w DEF ReaderAt, Flags
<1>6. LocalSockets'
  <2>1. \A c \in Chunks : written'[c] => written[c]
    BY <1>w DEF Types, WriterStates, ReaderStates
  <2> QED
    BY <1>0, <1>w, <2>1, SocketsKept DEF readerVars
<1>7. RemoteSockets'
  BY <1>w DEF RemoteSockets, Delivered
<1> QED
  BY <1>t, <1>1, <1>2, <1>3, <1>4, <1>5, <1>6, <1>7

\* The chunk being written is not marked written, so nobody looks at its data.
LEMMA BeginWriteInv == ASSUME IInv, BeginWrite PROVE IInv'
<1> USE DEF BeginWrite, readerVars, IInv, Ring
<1>0. /\ \A r \in LocalReaders : Consumed(r)' = Consumed(r)
      /\ \A c \in Chunks : MessageIn(c)' = MessageIn(c)
  BY DEF Consumed, MessageIn
<1>t. Types'
  <2>1. Torn \in Int
    BY DEF Torn
  <2>2. data' \in [Chunks -> Int]
    BY <2>1 DEF Types
  <2>3. writer' \in WriterStates
    BY DEF Types, WriterStates
  <2> QED
    BY <2>2, <2>3 DEF Types
<1>w. /\ writer.pc = "begin" /\ writer'.pc = "end" /\ write_idx \in Chunks
      /\ Writing /\ Writing'
  BY DEF Types, WriterStates, ReaderStates, Writing
<1>n. ~written[write_idx]
  BY <1>w DEF WrittenOnes
<1>1. Positions'
  BY <1>0, <1>w DEF Positions
<1>2. WrittenOnes'
  BY <1>0, <1>w, <1>n DEF WrittenOnes, Types, WriterStates, ReaderStates
<1>3. Flags'
  BY <1>0, <1>w, <1>n DEF Flags, Types, WriterStates, ReaderStates
<1>4. WriterAt'
  BY <1>w DEF WriterAt
<1>5. ReaderAt'
  BY <1>w, <1>n DEF ReaderAt, Types, WriterStates, ReaderStates
<1>6. LocalSockets'
  <2>1. \A c \in Chunks : written'[c] => written[c] /\ data'[c] = data[c]
    BY <1>n DEF Types, WriterStates, ReaderStates
  <2> QED
    BY <1>0, <1>w, <2>1, SocketsKept
<1>7. RemoteSockets'
  BY <1>w DEF RemoteSockets, Delivered
<1> QED
  BY <1>t, <1>1, <1>2, <1>3, <1>4, <1>5, <1>6, <1>7

\* The data is complete before the flags are touched.
LEMMA EndWriteInv == ASSUME IInv, EndWrite PROVE IInv'
<1> USE DEF EndWrite, readerVars, IInv, Ring
<1>0. /\ \A r \in LocalReaders : Consumed(r)' = Consumed(r)
      /\ \A c \in Chunks : MessageIn(c)' = MessageIn(c)
  BY DEF Consumed, MessageIn
<1>t. Types'
  <2>1. Overflow \in Int /\ sent + 1 \in Int
    BY DEF Overflow, Types
  <2>2. data' \in [Chunks -> Int]
    BY <2>1 DEF Types
  <2>3. writer' \in WriterStates
    BY DEF Types, WriterStates
  <2> QED
    BY <2>2, <2>3 DEF Types
<1>w. /\ writer.pc = "end" /\ writer'.pc = "reset" /\ writer'.i = 1 /\ write_idx \in Chunks
      /\ Writing /\ Writing'
  BY DEF Types, WriterStates, ReaderStates, Writing
<1>n. ~written[write_idx]
  BY <1>w DEF WrittenOnes
<1>1. Positions'
  BY <1>0, <1>w DEF Positions
<1>2. WrittenOnes'
  BY <1>0, <1>w, <1>n DEF WrittenOnes, Types, WriterStates, ReaderStates
<1>3. Flags'
  BY <1>0, <1>w, <1>n DEF Flags, Types, WriterStates, ReaderStates
<1>4. WriterAt'
  BY <1>w, MessageQueueAssumption DEF WriterAt, Types, WriterStates, ReaderStates, LocalReaders
<1>5. ReaderAt'
  BY <1>w, <1>n DEF ReaderAt, Types, WriterStates, ReaderStates
<1>6. LocalSockets'
  <2>1. \A c \in Chunks : written'[c] => written[c] /\ data'[c] = data[c]
    BY <1>n DEF Types, WriterStates, ReaderStates
  <2> QED
    BY <1>0, <1>w, <2>1, SocketsKept
<1>7. RemoteSockets'
  BY <1>w DEF RemoteSockets, Delivered
<1> QED
  BY <1>t, <1>1, <1>2, <1>3, <1>4, <1>5, <1>6, <1>7

\* Resetting the flag of a chunk that is not marked written.
LEMMA ResetReadFlagInv == ASSUME IInv, ResetReadFlag PROVE IInv'
<1> USE DEF ResetReadFlag, readerVars, IInv, Ring
<1>0. /\ \A r \in LocalReaders : Consumed(r)' = Consumed(r)
      /\ \A c \in Chunks : MessageIn(c)' = MessageIn(c)
  BY DEF Consumed, MessageIn
<1>t. Types'
  <2>2. read_flag' \in [Chunks -> [LocalReaders -> {0, 1}]]
    BY DEF Types
  <2>1. writer.i + 1 \in Nat
    BY DEF Types, WriterStates
  <2>3. writer' \in WriterStates
    BY <2>1 DEF Types, WriterStates
  <2> QED
    BY <2>2, <2>3 DEF Types
<1>w. /\ writer.pc = "reset" /\ writer'.pc = "reset" /\ writer'.i = writer.i + 1 /\ write_idx \in Chunks
      /\ Writing /\ Writing'
  BY DEF Types, WriterStates, ReaderStates, Writing
<1>n. ~written[write_idx]
  BY <1>w DEF WrittenOnes
<1>1. Positions'
  BY <1>0, <1>w DEF Positions
<1>2. WrittenOnes'
  BY <1>0, <1>w, <1>n DEF WrittenOnes, Types, WriterStates, ReaderStates
<1>3. Flags'
  BY <1>0, <1>w, <1>n DEF Flags, Types, WriterStates, ReaderStates
<1>4. WriterAt'
  BY <1>w, MessageQueueAssumption DEF WriterAt, Types, WriterStates, ReaderStates, LocalReaders
<1>5. ReaderAt'
  BY <1>w, <1>n DEF ReaderAt, Types, WriterStates, ReaderStates
<1>6. LocalSockets'
  <2>1. \A c \in Chunks : written'[c] => written[c] /\ data'[c] = data[c]
    BY <1>n DEF Types, WriterStates, ReaderStates
  <2> QED
    BY <1>0, <1>w, <2>1, SocketsKept
<1>7. RemoteSockets'
  BY <1>w DEF RemoteSockets, Delivered
<1> QED
  BY <1>t, <1>1, <1>2, <1>3, <1>4, <1>5, <1>6, <1>7

\* The chunk becomes the newest one; the messages of the others stay.
LEMMA MarkWrittenInv == ASSUME IInv, MarkWritten PROVE IInv'
<1> USE DEF MarkWritten, FlagsReset, readerVars, IInv, Ring
<1>0. \A r \in LocalReaders : Consumed(r)' = Consumed(r) /\ Consumed(r) \in Nat
  BY NextMessage DEF Consumed
<1>k. /\ MaxChunks \in Nat \ {0} /\ write_idx \in Chunks /\ write_idx' \in Chunks
      /\ write_idx' = IF write_idx + 1 = MaxChunks THEN 0 ELSE write_idx + 1
      /\ sent \in Nat /\ sent' = sent + 1
  BY MessageQueueAssumption, NextChunk DEF Types
<1>m. \A c \in Chunks : MessageIn(c)' = IF c = write_idx THEN sent + 1 ELSE MessageIn(c)
  BY <1>k DEF MessageIn, Chunks
<1>i. \A c \in Chunks : MessageIn(c) \in Int /\ MessageIn(c) <= sent
  BY MessagesDiffer
<1>t. Types'
  <2>1. writer' \in WriterStates
    BY DEF Types, WriterStates
  <2> QED
    BY <2>1, <1>k DEF Types
<1>w. /\ writer.pc = "reset" /\ Writing /\ ~Writing'
      /\ writer'.pc = IF writer.big THEN "send" ELSE "remote"
      /\ writer'.pc \in {"send", "remote"}
      /\ written' = [written EXCEPT ![write_idx] = TRUE]
      /\ written'[write_idx]
      /\ \A c \in Chunks : c # write_idx => written'[c] = written[c]
  BY <1>k DEF Types, Writing, WriterStates
<1>n. ~written[write_idx]
  BY <1>k, <1>w DEF WrittenOnes
<1>d. data[write_idx] = IF writer.big THEN Overflow ELSE sent + 1
  BY <1>w DEF WriterAt
<1>f. \A r \in LocalReaders : read_flag[write_idx][r] = 0
  <2>1. \A r \in LocalReaders : r < writer.i
    BY <1>w, MessageQueueAssumption DEF WriterAt, LocalReaders, Types, WriterStates
  <2> QED
    BY <2>1, <1>w DEF WriterAt
<1>1. Positions'
  <2>1. ASSUME NEW r \in LocalReaders
        PROVE  /\ Consumed(r) <= sent + 1
               /\ sent + 1 - Consumed(r) <= MaxChunks
               /\ \/ read_idx[r] + (sent + 1 - Consumed(r)) = write_idx'
                  \/ read_idx[r] + (sent + 1 - Consumed(r)) = write_idx' + MaxChunks
    <3>1. read_idx[r] \in 0..(MaxChunks - 1) /\ Consumed(r) \in Nat
      BY <1>0 DEF Types, Chunks
    <3>2. /\ Consumed(r) <= sent
          /\ sent - Consumed(r) < MaxChunks
          /\ \/ read_idx[r] + (sent - Consumed(r)) = write_idx
             \/ read_idx[r] + (sent - Consumed(r)) = write_idx + MaxChunks
      BY <1>w DEF Positions
    <3>3. write_idx \in 0..(MaxChunks - 1)
      BY <1>k DEF Chunks
    <3> QED
      BY <3>1, <3>2, <3>3, <1>k, WriterAdvances
  <2>2. ASSUME NEW r \in LocalReaders
        PROVE  /\ Consumed(r)' <= sent'
               /\ sent' - Consumed(r)' <= MaxChunks
               /\ ~Writing'
               /\ \/ read_idx'[r] + (sent' - Consumed(r)') = write_idx'
                  \/ read_idx'[r] + (sent' - Consumed(r)') = write_idx' + MaxChunks
    <3>1. /\ Consumed(r)' = Consumed(r) /\ read_idx'[r] = read_idx[r] /\ sent' = sent + 1
          /\ ~Writing' /\ Consumed(r) \in Nat /\ read_idx[r] \in Nat /\ sent \in Nat
          /\ write_idx' \in Nat /\ MaxChunks \in Nat
      BY <1>0, <1>k, <1>w DEF Types, Chunks
    <3>2. /\ Consumed(r) <= sent + 1
          /\ sent + 1 - Consumed(r) <= MaxChunks
          /\ \/ read_idx[r] + (sent + 1 - Consumed(r)) = write_idx'
             \/ read_idx[r] + (sent + 1 - Consumed(r)) = write_idx' + MaxChunks
      BY <2>1
    <3> HIDE DEF MarkWritten, IInv, Ring
    <3> QED
      BY <3>1, <3>2
  <2> HIDE DEF MarkWritten
  <2> QED
    BY <2>2 DEF Positions
<1>2. WrittenOnes'
  <2> SUFFICES ASSUME NEW c \in Chunks
      PROVE  /\ written'[c] <=> MessageIn(c)' >= 1
             /\ written'[c] => data[c] \in {Overflow, MessageIn(c)'}
    BY <1>w DEF WrittenOnes
  <2>1. CASE c = write_idx
    BY <2>1, <1>m, <1>w, <1>d, <1>k
  <2>2. CASE c # write_idx
    BY <2>2, <1>m, <1>w DEF WrittenOnes
  <2> QED
    BY <2>1, <2>2
<1>3. Flags'
  <2> SUFFICES ASSUME NEW c \in Chunks, NEW r \in LocalReaders, written'[c]
      PROVE  read_flag[c][r] = 1 <=> Consumed(r) >= MessageIn(c)'
    BY <1>0 DEF Flags
  <2>1. CASE c = write_idx
    <3>1. Consumed(r) <= sent
      BY DEF Positions
    <3> QED
      BY <2>1, <3>1, <1>m, <1>f, <1>0, <1>k
  <2>2. CASE c # write_idx
    BY <2>2, <1>m, <1>w DEF Flags
  <2> QED
    BY <2>1, <2>2
<1>4. WriterAt'
  BY <1>w DEF WriterAt
<1>5. ReaderAt'
  BY <1>w, <1>n, <1>k DEF ReaderAt, Types
<1>6. LocalSockets'
  <2> SUFFICES ASSUME NEW r \in LocalReaders
      PROVE
      /\ \A k, l \in 1..Len(sockets[r]) : k < l => sockets[r][k] < sockets[r][l]
      /\ \A k \in 1..Len(sockets[r]) :
           got[r] < sockets[r][k] /\ sockets[r][k] <= sent + 1 /\ sockets[r][k] # sent + 1
      /\ got[r] < sent + 1
      /\ reader[r].pc = "recv" => InSocket(r, Consumed(r))
      /\ \A c \in Chunks : written'[c] /\ MessageIn(c)' > Consumed(r) =>
           (data[c] = Overflow <=> InSocket(r, MessageIn(c))' \/ Unsent(MessageIn(c))')
    BY <1>0, <1>k DEF LocalSockets, InSocket, Unsent
  <2>s. sockets[r] \in Seq(Int)
    BY DEF Types, Readers
  <2>1. \A k \in 1..Len(sockets[r]) : got[r] < sockets[r][k] /\ sockets[r][k] <= sent
    BY DEF LocalSockets
  <2>2. \A k \in 1..Len(sockets[r]) : sockets[r][k] <= sent + 1 /\ sockets[r][k] # sent + 1
    BY <2>s, <2>1, <1>k
  <2>3. reader[r].pc = "recv" => InSocket(r, Consumed(r))
    BY <1>w DEF LocalSockets, Unsent
  <2>5. got[r] < sent + 1
    <3>1. got[r] \in Nat /\ Consumed(r) <= sent
      BY DEF Positions, Types, Readers
    <3> QED
      BY <3>1, <1>k DEF Consumed
  <2>4. ASSUME NEW c \in Chunks, written'[c], MessageIn(c)' > Consumed(r)
        PROVE  data[c] = Overflow <=> InSocket(r, MessageIn(c))' \/ Unsent(MessageIn(c))'
    <3>1. CASE c = write_idx
      <4>1. MessageIn(c)' = sent + 1 /\ ~InSocket(r, MessageIn(c))'
        BY <3>1, <1>m, <2>2 DEF InSocket
      <4>2. Unsent(MessageIn(c))' <=> writer.big
        BY <4>1, <1>w, <1>k DEF Unsent
      <4> QED
        BY <4>1, <4>2, <3>1, <1>d, <1>k DEF Overflow
    <3>2. CASE c # write_idx
      <4>1. MessageIn(c)' = MessageIn(c) /\ ~Unsent(MessageIn(c))' /\ ~Unsent(MessageIn(c))
        BY <3>2, <1>m, <1>i, <1>k, <1>w DEF Unsent
      <4>2. InSocket(r, MessageIn(c))' <=> InSocket(r, MessageIn(c))
        BY <4>1 DEF InSocket
      <4>3. written[c]
        BY <3>2, <2>4, <1>w
      <4> QED
        BY <4>1, <4>2, <4>3, <2>4 DEF LocalSockets
    <3> QED
      BY <3>1, <3>2
  <2> QED
    BY <2>1, <2>2, <2>3, <2>4, <2>5 DEF LocalSockets
<1>7. RemoteSockets'
  <2>1. Delivered = sent /\ Delivered' = sent
    BY <1>w, <1>k DEF Delivered
  <2> QED
    BY <2>1 DEF RemoteSockets
<1> QED
  BY <1>t, <1>1, <1>2, <1>3, <1>4, <1>5, <1>6, <1>7

\* The message of an overflow chunk reaches the sockets of the local readers.
LEMMA SendLargeInv == ASSUME IInv, SendLarge PROVE IInv'
<1> USE DEF SendLarge, IInv
<1>w. writer.pc = "send" /\ writer'.pc = "remote" /\ ~Writing /\ ~Writing' /\ sent \in Nat
  BY DEF Ring, Types, WriterStates, Writing
<1>s. \A r \in Readers : sockets[r] \in Seq(Int)
  BY DEF Ring, Types
<1>l. \A r \in LocalReaders : sockets'[r] = Append(sockets[r], sent)
  BY DEF SendTo, Readers
<1>r. \A r \in RemoteReaders : sockets'[r] = sockets[r]
  BY MessageQueueAssumption DEF SendTo, Readers
<1>t. Types'
  <2>1. sockets' \in [Readers -> Seq(Int)]
    BY <1>w, <1>s DEF SendTo
  <2>2. writer' \in WriterStates
    BY DEF Ring, Types, WriterStates
  <2> QED
    BY <2>1, <2>2 DEF Ring, Types, ringVars, readerVars
<1>1. /\ Ring'
      /\ \A r \in LocalReaders : Consumed(r)' = Consumed(r)
      /\ \A c \in Chunks : MessageIn(c)' = MessageIn(c)
  BY <1>t, <1>w, RingKept DEF WriterAt
<1>2. LocalSockets'
  <2> SUFFICES ASSUME NEW r \in LocalReaders
      PROVE
      /\ \A k, l \in 1..Len(sockets'[r]) : k < l => sockets'[r][k] < sockets'[r][l]
      /\ \A k \in 1..Len(sockets'[r]) : got[r] < sockets'[r][k] /\ sockets'[r][k] <= sent
      /\ reader[r].pc = "recv" => InSocket(r, Consumed(r))'
      /\ \A c \in Chunks : written[c] /\ MessageIn(c) > Consumed(r) =>
           (data[c] = Overflow <=> InSocket(r, MessageIn(c))')
    BY <1>1, <1>w DEF LocalSockets, Unsent, ringVars, readerVars
  <2>1. /\ sockets[r] \in Seq(Int) /\ got[r] \in Nat /\ Consumed(r) \in Nat
        /\ sockets'[r] = Append(sockets[r], sent)
    BY <1>s, <1>l, NextMessage DEF Readers, Ring, Types
  <2>2. \A k \in 1..Len(sockets[r]) : got[r] < sockets[r][k] /\ sockets[r][k] < sent
    BY <1>w, <2>1 DEF LocalSockets, Unsent
  <2>3. /\ Len(sockets'[r]) = Len(sockets[r]) + 1
        /\ sockets'[r][Len(sockets[r]) + 1] = sent
        /\ \A k \in 1..Len(sockets[r]) : sockets'[r][k] = sockets[r][k]
    BY <1>w, <2>1
  <2>4. \A k, l \in 1..Len(sockets'[r]) : k < l => sockets'[r][k] < sockets'[r][l]
    <3>1. \A k, l \in 1..Len(sockets[r]) : k < l => sockets[r][k] < sockets[r][l]
      BY DEF LocalSockets
    <3>2. Len(sockets[r]) \in Nat /\ \A k \in 1..Len(sockets[r]) : sockets[r][k] \in Int
      BY <2>1
    <3>3. ASSUME NEW k \in 1..Len(sockets'[r]), NEW l \in 1..Len(sockets'[r]), k < l
          PROVE  k \in 1..Len(sockets[r]) /\ (l \in 1..Len(sockets[r]) \/ l = Len(sockets[r]) + 1)
      BY <3>2, <3>3, <2>3
    <3> HIDE DEF SendLarge, IInv
    <3> QED
      BY <3>1, <3>3, <2>2, <2>3
  <2>5. \A k \in 1..Len(sockets'[r]) : got[r] < sockets'[r][k] /\ sockets'[r][k] <= sent
    <3>1. got[r] < sent
      BY <1>w DEF LocalSockets
    <3> QED
      BY <3>1, <2>1, <2>2, <2>3, <1>w
  <2>6. \A n : InSocket(r, n)' <=> InSocket(r, n) \/ n = sent
    <3>1. \A k : k \in 1..Len(sockets'[r]) <=>
                   k \in 1..Len(sockets[r]) \/ k = Len(sockets[r]) + 1
      BY <2>1, <2>3
    <3> HIDE DEF SendLarge, IInv
    <3> QED
      BY <3>1, <2>3 DEF InSocket
  <2>7. \A n : InSocket(r, n)' <=> InSocket(r, n) \/ Unsent(n)
    BY <2>6, <1>w DEF Unsent
  <2>8. reader[r].pc = "recv" => InSocket(r, Consumed(r))'
    <3>1. InSocket(r, Consumed(r))' <=> \E k \in 1..Len(sockets'[r]) : sockets'[r][k] = Consumed(r)
      BY <1>1 DEF InSocket
    <3> QED
      BY <3>1, <2>6, <1>w DEF LocalSockets, InSocket, Unsent
  <2>9. \A c \in Chunks : written[c] /\ MessageIn(c) > Consumed(r) =>
           (data[c] = Overflow <=> InSocket(r, MessageIn(c))')
    <3>1. \A c \in Chunks : InSocket(r, MessageIn(c))' <=>
            \E k \in 1..Len(sockets'[r]) : sockets'[r][k] = MessageIn(c)
      BY <1>1 DEF InSocket
    <3>2. \A c \in Chunks : InSocket(r, MessageIn(c))' <=>
            InSocket(r, MessageIn(c)) \/ Unsent(MessageIn(c))
      BY <3>1, <2>7 DEF InSocket
    <3> QED
      BY <3>2 DEF LocalSockets
  <2> QED
    BY <2>4, <2>5, <2>8, <2>9
<1>3. RemoteSockets'
  <2>1. Delivered' = Delivered /\ got' = got
    BY <1>w DEF Delivered, readerVars
  <2> QED
    BY <2>1, <1>r DEF RemoteSockets
<1> QED
  BY <1>1, <1>2, <1>3

\* Every message reaches the sockets of the remote readers.
LEMMA SendRemoteInv == ASSUME IInv, SendRemote PROVE IInv'
<1> USE DEF SendRemote, IInv
<1>w. writer.pc = "remote" /\ writer'.pc = "idle" /\ ~Writing /\ ~Writing' /\ sent \in Nat
  BY DEF Ring, Types, WriterStates, Writing
<1>s. \A r \in Readers : sockets[r] \in Seq(Int) /\ got[r] \in Nat
  BY DEF Ring, Types
<1>l. \A r \in LocalReaders : sockets'[r] = sockets[r]
  BY MessageQueueAssumption DEF SendTo, Readers
<1>r. \A r \in RemoteReaders : sockets'[r] = Append(sockets[r], sent)
  BY DEF SendTo, Readers
<1>t. Types'
  <2>1. sockets' \in [Readers -> Seq(Int)]
    BY <1>w, <1>s DEF SendTo
  <2>2. writer' \in WriterStates
    BY DEF Ring, Types, WriterStates
  <2> QED
    BY <2>1, <2>2 DEF Ring, Types, ringVars, readerVars
<1>1. /\ Ring'
      /\ \A r \in LocalReaders : Consumed(r)' = Consumed(r)
      /\ \A c \in Chunks : MessageIn(c)' = MessageIn(c)
  BY <1>t, <1>w, RingKept DEF WriterAt
<1>2. LocalSockets'
  BY <1>1, <1>l, <1>w, SocketsKept DEF ringVars, readerVars
<1>3. RemoteSockets'
  <2> SUFFICES ASSUME NEW r \in RemoteReaders
      PROVE  /\ got[r] + Len(sockets'[r]) = sent
             /\ \A k \in 1..Len(sockets'[r]) : sockets'[r][k] = got[r] + k
    BY <1>w DEF RemoteSockets, Delivered, readerVars
  <2>1. /\ sockets[r] \in Seq(Int) /\ got[r] \in Nat
        /\ sockets'[r] = Append(sockets[r], sent)
        /\ got[r] + Len(sockets[r]) = sent - 1
        /\ \A k \in 1..Len(sockets[r]) : sockets[r][k] = got[r] + k
    BY <1>w, <1>s, <1>r DEF RemoteSockets, Delivered, Readers
  <2>2. /\ Len(sockets'[r]) = Len(sockets[r]) + 1
        /\ sockets'[r][Len(sockets[r]) + 1] = sent
        /\ \A k \in 1..Len(sockets[r]) : sockets'[r][k] = sockets[r][k]
    BY <1>w, <2>1
  <2>3. got[r] + Len(sockets'[r]) = sent
    <3>1. /\ Len(sockets[r]) \in Nat /\ got[r] \in Nat /\ sent \in Nat
          /\ Len(sockets'[r]) = Len(sockets[r]) + 1
          /\ got[r] + Len(sockets[r]) = sent - 1
      BY <1>w, <2>1, <2>2
    <3> HIDE DEF SendRemote, IInv
    <3> QED
      BY <3>1
  <2>4. ASSUME NEW k \in 1..Len(sockets'[r]) PROVE sockets'[r][k] = got[r] + k
    <3>1. Len(sockets[r]) \in Nat
      BY <2>1
    <3>2. CASE k = Len(sockets[r]) + 1
      BY <1>w, <2>1, <2>2, <3>1, <3>2
    <3>3. CASE k \in 1..Len(sockets[r])
      BY <2>1, <2>2, <3>3
    <3> QED
      BY <2>2, <3>1, <3>2, <3>3
  <2> QED
    BY <2>3, <2>4
<1> QED
  BY <1>1, <1>2, <1>3

-----------------------------------------------------------------------------
\* Steps of the readers.  Those that only move a reader:
LEMMA ReaderMoves ==
  ASSUME IInv, UNCHANGED <<ringVars, sockets, writerVars, read_idx, got>>,
         Types', ReaderAt',
         \A r \in LocalReaders : (reader[r].pc = "recv") <=> (reader[r].pc = "recv")'
  PROVE  IInv'
<1> USE DEF IInv, Ring, ringVars, writerVars
<1>0. /\ \A r \in LocalReaders : Consumed(r)' = Consumed(r)
      /\ \A c \in Chunks : MessageIn(c)' = MessageIn(c)
      /\ Writing' = Writing /\ Delivered' = Delivered
  BY DEF Consumed, MessageIn, Writing, Delivered
<1>1. Positions'
  BY <1>0 DEF Positions
<1>2. WrittenOnes'
  BY <1>0 DEF WrittenOnes
<1>3. Flags' /\ WriterAt'
  BY <1>0 DEF Flags, WriterAt
<1>4. LocalSockets'
  BY <1>0, SocketsKept
<1>5. RemoteSockets'
  BY <1>0 DEF RemoteSockets
<1> QED
  BY <1>1, <1>2, <1>3, <1>4, <1>5

\* A reader reads its flag, which nobody else sets.
LEMMA ReadFlagInv == ASSUME IInv, NEW r \in LocalReaders, ReadFlag(r) PROVE IInv'
<1> USE DEF ReadFlag
<1>0. read_flag[read_idx[r]][r] \in {0, 1} /\ reader[r] \in ReaderStates
  BY DEF IInv, Ring, Types
<1>1. /\ reader' \in [LocalReaders -> ReaderStates]
      /\ reader'[r].pc = "check" /\ reader'[r].read_flag = read_flag[read_idx[r]][r]
      /\ \A q \in LocalReaders : q # r => reader'[q] = reader[q]
  BY <1>0 DEF IInv, Ring, Types, ReaderStates
<1>2. Types'
  BY <1>1 DEF IInv, Ring, Types, ringVars, writerVars
<1>3. ReaderAt'
  BY <1>1 DEF IInv, Ring, ReaderAt, ringVars
<1> QED
  BY <1>1, <1>2, <1>3, ReaderMoves

\* A reader that saw its flag unset enters a written chunk.
LEMMA CheckWrittenInv == ASSUME IInv, NEW r \in LocalReaders, CheckWritten(r) PROVE IInv'
<1> USE DEF CheckWritten
<1>0. reader[r] \in ReaderStates
  BY DEF IInv, Ring, Types
<1>1. /\ reader' \in [LocalReaders -> ReaderStates]
      /\ reader'[r].pc = IF CanRead(r) THEN "read" ELSE "poll"
      /\ \A q \in LocalReaders : q # r => reader'[q] = reader[q]
  BY <1>0 DEF IInv, Ring, Types, ReaderStates
<1>2. Types'
  BY <1>1 DEF IInv, Ring, Types, ringVars, writerVars
<1>3. ReaderAt'
  BY <1>1 DEF IInv, Ring, ReaderAt, ringVars, CanRead
<1> QED
  BY <1>1, <1>2, <1>3, ReaderMoves

\* A reader copies the data of its chunk.
LEMMA ReadChunkInv == ASSUME IInv, NEW r \in LocalReaders, ReadChunk(r) PROVE IInv'
<1> USE DEF ReadChunk
<1>0. reader[r] \in ReaderStates /\ data[read_idx[r]] \in Int
  BY DEF IInv, Ring, Types
<1>1. /\ reader' \in [LocalReaders -> ReaderStates]
      /\ reader'[r].pc = "mark" /\ reader'[r].buf = data[read_idx[r]]
      /\ \A q \in LocalReaders : q # r => reader'[q] = reader[q]
  BY <1>0 DEF IInv, Ring, Types, ReaderStates
<1>2. Types'
  BY <1>1 DEF IInv, Ring, Types, ringVars, writerVars
<1>3. ReaderAt'
  BY <1>1 DEF IInv, Ring, ReaderAt, ringVars
<1> QED
  BY <1>1, <1>2, <1>3, ReaderMoves

\* The distance of a reader to the writer shrinks by one when it moves on.
LEMMA ReaderAdvances ==
  ASSUME NEW n \in Nat \ {0}, NEW w \in 0..(n - 1), NEW p \in 0..(n - 1),
         NEW s \in Nat, NEW a \in Nat, a < s,
         p + (s - a) = w \/ p + (s - a) = w + n,
         NEW v, v = IF p + 1 = n THEN 0 ELSE p + 1
  PROVE  v + (s - (a + 1)) = w \/ v + (s - (a + 1)) = w + n
<1>1. CASE p + 1 = n
  <2>1. v = 0
    BY <1>1
  <2> QED
    BY <1>1, <2>1
<1>2. CASE p + 1 # n
  <2>1. v = p + 1
    BY <1>2
  <2> QED
    BY <1>2, <2>1
<1> QED
  BY <1>1, <1>2

\* A reader inside acquire_read is at the chunk of its next message.
LEMMA AtNextMessage ==
  ASSUME IInv, NEW r \in LocalReaders, reader[r].pc \in {"read", "mark"}
  PROVE  /\ written[read_idx[r]] /\ read_idx[r] \in Chunks
         /\ got[r] \in Nat /\ sent \in Nat /\ got[r] < sent
         /\ Consumed(r) = got[r]
         /\ MessageIn(read_idx[r]) = got[r] + 1
         /\ data[read_idx[r]] \in {Overflow, got[r] + 1}
         /\ reader[r].pc = "mark" => reader[r].buf = data[read_idx[r]]
<1>1. /\ read_idx[r] \in Chunks /\ got[r] \in Nat /\ sent \in Nat
      /\ MaxChunks \in Nat \ {0}
  BY MessageQueueAssumption DEF IInv, Ring, Types, Readers
<1>2. /\ written[read_idx[r]] /\ read_flag[read_idx[r]][r] = 0
      /\ reader[r].pc = "mark" => reader[r].buf = data[read_idx[r]]
  BY DEF IInv, Ring, ReaderAt
<1>3. Consumed(r) = got[r]
  BY <1>1 DEF Consumed
<1>4. /\ MessageIn(read_idx[r]) \in Int /\ MessageIn(read_idx[r]) <= sent
      /\ ~(got[r] >= MessageIn(read_idx[r]))
  BY <1>1, <1>2, <1>3, MessagesDiffer DEF IInv, Ring, Flags
<1>5. /\ got[r] <= sent
      /\ got[r] < sent => MessageIn(read_idx[r]) = got[r] + 1
  BY <1>3, NextMessage DEF IInv, Ring, Positions
<1>6. got[r] < sent
  BY <1>1, <1>4, <1>5
<1> QED
  BY <1>1, <1>2, <1>3, <1>5, <1>6 DEF IInv, Ring, WrittenOnes

\* A reader leaves its chunk with the message in it, or goes to its socket.
LEMMA MarkReadStep ==
  ASSUME IInv, NEW r \in LocalReaders, MarkRead(r)
  PROVE  /\ reader' \in [LocalReaders -> ReaderStates] /\ got' \in [Readers -> Nat]
         /\ \A q \in LocalReaders : q # r => reader'[q] = reader[q]
         /\ \A q \in Readers : q # r => got'[q] = got[q]
         /\ \/ /\ data[read_idx[r]] = Overflow
               /\ reader'[r].pc = "recv" /\ got' = got
            \/ /\ data[read_idx[r]] # Overflow
               /\ reader'[r].pc = "poll" /\ got'[r] = got[r] + 1
               /\ got' = [got EXCEPT ![r] = got[r] + 1]
         /\ Consumed(r)' = got[r] + 1
         /\ \A q \in LocalReaders : q # r => Consumed(q)' = Consumed(q)
<1> USE DEF MarkRead
<1>1. /\ reader[r].buf = data[read_idx[r]] /\ got[r] \in Nat
      /\ data[read_idx[r]] \in {Overflow, got[r] + 1}
  BY AtNextMessage
<1>2. reader[r] \in ReaderStates /\ r \in Readers
  BY DEF IInv, Ring, Types, Readers
<1>3. /\ reader' \in [LocalReaders -> ReaderStates]
      /\ reader'[r].pc = IF data[read_idx[r]] = Overflow THEN "recv" ELSE "poll"
      /\ \A q \in LocalReaders : q # r => reader'[q] = reader[q]
  BY <1>1, <1>2 DEF IInv, Ring, Types, ReaderStates
<1>4. CASE data[read_idx[r]] = Overflow
  <2>1. got' = got
    BY <1>1, <1>4
  <2>2. Consumed(r)' = got[r] + 1
    BY <2>1, <1>3, <1>4 DEF Consumed
  <2> QED
    BY <2>1, <2>2, <1>3, <1>4 DEF Consumed, IInv, Ring, Types, Readers
<1>5. CASE data[read_idx[r]] # Overflow
  <2>1. got' = [got EXCEPT ![r] = got[r] + 1]
    BY <1>1, <1>5
  <2>2. /\ got' \in [Readers -> Nat] /\ got'[r] = got[r] + 1
        /\ \A q \in Readers : q # r => got'[q] = got[q]
    BY <1>1, <1>2, <2>1 DEF IInv, Ring, Types
  <2>3. Consumed(r)' = got[r] + 1
    <3>1. reader'[r].pc # "recv" /\ got[r] + 1 \in Nat
      BY <1>1, <1>3, <1>5
    <3> QED
      BY <2>2, <3>1 DEF Consumed
  <2>4. \A q \in LocalReaders : q # r => Consumed(q)' = Consumed(q)
    BY <2>2, <1>3 DEF Consumed, Readers
  <2> QED
    BY <2>1, <2>2, <2>3, <2>4, <1>3, <1>5
<1> QED
  BY <1>4, <1>5

\* Marking the chunk read keeps the invariant: no other chunk has that message.
LEMMA MarkReadInv == ASSUME IInv, NEW r \in LocalReaders, MarkRead(r) PROVE IInv'
<1> DEFINE c == read_idx[r]
<1>a. /\ written[c] /\ c \in Chunks
      /\ got[r] \in Nat /\ sent \in Nat /\ got[r] < sent
      /\ Consumed(r) = got[r] /\ MessageIn(c) = got[r] + 1
      /\ data[c] \in {Overflow, got[r] + 1}
  BY AtNextMessage DEF MarkRead
<1>b. /\ reader' \in [LocalReaders -> ReaderStates] /\ got' \in [Readers -> Nat]
      /\ \A q \in LocalReaders : q # r => reader'[q] = reader[q]
      /\ \A q \in Readers : q # r => got'[q] = got[q]
      /\ \/ data[c] = Overflow /\ reader'[r].pc = "recv" /\ got' = got
         \/ data[c] # Overflow /\ reader'[r].pc = "poll" /\ got'[r] = got[r] + 1
      /\ Consumed(r)' = got[r] + 1
      /\ \A q \in LocalReaders : q # r => Consumed(q)' = Consumed(q)
  BY MarkReadStep
<1>k. /\ read_idx' \in [LocalReaders -> Chunks]
      /\ read_idx'[r] = IF c + 1 = MaxChunks THEN 0 ELSE c + 1
      /\ \A q \in LocalReaders : q # r => read_idx'[q] = read_idx[q]
      /\ MaxChunks \in Nat \ {0} /\ write_idx \in Chunks
  BY <1>a, NextChunk, MessageQueueAssumption DEF MarkRead, IInv, Ring, Types
<1>f. /\ read_flag' \in [Chunks -> [LocalReaders -> {0, 1}]]
      /\ read_flag'[c][r] = 1
      /\ \A d \in Chunks, q \in LocalReaders :
           d # c \/ q # r => read_flag'[d][q] = read_flag[d][q]
  BY <1>a DEF MarkRead, IInv, Ring, Types
<1>u. /\ written' = written /\ data' = data /\ sockets' = sockets
      /\ write_idx' = write_idx /\ writer' = writer /\ sent' = sent
      /\ Writing' = Writing /\ Delivered' = Delivered
      /\ \A d \in Chunks : MessageIn(d)' = MessageIn(d)
      /\ \A n : Unsent(n)' = Unsent(n)
      /\ \A q \in LocalReaders : \A n : InSocket(q, n)' = InSocket(q, n)
  BY DEF MarkRead, writerVars, Writing, Delivered, MessageIn, Unsent, InSocket
<1>i. \A d \in Chunks : MessageIn(d) \in Int /\ (d # c => MessageIn(d) # got[r] + 1)
  BY <1>a, MessagesDiffer DEF IInv, Ring
<1>t. Types'
  BY <1>b, <1>k, <1>f, <1>u DEF IInv, Ring, Types
<1> USE DEF IInv, Ring
<1>1. Positions'
  <2>1. ASSUME NEW q \in LocalReaders
        PROVE  /\ Consumed(q)' <= sent
               /\ sent - Consumed(q)' <= MaxChunks
               /\ Writing => sent - Consumed(q)' < MaxChunks
               /\ \/ read_idx'[q] + (sent - Consumed(q)') = write_idx
                  \/ read_idx'[q] + (sent - Consumed(q)') = write_idx + MaxChunks
    <3>1. /\ Consumed(q) <= sent /\ sent - Consumed(q) <= MaxChunks
          /\ Writing => sent - Consumed(q) < MaxChunks
          /\ \/ read_idx[q] + (sent - Consumed(q)) = write_idx
             \/ read_idx[q] + (sent - Consumed(q)) = write_idx + MaxChunks
      BY DEF Positions
    <3>2. CASE q # r
      BY <3>1, <3>2, <1>b, <1>k
    <3>3. CASE q = r
      <4>1. c \in 0..(MaxChunks - 1) /\ write_idx \in 0..(MaxChunks - 1)
        BY <1>a, <1>k DEF Chunks
      <4>2. /\ sent - got[r] <= MaxChunks
            /\ Writing => sent - got[r] < MaxChunks
            /\ c + (sent - got[r]) = write_idx \/ c + (sent - got[r]) = write_idx + MaxChunks
        BY <3>1, <3>3, <1>a
      <4>3. \/ read_idx'[r] + (sent - (got[r] + 1)) = write_idx
            \/ read_idx'[r] + (sent - (got[r] + 1)) = write_idx + MaxChunks
        BY <4>1, <4>2, <1>a, <1>k, ReaderAdvances
      <4>4. /\ got[r] + 1 <= sent
            /\ sent - (got[r] + 1) <= MaxChunks
            /\ Writing => sent - (got[r] + 1) < MaxChunks
        BY <4>2, <1>a, <1>k
      <4> QED
        BY <4>3, <4>4, <3>3, <1>b
    <3> QED
      BY <3>2, <3>3
  <2> QED
    BY <2>1, <1>u DEF Positions
<1>2. WrittenOnes'
  BY <1>u DEF WrittenOnes
<1>3. Flags'
  <2>1. ASSUME NEW d \in Chunks, NEW q \in LocalReaders, written[d]
        PROVE  read_flag'[d][q] = 1 <=> Consumed(q)' >= MessageIn(d)
    <3>1. read_flag[d][q] = 1 <=> Consumed(q) >= MessageIn(d)
      BY <2>1 DEF Flags
    <3>2. CASE q # r
      BY <3>1, <3>2, <1>b, <1>f
    <3>3. CASE q = r /\ d # c
      BY <3>1, <3>3, <1>a, <1>b, <1>f, <1>i
    <3>4. CASE q = r /\ d = c
      BY <3>4, <1>a, <1>b, <1>f
    <3> QED
      BY <3>2, <3>3, <3>4
  <2> QED
    BY <2>1, <1>u DEF Flags
<1>4. WriterAt'
  <2>1. writer.pc = "reset" => c # write_idx
    BY <1>a, <1>k DEF WrittenOnes, Writing
  <2>2. writer.pc = "scan" =>
          /\ writer.i \in 1..(NReaders + 1)
          /\ writer.read_count <= writer.i - 1
          /\ writer.read_count = writer.i - 1 =>
               \A q \in LocalReaders : q < writer.i => read_flag'[write_idx][q] = 1
    BY <1>f, <1>k DEF WriterAt
  <2>3. writer.pc = "reset" =>
          /\ writer.i \in 1..(NReaders + 1)
          /\ data[write_idx] = IF writer.big THEN Overflow ELSE sent + 1
          /\ \A q \in LocalReaders : q < writer.i => read_flag'[write_idx][q] = 0
    BY <2>1, <1>f, <1>k DEF WriterAt
  <2> QED
    BY <2>2, <2>3, <1>u DEF WriterAt
<1>5. ReaderAt'
  <2>1. ASSUME NEW q \in LocalReaders
        PROVE  /\ reader'[q].pc = "check" /\ reader'[q].read_flag = 0 =>
                    read_flag'[read_idx'[q]][q] = 0
               /\ reader'[q].pc \in {"read", "mark"} =>
                    written[read_idx'[q]] /\ read_flag'[read_idx'[q]][q] = 0
               /\ reader'[q].pc = "mark" => reader'[q].buf = data[read_idx'[q]]
    <3>1. CASE q = r
      BY <3>1, <1>b
    <3>2. CASE q # r
      <4>1. /\ reader'[q] = reader[q] /\ read_idx'[q] = read_idx[q] /\ read_idx[q] \in Chunks
            /\ read_flag'[read_idx[q]][q] = read_flag[read_idx[q]][q]
        BY <3>2, <1>b, <1>k, <1>f DEF Types
      <4> QED
        BY <4>1 DEF ReaderAt
    <3> QED
      BY <3>1, <3>2
  <2> QED
    BY <2>1, <1>u DEF ReaderAt
<1>6. LocalSockets'
  <2>1. ASSUME NEW q \in LocalReaders
        PROVE
        /\ \A k, l \in 1..Len(sockets[q]) : k < l => sockets[q][k] < sockets[q][l]
        /\ \A k \in 1..Len(sockets[q]) :
             got'[q] < sockets[q][k] /\ sockets[q][k] <= sent /\ ~Unsent(sockets[q][k])
        /\ writer.pc = "send" => got'[q] < sent
        /\ reader'[q].pc = "recv" => InSocket(q, Consumed(q)') \/ Unsent(Consumed(q)')
        /\ \A d \in Chunks : written[d] /\ MessageIn(d) > Consumed(q)' =>
             (data[d] = Overflow <=> InSocket(q, MessageIn(d)) \/ Unsent(MessageIn(d)))
    <3>1. CASE q # r
      <4>1. got'[q] = got[q] /\ reader'[q] = reader[q] /\ Consumed(q)' = Consumed(q)
        BY <3>1, <1>b DEF Readers
      <4> QED
        BY <4>1 DEF LocalSockets
    <3>2. CASE q = r
      <4>0. /\ data[c] = Overflow <=> InSocket(r, got[r] + 1) \/ Unsent(got[r] + 1)
            /\ \A k \in 1..Len(sockets[r]) : sockets[r][k] \in Int
        <5>1. \A k \in 1..Len(sockets[r]) : sockets[r][k] \in Int
          BY DEF Types, Readers
        <5> QED
          BY <5>1, <1>a DEF LocalSockets
      <4>1. \A d \in Chunks : written[d] /\ MessageIn(d) > Consumed(r)' =>
             (data[d] = Overflow <=> InSocket(r, MessageIn(d)) \/ Unsent(MessageIn(d)))
        BY <1>a, <1>b, <1>i DEF LocalSockets
      <4>2. \A k, l \in 1..Len(sockets[r]) : k < l => sockets[r][k] < sockets[r][l]
        BY DEF LocalSockets
      <4>3. CASE data[c] = Overflow
        <5>1. got'[r] = got[r] /\ Consumed(r)' = got[r] + 1
          BY <4>3, <1>b
        <5>2. InSocket(r, Consumed(r)') \/ Unsent(Consumed(r)')
          BY <4>0, <4>3, <5>1
        <5> QED
          BY <3>2, <4>1, <4>2, <5>1, <5>2 DEF LocalSockets
      <4>4. CASE data[c] # Overflow
        <5>1. got'[r] = got[r] + 1 /\ reader'[r].pc # "recv"
          BY <4>4, <1>b
        <5>2. \A k \in 1..Len(sockets[r]) :
               got'[r] < sockets[r][k] /\ sockets[r][k] <= sent /\ ~Unsent(sockets[r][k])
          BY <4>0, <4>4, <5>1, <1>a DEF LocalSockets, InSocket
        <5>3. writer.pc = "send" => got'[r] < sent
          BY <4>0, <4>4, <5>1, <1>a DEF Unsent
        <5> QED
          BY <3>2, <4>1, <4>2, <5>1, <5>2, <5>3
      <4> QED
        BY <4>3, <4>4
    <3> QED
      BY <3>1, <3>2
  <2> QED
    BY <2>1, <1>u DEF LocalSockets, InSocket, Unsent
<1>7. RemoteSockets'
  <2>1. \A q \in RemoteReaders : got'[q] = got[q]
    BY <1>b, MessageQueueAssumption DEF Readers
  <2> QED
    BY <2>1, <1>u DEF RemoteSockets
<1> QED
  BY <1>t, <1>1, <1>2, <1>3, <1>4, <1>5, <1>6, <1>7

\* What a socket delivers is the next message of its reader, be it local or not.
LEMMA SocketHead ==
  ASSUME IInv, NEW r \in Readers, Recv(r)
  PROVE  /\ sockets[r] \in Seq(Int) /\ Len(sockets[r]) \in Nat \ {0}
         /\ got[r] \in Nat /\ sent \in Nat
         /\ Head(sockets[r]) = sockets[r][1] /\ sockets[r][1] = got[r] + 1
         /\ got[r] < sent
<1>1. /\ sockets[r] \in Seq(Int) /\ got[r] \in Nat /\ sent \in Nat /\ sockets[r] # << >>
  BY DEF IInv, Ring, Types, Recv
<1>2. /\ Len(sockets[r]) \in Nat \ {0} /\ 1 \in 1..Len(sockets[r])
      /\ Head(sockets[r]) = sockets[r][1]
      /\ \A k \in 1..Len(sockets[r]) : sockets[r][k] \in Int
  BY <1>1
<1>3. CASE r \in LocalReaders
  <2>1. reader[r].pc = "recv" /\ Consumed(r) = got[r] + 1
    BY <1>1, <1>3 DEF Recv, Consumed
  <2>2. /\ got[r] < sockets[r][1] /\ sockets[r][1] <= sent /\ ~Unsent(sockets[r][1])
        /\ InSocket(r, got[r] + 1) \/ Unsent(got[r] + 1)
    BY <1>2, <1>3, <2>1 DEF IInv, LocalSockets
  <2>3. CASE InSocket(r, got[r] + 1)
    <3>1. PICK k \in 1..Len(sockets[r]) : sockets[r][k] = got[r] + 1
      BY <2>3 DEF InSocket
    <3>2. k = 1 \/ sockets[r][1] < sockets[r][k]
      BY <1>2, <1>3 DEF IInv, LocalSockets
    <3> QED
      BY <1>1, <1>2, <2>2, <3>1, <3>2
  <2>4. CASE Unsent(got[r] + 1)
    BY <1>1, <1>2, <2>2, <2>4 DEF Unsent
  <2> QED
    BY <1>1, <1>2, <2>2, <2>3, <2>4
<1>4. CASE r \in RemoteReaders
  <2>1. got[r] + Len(sockets[r]) = Delivered /\ sockets[r][1] = got[r] + 1
    BY <1>2, <1>4 DEF IInv, RemoteSockets
  <2>2. Delivered <= sent
    BY <1>1 DEF Delivered
  <2> QED
    BY <1>1, <1>2, <2>1, <2>2 DEF Delivered
<1> QED
  BY <1>1, <1>2, <1>3, <1>4 DEF Readers

\* Taking the next message from a socket keeps the invariant.
LEMMA RecvInv == ASSUME IInv, NEW r \in Readers, Recv(r) PROVE IInv'
<1>a. /\ sockets[r] \in Seq(Int) /\ Len(sockets[r]) \in Nat \ {0}
      /\ got[r] \in Nat /\ sent \in Nat
      /\ Head(sockets[r]) = sockets[r][1] /\ sockets[r][1] = got[r] + 1
      /\ got[r] < sent
  BY SocketHead
<1>b. /\ got' = [got EXCEPT ![r] = got[r] + 1] /\ got'[r] = got[r] + 1
      /\ got' \in [Readers -> Nat]
      /\ \A q \in Readers : q # r => got'[q] = got[q]
  <2>0. Head(sockets[r]) = got[r] + 1
    BY <1>a
  <2>1. got' = [got EXCEPT ![r] = got[r] + 1]
    BY <2>0 DEF Recv
  <2>2. got \in [Readers -> Nat]
    BY DEF IInv, Ring, Types
  <2> QED
    BY <2>1, <2>2, <1>a
<1>c. /\ sockets' \in [Readers -> Seq(Int)]
      /\ sockets'[r] = Tail(sockets[r])
      /\ \A q \in Readers : q # r => sockets'[q] = sockets[q]
  BY <1>a DEF Recv, IInv, Ring, Types
<1>d. /\ Len(sockets'[r]) = Len(sockets[r]) - 1
      /\ \A k \in 1..Len(sockets'[r]) :
           k + 1 \in 1..Len(sockets[r]) /\ sockets'[r][k] = sockets[r][k + 1]
  BY <1>a, <1>c
<1>e. /\ reader' \in [LocalReaders -> ReaderStates]
      /\ \A q \in LocalReaders : q # r => reader'[q] = reader[q]
      /\ r \in LocalReaders => reader[r].pc = "recv" /\ reader'[r].pc = "poll"
  <2>1. reader \in [LocalReaders -> ReaderStates]
    BY DEF IInv, Ring, Types
  <2> QED
    BY <2>1 DEF Recv, ReaderStates
<1>f. \A q \in LocalReaders : Consumed(q)' = Consumed(q)
  <2> TAKE q \in LocalReaders
  <2>1. CASE q = r
    <3>1. Consumed(q) = got[r] + 1
      BY <2>1, <1>e DEF Consumed
    <3>2. Consumed(q)' = got[r] + 1
      BY <2>1, <1>a, <1>b, <1>e DEF Consumed
    <3> QED
      BY <3>1, <3>2
  <2>2. CASE q # r
    BY <2>2, <1>b, <1>e DEF Consumed, Readers
  <2> QED
    BY <2>1, <2>2
<1>u. /\ UNCHANGED <<written, read_flag, data, write_idx, writer, sent, read_idx>>
      /\ Writing' = Writing /\ Delivered' = Delivered
      /\ \A d \in Chunks : MessageIn(d)' = MessageIn(d)
      /\ \A n : Unsent(n)' = Unsent(n)
  BY DEF Recv, ringVars, writerVars, Writing, Delivered, MessageIn, Unsent
<1>t. Types'
  BY <1>b, <1>c, <1>e, <1>u DEF IInv, Ring, Types
<1> USE DEF IInv, Ring
<1>1. Positions'
  BY <1>f, <1>u DEF Positions
<1>2. WrittenOnes'
  BY <1>u DEF WrittenOnes
<1>3. Flags'
  BY <1>f, <1>u DEF Flags
<1>4. WriterAt'
  BY <1>u DEF WriterAt
<1>5. ReaderAt'
  <2>1. ASSUME NEW q \in LocalReaders
        PROVE  /\ reader'[q].pc = "check" /\ reader'[q].read_flag = 0 =>
                    read_flag[read_idx[q]][q] = 0
               /\ reader'[q].pc \in {"read", "mark"} =>
                    written[read_idx[q]] /\ read_flag[read_idx[q]][q] = 0
               /\ reader'[q].pc = "mark" => reader'[q].buf = data[read_idx[q]]
    BY <1>e DEF ReaderAt
  <2> QED
    BY <2>1, <1>u DEF ReaderAt
<1>6. LocalSockets'
  <2>1. ASSUME NEW q \in LocalReaders
        PROVE
        /\ \A k, l \in 1..Len(sockets'[q]) : k < l => sockets'[q][k] < sockets'[q][l]
        /\ \A k \in 1..Len(sockets'[q]) :
             got'[q] < sockets'[q][k] /\ sockets'[q][k] <= sent /\ ~Unsent(sockets'[q][k])
        /\ writer.pc = "send" => got'[q] < sent
        /\ reader'[q].pc = "recv" =>
             \/ \E k \in 1..Len(sockets'[q]) : sockets'[q][k] = Consumed(q)
             \/ Unsent(Consumed(q))
        /\ \A d \in Chunks : written[d] /\ MessageIn(d) > Consumed(q) =>
             (data[d] = Overflow <=>
                \/ \E k \in 1..Len(sockets'[q]) : sockets'[q][k] = MessageIn(d)
                \/ Unsent(MessageIn(d)))
    <3>1. CASE q # r
      <4>1. got'[q] = got[q] /\ reader'[q] = reader[q] /\ sockets'[q] = sockets[q]
        BY <3>1, <1>b, <1>c, <1>e DEF Readers
      <4> QED
        BY <4>1 DEF LocalSockets, InSocket
    <3>2. CASE q = r
      <4>1. /\ \A k, l \in 1..Len(sockets[r]) : k < l => sockets[r][k] < sockets[r][l]
            /\ \A k \in 1..Len(sockets[r]) : sockets[r][k] \in Int
            /\ \A k \in 1..Len(sockets[r]) :
                 sockets[r][k] <= sent /\ ~Unsent(sockets[r][k])
        <5>1. \A k \in 1..Len(sockets[r]) : sockets[r][k] \in Int
          BY <1>a
        <5> QED
          BY <3>2, <5>1 DEF LocalSockets
      <4>2. \A k, l \in 1..Len(sockets'[r]) : k < l => sockets'[r][k] < sockets'[r][l]
        <5> SUFFICES ASSUME NEW k \in 1..Len(sockets'[r]), NEW l \in 1..Len(sockets'[r]), k < l
                     PROVE  sockets'[r][k] < sockets'[r][l]
          OBVIOUS
        <5>1. k + 1 < l + 1
          <6>1. Len(sockets'[r]) \in Nat
            BY <1>a, <1>d
          <6> HIDE DEF IInv, Ring
          <6> QED
            BY <6>1
        <5> QED
          BY <5>1, <4>1, <1>d
      <4>3. \A k \in 1..Len(sockets'[r]) :
             got'[r] < sockets'[r][k] /\ sockets'[r][k] <= sent /\ ~Unsent(sockets'[r][k])
        <5> SUFFICES ASSUME NEW k \in 1..Len(sockets'[r])
                     PROVE  got[r] + 1 < sockets[r][k + 1]
          BY <4>1, <1>b, <1>d
        <5>1. 1 < k + 1 /\ 1 \in 1..Len(sockets[r])
          <6>1. Len(sockets[r]) \in Nat \ {0} /\ Len(sockets'[r]) = Len(sockets[r]) - 1
            BY <1>a, <1>d
          <6> HIDE DEF IInv, Ring
          <6> QED
            BY <6>1
        <5> QED
          BY <5>1, <4>1, <1>a, <1>d
      <4>4. writer.pc = "send" => got'[r] < sent
        <5>1. ~Unsent(got[r] + 1)
          BY <4>1, <1>a
        <5> QED
          BY <5>1, <1>a, <1>b DEF Unsent
      <4>5. Consumed(r) = got[r] + 1
        BY <3>2, <1>a, <1>e DEF Consumed
      <4>6. ASSUME NEW n, n # got[r] + 1
            PROVE  InSocket(r, n) <=> \E k \in 1..Len(sockets'[r]) : sockets'[r][k] = n
        <5>1. ASSUME NEW k \in 1..Len(sockets[r]), sockets[r][k] = n
              PROVE  k - 1 \in 1..Len(sockets'[r]) /\ sockets'[r][k - 1] = n
          <6>1. k # 1
            BY <4>6, <5>1, <1>a
          <6>2. k - 1 \in 1..Len(sockets'[r]) /\ (k - 1) + 1 = k
            BY <6>1, <1>a, <1>d
          <6> QED
            BY <6>2, <5>1, <1>d
        <5> QED
          BY <5>1, <1>d DEF InSocket
      <4>7. \A d \in Chunks : written[d] /\ MessageIn(d) > Consumed(r) =>
             (data[d] = Overflow <=>
                \/ \E k \in 1..Len(sockets'[r]) : sockets'[r][k] = MessageIn(d)
                \/ Unsent(MessageIn(d)))
        <5> SUFFICES ASSUME NEW d \in Chunks, written[d], MessageIn(d) > Consumed(r)
                     PROVE  data[d] = Overflow <=>
                              \/ \E k \in 1..Len(sockets'[r]) : sockets'[r][k] = MessageIn(d)
                              \/ Unsent(MessageIn(d))
          OBVIOUS
        <5>1. MessageIn(d) # got[r] + 1
          BY <4>5, <1>a, MessagesDiffer
        <5> QED
          BY <5>1, <4>6, <3>2 DEF LocalSockets
      <4> QED
        BY <3>2, <4>2, <4>3, <4>4, <4>7, <1>e
    <3> QED
      BY <3>1, <3>2
  <2> QED
    BY <2>1, <1>f, <1>u DEF LocalSockets, InSocket, Unsent
<1>7. RemoteSockets'
  <2>1. ASSUME NEW q \in RemoteReaders
        PROVE  /\ got'[q] + Len(sockets'[q]) = Delivered
               /\ \A k \in 1..Len(sockets'[q]) : sockets'[q][k] = got'[q] + k
    <3>0. /\ got[q] + Len(sockets[q]) = Delivered
          /\ \A k \in 1..Len(sockets[q]) : sockets[q][k] = got[q] + k
      BY DEF RemoteSockets
    <3>1. CASE q # r
      BY <3>0, <3>1, <1>b, <1>c DEF Readers
    <3>2. CASE q = r
      <4>1. got'[r] + Len(sockets'[r]) = Delivered
        <5>1. got[r] + Len(sockets[r]) = Delivered
          BY <3>0, <3>2
        <5>2. /\ got'[r] = got[r] + 1 /\ Len(sockets'[r]) = Len(sockets[r]) - 1
              /\ got[r] \in Nat /\ Len(sockets[r]) \in Nat
          BY <1>a, <1>b, <1>d
        <5> HIDE DEF IInv, Ring
        <5> QED
          BY <5>1, <5>2
      <4>2. ASSUME NEW k \in 1..Len(sockets'[r]) PROVE sockets'[r][k] = got'[r] + k
        <5>1. sockets'[r][k] = sockets[r][k + 1] /\ sockets[r][k + 1] = got[r] + (k + 1)
          BY <3>0, <3>2, <1>d
        <5>2. k \in Nat
          BY <1>a, <1>d
        <5> QED
          BY <5>1, <5>2, <1>a, <1>b
      <4> QED
        BY <3>2, <4>1, <4>2
    <3> QED
      BY <3>1, <3>2
  <2> QED
    BY <2>1, <1>u DEF RemoteSockets
<1> QED
  BY <1>t, <1>1, <1>2, <1>3, <1>4, <1>5, <1>6, <1>7

-----------------------------------------------------------------------------
\* Every step keeps the inductive invariant.
LEMMA NextInv == ASSUME IInv, [Next]_vars PROVE IInv'
<1>1. CASE Next
  <2>1. CASE \E big \in BOOLEAN : Enqueue(big)
    BY <2>1, EnqueueInv
  <2>2. CASE WriterStep
    BY <2>2, SumReadFlagInv, WaitForReadersInv, ClearWrittenInv, BeginWriteInv, EndWriteInv,
       ResetReadFlagInv, MarkWrittenInv, SendLargeInv, SendRemoteInv DEF WriterStep
  <2>3. CASE EnqueueTimesOut
    BY <2>3, EnqueueTimesOutInv
  <2>4. CASE \E r \in LocalReaders : LocalStep(r)
    BY <2>4, ReadFlagInv, CheckWrittenInv, ReadChunkInv, MarkReadInv DEF LocalStep
  <2>5. CASE \E r \in Readers : Recv(r)
    BY <2>5, RecvInv
  <2> QED
    BY <1>1, <2>1, <2>2, <2>3, <2>4, <2>5 DEF Next
<1>2. CASE UNCHANGED vars
  <2>1. UNCHANGED <<ringVars, sockets, write_idx, sent, readerVars>> /\ writer' = writer
    BY <1>2 DEF vars, writerVars
  <2>2. Types' /\ WriterAt'
    BY <2>1 DEF IInv, Ring, Types, WriterAt, ringVars, readerVars
  <2> QED
    BY <2>1, <2>2, WriterMoves DEF Writing, Delivered
<1> QED
  BY <1>1, <1>2

\* The inductive invariant holds in every reachable state.
THEOREM QueueInvariant == Spec => []IInv
<1>1. Init => IInv
  BY InitInv
<1>2. IInv /\ [Next]_vars => IInv'
  BY NextInv
<1> QED
  BY <1>1, <1>2, PTL DEF Spec

\* The writer never touches the chunk a reader is reading, and the reader finds
\* its next message in it, for any number of readers, chunks and messages.
THEOREM ReadersSafe == Spec => []ReadersUndisturbed
<1>1. IInv => ReadersUndisturbed
  <2> SUFFICES ASSUME IInv, NEW r \in LocalReaders, reader[r].pc \in {"read", "mark"}
               PROVE  /\ written[read_idx[r]]
                      /\ data[read_idx[r]] # Torn
                      /\ reader[r].pc = "mark" => reader[r].buf = data[read_idx[r]]
                      /\ data[read_idx[r]] \in {Overflow, got[r] + 1}
    BY DEF ReadersUndisturbed
  <2>1. /\ written[read_idx[r]] /\ got[r] \in Nat
        /\ data[read_idx[r]] \in {Overflow, got[r] + 1}
        /\ reader[r].pc = "mark" => reader[r].buf = data[read_idx[r]]
    BY AtNextMessage
  <2>2. data[read_idx[r]] # Torn
    BY <2>1 DEF Overflow, Torn
  <2> QED
    BY <2>1, <2>2
<1> QED
  BY <1>1, QueueInvariant, PTL

\* Only MarkWritten enqueues, and only MarkRead and Recv dequeue.
LEMMA BroadcastSteps ==
  ASSUME IInv, [Next]_vars
  PROVE  [BS!BroadcastNext]_<<sent, got>>
<1>1. CASE MarkWritten
  BY <1>1 DEF MarkWritten, readerVars, BS!BroadcastNext, BS!Enqueue
<1>2. ASSUME NEW r \in LocalReaders, MarkRead(r) PROVE BS!Dequeue(r) \/ UNCHANGED <<sent, got>>
  <2>1. sent' = sent /\ got[r] < sent
    BY <1>2, AtNextMessage DEF MarkRead, writerVars
  <2> QED
    BY <1>2, <2>1, MarkReadStep DEF BS!Dequeue
<1>3. ASSUME NEW r \in Readers, Recv(r) PROVE BS!Dequeue(r)
  <2>1. got[r] < sent /\ Head(sockets[r]) = got[r] + 1
    BY <1>3, SocketHead
  <2> QED
    BY <1>3, <2>1 DEF Recv, writerVars, BS!Dequeue
<1>4. CASE \/ \E big \in BOOLEAN : Enqueue(big)
           \/ SumReadFlag \/ WaitForReaders \/ ClearWritten \/ BeginWrite \/ EndWrite
           \/ ResetReadFlag \/ SendLarge \/ SendRemote \/ EnqueueTimesOut
           \/ \E r \in LocalReaders : ReadFlag(r) \/ CheckWritten(r) \/ ReadChunk(r)
           \/ UNCHANGED vars
  BY <1>4 DEF Enqueue, SumReadFlag, WaitForReaders, ClearWritten, BeginWrite, EndWrite,
     ResetReadFlag, SendLarge, SendRemote, EnqueueTimesOut, ReadFlag, CheckWritten, ReadChunk,
     vars, writerVars, readerVars
<1> QED
  BY <1>1, <1>2, <1>3, <1>4 DEF Next, WriterStep, LocalStep, Readers, BS!BroadcastNext

\* The queue implements the broadcast specification: each reader, local or
\* remote, dequeues every message once and in the order they were enqueued.
THEOREM QueueImplementsBroadcast == Spec => ImplementsBroadcast
<1>1. Init => BS!BroadcastInit
  BY DEF Init, BS!BroadcastInit
<1>2. IInv /\ [Next]_vars => [BS!BroadcastNext]_<<sent, got>>
  BY BroadcastSteps
<1> QED
  BY <1>1, <1>2, QueueInvariant, PTL DEF Spec, ImplementsBroadcast, BS!Broadcast
=============================================================================
