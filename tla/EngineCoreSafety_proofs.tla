---------------------- MODULE EngineCoreSafety_proofs -----------------------
(***************************************************************************)
(* What the engine keeps, from the inductive invariant of                  *)
(* EngineCore_proofs (EngineInvariant).                                    *)
(*                                                                         *)
(* 1. Blocks: who owns one, what a shared one holds, which are common to   *)
(* all running requests, and that computed tokens have slots; and the      *)
(* types of the state (TypeInv).                                           *)
(*                                                                         *)
(* 2. Loads: the blocks that the ranks write (LoadInv).                    *)
(*                                                                         *)
(* 3. Encoder inputs: the cache of the scheduler, the outputs at the       *)
(* workers and the batches in flight (EncoderInv).                         *)
(*                                                                         *)
(* 4. Limits: budgets, running requests, LoRAs (LimitsInv, LoraInv).       *)
(*                                                                         *)
(* 5. Lookups of memoised hashes (HashInv).                                *)
(*                                                                         *)
(* 6. The workers' copy of the running requests and of the encoder outputs *)
(* (KnowsInv, SlotsInv).                                                   *)
(*                                                                         *)
(* 7. Blocks that another engine reads: the reads that were counted        *)
(* (ReadInv), and the requests that wait for them (CapInv, SentInv).       *)
(***************************************************************************)
EXTENDS EngineCore_proofs

\* The running list is the list of the RUNNING requests, but in update_from_output().
LEMMA RunningNow ==
  ASSUME QueueInv, call.phase # "update"
  PROVE  /\ running \in Seq(Req) /\ IsInjective(running)
         /\ \A r \in Req : r \in Members(running) <=> req[r].status = "RUNNING"
         /\ Members(running) \subseteq Req
         /\ IsFiniteSet(Members(running)) /\ Cardinality(Members(running)) = Len(running)
<1>1. PICK R, K, W, st : R = LiveRunning /\ K = call.skipped /\ W = waiting /\ st = Statuses
  OBVIOUS
<1>2. Placed(R, K, W, st)
  BY <1>1 DEF QueueInv, InPlace
<1>3. R = running
  BY <1>1 DEF LiveRunning
<1>4. \A r \in Req : st[r] = req[r].status
  BY <1>1 DEF Statuses
<1>5. running \in Seq(Req) /\ IsInjective(running) /\ Members(running) = {r \in Req : st[r] = "RUNNING"}
  BY <1>2, <1>3 DEF Placed, Proper
<1>6. Distinct(running)
  BY <1>5 DEF Distinct, IsInjective
<1> QED
  BY <1>4, <1>5, <1>6, CardMembers

\* Only the requests that may hold blocks hold any.
LEMMA HoldsInOrder ==
  ASSUME QueueInv, EngineInv, NEW r \in Req, kvm.req_to_blocks[r] # << >>
  PROVE  \/ req[r].status = "RUNNING"
         \/ r \in RemotePrefill /\ req[r].status \in {"WAITING", "WAITING_FOR_REMOTE_KVS"}
         \/ r \in RemoteDecode /\ req[r].status = "FINISHED"
<1>1. PICK R, K, W, st : R = LiveRunning /\ K = call.skipped /\ W = waiting /\ st = Statuses
  OBVIOUS
<1>2. Placed(R, K, W, st)
  BY <1>1 DEF QueueInv, InPlace
<1>3. st[r] = req[r].status /\ st[r] \in Status /\ Befits(r, st[r])
  <2>1. st[r] = req[r].status
    BY <1>1 DEF Statuses
  <2> QED
    BY <2>1, <1>2 DEF Placed
<1>4. PICK s : s = req[r].status
  OBVIOUS
<1>5. s \in Status /\ (s = "WAITING_FOR_REMOTE_KVS" => r \in RemotePrefill)
  BY <1>3, <1>4 DEF Befits
<1>6. /\ s \notin {"NEW", "PREEMPTED", "WAITING_FOR_FSM"}
      /\ s = "WAITING" => r \in RemotePrefill
      /\ s = "FINISHED" => r \in RemoteDecode
  BY <1>4 DEF EngineInv, Progress, Fits
<1> QED
  BY <1>4, <1>5, <1>6 DEF Status

\* The reference count of every block is the number of the requests that hold it, and a
\* block is free exactly when nobody does: preemption, abort, prefix cache hits, failed
\* allocations and transfers neither leak nor free a block twice, for every number of
\* requests, blocks and tokens.
THEOREM BlocksAreOwned == ASSUME Modelled PROVE Spec => []OwnershipExact
<1>1. QueueInv /\ EngineInv => OwnershipExact
  <2> SUFFICES ASSUME QueueInv, EngineInv PROVE OwnershipExact
    OBVIOUS
  <2>1. PICK p, lists : p = kvm.pool /\ lists = kvm.req_to_blocks
    OBVIOUS
  <2>2. PoolExact(p) /\ RefsExact(p, lists)
    BY <2>1 DEF EngineInv, ManagerOK
  <2>3. IsInjective(p.free_block_queue)
    BY <2>2 DEF PoolExact, Distinct, IsInjective
  <2>4. ASSUME NEW b \in Blocks \ {NullBlock}
        PROVE  /\ p.ref_cnt[b] = Cardinality({r \in Req : b \in Members(lists[r])})
               /\ b \in Members(p.free_block_queue) <=> p.ref_cnt[b] = 0
    BY <2>2 DEF PoolExact, RefsExact, HoldersIn
  <2> QED
    BY <2>1, <2>3, <2>4, HoldsInOrder DEF OwnershipExact, BlocksOf
<1> QED
  BY <1>1, EngineInvariant, PTL

\* A hash tells how many tokens it covers.
LEMMA HashLength ==
  ASSUME NEW r \in Req, NEW i \in Nat, i * BlockSize <= Len(Tokens[r])
  PROVE  Len(block_hash_of(r, i)) = i * BlockSize /\ i * BlockSize \in Nat
<1>1. PICK s, S : s = Tokens[r] /\ S = Members(s)
  OBVIOUS
<1>2. s \in Seq(S) /\ BlockSize \in Nat \ {0}
  BY <1>1, ManagerAssumption
<1>3. Len(s) \in Nat /\ \A x \in 1..Len(s) : s[x] \in S
  BY <1>2, LenProperties
<1>4. ASSUME NEW x \in Nat, x <= Len(s) PROVE Len(SubSeq(s, 1, x)) = x
  <2>1. \A y \in 1..x : s[y] \in S
    BY <1>3, <1>4
  <2>2. Len(SubSeq(s, 1, x)) = IF 1 <= x THEN x - 1 + 1 ELSE 0
    BY <2>1, SubSeqProperties
  <2> QED
    BY <2>2
<1>5. i * BlockSize \in Nat
  BY <1>2
<1> QED
  BY <1>1, <1>4, <1>5 DEF block_hash_of

\* A block with a hash is at the place that its hash says.
LEMMA HashedAt ==
  ASSUME NEW k, ManagerOK(k), NEW r \in Req, NEW i \in 1..Len(k.req_to_blocks[r]),
         NEW b, b = k.req_to_blocks[r][i], k.pool.block_hash[b] # NoHash
  PROVE  /\ k.pool.block_hash[b] = block_hash_of(r, i)
         /\ i * BlockSize \in Nat /\ Len(block_hash_of(r, i)) = i * BlockSize
<1>1. PICK l, c, p : l = k.req_to_blocks[r] /\ c = k.num_cached_block[r] /\ p = k.pool
  OBVIOUS
<1>2. ListOK(p, r, l, c) /\ c \in Nat
  BY <1>1 DEF ManagerOK, ManagerShape
<1>3. p.block_hash[b] = HashAt(r, i, c)
  BY <1>1, <1>2 DEF ListOK
<1>4. i <= c /\ p.block_hash[b] = block_hash_of(r, i)
  BY <1>1, <1>3 DEF HashAt
<1>5. i \in Nat /\ i * BlockSize <= Len(Tokens[r])
  <2>1. l \in Seq(Blocks \ {NullBlock})
    BY <1>1 DEF ManagerOK, ManagerShape
  <2>2. Len(l) \in Nat
    BY <2>1
  <2>3. i \in Nat
    BY <1>1, <2>2
  <2>4. PICK x, y : x = i * BlockSize /\ y = c * BlockSize
    OBVIOUS
  <2>5. x <= y /\ x \in Nat /\ y \in Nat
    BY <1>2, <1>4, <2>3, <2>4, ManagerAssumption
  <2>6. y <= Len(Tokens[r]) /\ Len(Tokens[r]) \in Nat
    BY <1>2, <2>4, TokensLen DEF ListOK
  <2> QED
    BY <2>3, <2>4, <2>5, <2>6
<1> QED
  BY <1>1, <1>4, <1>5, HashLength

\* A shared block is at the same place of both lists.
LEMMA SharedAt ==
  ASSUME NEW k, ManagerOK(k), NEW r \in Req, NEW q \in Req, q # r,
         NEW i \in 1..Len(k.req_to_blocks[r]), NEW b, b = k.req_to_blocks[r][i],
         b \in Members(k.req_to_blocks[q])
  PROVE  /\ i \in 1..Len(k.req_to_blocks[q]) /\ k.req_to_blocks[q][i] = b
         /\ block_hash_of(q, i) = block_hash_of(r, i)
<1>1. PICK l, m : l = k.req_to_blocks[r] /\ m = k.req_to_blocks[q]
  OBVIOUS
<1>2. l \in Seq(Blocks \ {NullBlock}) /\ m \in Seq(Blocks \ {NullBlock})
  BY <1>1 DEF ManagerOK, ManagerShape
<1>3. b \in Blocks \ {NullBlock} /\ b \in Members(l) /\ Len(l) \in Nat /\ DOMAIN m = 1..Len(m)
  BY <1>1, <1>2, MembersOf
<1>4. k.pool.block_hash[b] # NoHash
  BY <1>1, <1>3 DEF ManagerOK, HeldAlone
<1>5. PICK j \in 1..Len(m) : m[j] = b
  BY <1>1, <1>3 DEF Members
<1>6. /\ k.pool.block_hash[b] = block_hash_of(r, i)
      /\ i * BlockSize \in Nat /\ Len(block_hash_of(r, i)) = i * BlockSize
  BY <1>4, HashedAt
<1>7. /\ k.pool.block_hash[b] = block_hash_of(q, j)
      /\ j * BlockSize \in Nat /\ Len(block_hash_of(q, j)) = j * BlockSize
  BY <1>1, <1>4, <1>5, HashedAt
<1>8. i * BlockSize = j * BlockSize
  BY <1>6, <1>7
<1>9. i = j
  <2>1. Len(m) \in Nat /\ BlockSize \in Nat \ {0}
    BY <1>2, ManagerAssumption
  <2>2. i \in Nat /\ j \in Nat
    BY <1>1, <1>3, <2>1
  <2> QED
    BY <1>8, <2>1, <2>2, TimesInjective
<1> QED
  BY <1>1, <1>5, <1>6, <1>7, <1>9

\* Two requests share a block only at the same place of their lists and only where
\* their tokens agree up to it, and a block that carries a hash holds the tokens of
\* that hash: prefix caching, eviction and reuse never mix up contents.
THEOREM SharedBlocksHoldTheSame == ASSUME Modelled PROVE Spec => []SharedBlocksAgree
<1>1. QueueInv /\ EngineInv => SharedBlocksAgree
  <2> SUFFICES ASSUME EngineInv, NEW r \in Req, NEW i \in DOMAIN kvm.req_to_blocks[r],
                      NEW b, b = kvm.req_to_blocks[r][i]
               PROVE  /\ kvm.pool.block_hash[b] # NoHash
                           => kvm.pool.block_hash[b] = block_hash_of(r, i)
                      /\ \A q \in Req \ {r} : b \in BlocksOf(q) =>
                           /\ i <= Len(kvm.req_to_blocks[q]) /\ kvm.req_to_blocks[q][i] = b
                           /\ block_hash_of(q, i) = block_hash_of(r, i)
    BY DEF SharedBlocksAgree
  <2>1. ManagerOK(kvm)
    BY DEF EngineInv
  <2>2. kvm.req_to_blocks[r] \in Seq(Blocks \ {NullBlock})
    BY <2>1 DEF ManagerOK, ManagerShape
  <2>3. i \in 1..Len(kvm.req_to_blocks[r])
    BY <2>2
  <2>4. kvm.pool.block_hash[b] # NoHash => kvm.pool.block_hash[b] = block_hash_of(r, i)
    BY <2>1, <2>3, HashedAt
  <2>5. ASSUME NEW q \in Req \ {r}, b \in BlocksOf(q)
        PROVE  /\ i <= Len(kvm.req_to_blocks[q]) /\ kvm.req_to_blocks[q][i] = b
               /\ block_hash_of(q, i) = block_hash_of(r, i)
    BY <2>1, <2>3, <2>5, SharedAt DEF BlocksOf
  <2> QED
    BY <2>4, <2>5
<1> QED
  BY <1>1, EngineInvariant, PTL

\* A run of places with a fact, as long as can be.
LEMMA LongestRun ==
  ASSUME NEW n \in Nat, NEW T
  PROVE  \E m \in 0..n : (\A i \in 1..m : i \in T) /\ (m < n => m + 1 \notin T)
<1>1. CASE \A i \in 1..n : i \in T
  BY <1>1
<1>2. CASE \E i \in 1..n : i \notin T
  <2>1. PICK D : D = {i \in 1..n : i \notin T}
    OBVIOUS
  <2>2. D \subseteq Nat /\ D # {}
    BY <2>1, <1>2
  <2>3. PICK j \in D : \A k \in D : j <= k
    BY <2>2, Smallest
  <2>4. j \notin T /\ j \in 1..n
    BY <2>1, <2>3
  <2>5. PICK m : m = j - 1
    OBVIOUS
  <2>6. m \in 0..n /\ m + 1 = j
    BY <2>4, <2>5
  <2>7. ASSUME NEW i \in 1..m PROVE i \in T
    <3>1. i \in 1..n /\ ~(j <= i)
      BY <2>4, <2>5
    <3> QED
      BY <3>1, <2>1, <2>3
  <2> QED
    BY <2>4, <2>6, <2>7
<1> QED
  BY <1>1, <1>2

\* The blocks counted by get_num_common_prefix_blocks.
LEMMA CommonCounted ==
  ASSUME NEW blocks, blocks = kvm.req_to_blocks[running[1]], NEW S, blocks \in Seq(S)
  PROVE  /\ num_common_prefix_blocks \in 0..Len(blocks)
         /\ \A i \in 1..num_common_prefix_blocks : kvm.pool.ref_cnt[blocks[i]] = Len(running)
<1>1. Len(blocks) \in Nat
  OBVIOUS
<1>2. PICK T : T = {i \in 1..Len(blocks) : kvm.pool.ref_cnt[blocks[i]] = Len(running)}
  OBVIOUS
<1>3. PICK m \in 0..Len(blocks) : (\A i \in 1..m : i \in T) /\ (m < Len(blocks) => m + 1 \notin T)
  BY <1>1, LongestRun
<1>4. /\ \A i \in 1..m : kvm.pool.ref_cnt[blocks[i]] = Len(running)
      /\ m < Len(blocks) => kvm.pool.ref_cnt[blocks[m + 1]] # Len(running)
  <2>1. \A i \in T : kvm.pool.ref_cnt[blocks[i]] = Len(running)
    BY <1>2
  <2>2. m < Len(blocks) => m + 1 \in 1..Len(blocks) /\ m + 1 \notin T
    BY <1>1, <1>3
  <2>3. m < Len(blocks) => kvm.pool.ref_cnt[blocks[m + 1]] # Len(running)
    BY <2>2, <1>2
  <2> QED
    BY <2>1, <2>3, <1>3
<1>5. \E n \in 0..Len(blocks) :
        /\ \A i \in 1..n : kvm.pool.ref_cnt[blocks[i]] = Len(running)
        /\ n < Len(blocks) => kvm.pool.ref_cnt[blocks[n + 1]] # Len(running)
  BY <1>4
<1> QED
  BY <1>5 DEF num_common_prefix_blocks

\* Without KV transfers, a block with as many references as there are running requests
\* is held by all of them.
LEMMA HeldByAll ==
  ASSUME QueueInv, EngineInv, RemotePrefill \cup RemoteDecode = {}, call.phase # "update",
         NEW b \in Blocks \ {NullBlock}, kvm.pool.ref_cnt[b] = Len(running)
  PROVE  \A r \in Members(running) : r \in Req /\ b \in Members(kvm.req_to_blocks[r])
<1>1. PICK H, M : H = HoldersIn(kvm.req_to_blocks, b) /\ M = Members(running)
  OBVIOUS
<1>2. /\ IsFiniteSet(M) /\ Cardinality(M) = Len(running) /\ M \subseteq Req
      /\ \A r \in Req : r \in M <=> req[r].status = "RUNNING"
  BY <1>1, RunningNow
<1>3. Cardinality(H) = Len(running)
  BY <1>1 DEF EngineInv, ManagerOK, RefsExact
<1>4. ASSUME NEW r \in H PROVE r \in M
  <2>1. r \in Req /\ b \in Members(kvm.req_to_blocks[r])
    BY <1>1, <1>4 DEF HoldersIn
  <2>2. kvm.req_to_blocks[r] # << >>
    <3>1. Members(<< >>) = {}
      BY DEF Members
    <3> QED
      BY <2>1, <3>1
  <2>3. req[r].status = "RUNNING"
    BY <2>1, <2>2, HoldsInOrder
  <2> QED
    BY <1>2, <2>1, <2>3
<1>5. H \in SUBSET M
  BY <1>4
<1>6. M = H
  BY <1>2, <1>3, <1>5, FS_Subset
<1> QED
  BY <1>1, <1>2, <1>6 DEF HoldersIn

\* Cascade attention may rely on get_num_common_prefix_blocks: with no KV transfers,
\* the blocks it counts are at the beginning of the block list of every running
\* request, although it looks only at the first list and at reference counts.
THEOREM PrefixIsCommon ==
  ASSUME Modelled, RemotePrefill \cup RemoteDecode = {} PROVE Spec => []CommonPrefixIsCommon
<1>1. QueueInv /\ EngineInv => CommonPrefixIsCommon
  <2> SUFFICES ASSUME QueueInv, EngineInv, call.phase = "finish", running # << >>,
                      NEW r \in Members(running)
               PROVE  SubSeq(kvm.req_to_blocks[r], 1, num_common_prefix_blocks)
                        = SubSeq(kvm.req_to_blocks[running[1]], 1, num_common_prefix_blocks)
    BY DEF CommonPrefixIsCommon
  <2>1. PICK f, l, m, n : /\ f = running[1] /\ l = kvm.req_to_blocks[f]
                          /\ m = kvm.req_to_blocks[r] /\ n = num_common_prefix_blocks
    OBVIOUS
  <2>2. f \in Req /\ r \in Req
    <3>1. running \in Seq(Req) /\ Members(running) \subseteq Req
      BY RunningNow
    <3>2. 1 \in DOMAIN running
      BY <3>1
    <3> QED
      BY <2>1, <3>1, <3>2
  <2>3. ManagerOK(kvm)
    BY DEF EngineInv
  <2>4. l \in Seq(Blocks \ {NullBlock}) /\ m \in Seq(Blocks \ {NullBlock})
    BY <2>1, <2>2, <2>3 DEF ManagerOK, ManagerShape
  <2>5. n \in 0..Len(l) /\ \A i \in 1..n : kvm.pool.ref_cnt[l[i]] = Len(running)
    BY <2>1, <2>4, CommonCounted
  <2>6. Len(l) \in Nat /\ Len(m) \in Nat /\ n \in Nat
    BY <2>4, <2>5
  <2>7. ASSUME NEW i \in 1..n PROVE i \in 1..Len(m) /\ m[i] = l[i]
    <3>1. i \in 1..Len(l)
      BY <2>5, <2>6
    <3>2. PICK b : b = l[i]
      OBVIOUS
    <3>3. b \in Blocks \ {NullBlock}
      BY <2>4, <3>1, <3>2
    <3>4. kvm.pool.ref_cnt[b] = Len(running)
      BY <2>5, <3>2
    <3>5. b \in Members(m)
      BY <2>1, <3>3, <3>4, HeldByAll
    <3>6. CASE r = f
      BY <2>1, <3>1, <3>6
    <3>7. CASE r # f
      <4>1. /\ i \in 1..Len(kvm.req_to_blocks[f]) /\ b = kvm.req_to_blocks[f][i]
            /\ b \in Members(kvm.req_to_blocks[r])
        BY <2>1, <3>1, <3>2, <3>5
      <4>2. i \in 1..Len(kvm.req_to_blocks[r]) /\ kvm.req_to_blocks[r][i] = b
        BY <4>1, <3>7, <2>2, <2>3, SharedAt
      <4> QED
        BY <4>2, <2>1, <3>2
    <3> QED
      BY <3>6, <3>7
  <2>8. SubSeq(m, 1, n) = SubSeq(l, 1, n)
    <3>1. /\ \A i \in 1..n : m[i] \in Blocks \ {NullBlock}
          /\ \A i \in 1..n : l[i] \in Blocks \ {NullBlock}
      BY <2>4, <2>6, <2>7
    <3>2. /\ SubSeq(m, 1, n) \in Seq(Blocks \ {NullBlock})
          /\ Len(SubSeq(m, 1, n)) = IF 1 <= n THEN n - 1 + 1 ELSE 0
          /\ \A i \in 1..(n - 1 + 1) : SubSeq(m, 1, n)[i] = m[1 + i - 1]
      BY <3>1, <2>6, SubSeqProperties
    <3>3. /\ SubSeq(l, 1, n) \in Seq(Blocks \ {NullBlock})
          /\ Len(SubSeq(l, 1, n)) = IF 1 <= n THEN n - 1 + 1 ELSE 0
          /\ \A i \in 1..(n - 1 + 1) : SubSeq(l, 1, n)[i] = l[1 + i - 1]
      BY <3>1, <2>6, SubSeqProperties
    <3>4. PICK s, t : s = SubSeq(m, 1, n) /\ t = SubSeq(l, 1, n)
      OBVIOUS
    <3>5. Len(s) = n /\ Len(t) = n /\ \A i \in 1..n : s[i] = t[i]
      BY <3>2, <3>3, <3>4, <2>6, <2>7
    <3>6. s \in Seq(Blocks \ {NullBlock}) /\ t \in Seq(Blocks \ {NullBlock})
      BY <3>2, <3>3, <3>4
    <3>7. s = t
      BY <3>5, <3>6, SeqEqual
    <3> QED
      BY <3>4, <3>7
  <2> QED
    BY <2>1, <2>8
<1> QED
  BY <1>1, EngineInvariant, PTL

-----------------------------------------------------------------------------
\* Types of the rest of the state; and while schedule() runs there is room for one more
\* batch.
AsRecord(x) ==
  [status |-> x.status, num_tokens |-> x.num_tokens,
   num_computed_tokens |-> x.num_computed_tokens, spec_token_ids |-> x.spec_token_ids]
AreRecords(f) == f = [r \in Req |-> f[r]] /\ \A r \in Req : f[r] = AsRecord(f[r])
BatchesFit ==
  /\ MaxConcurrentBatches = 1 => batch_queue = << >>
  /\ Len(batch_queue) <= MaxConcurrentBatches
  /\ SchedPhase /\ MaxConcurrentBatches > 1 => Len(batch_queue) < MaxConcurrentBatches
TypeInv ==
  /\ AreRecords(req)
  /\ finished_req_ids \subseteq Req /\ grammar \subseteq Guided
  /\ cached_reqs_data \in [Req -> Nat]
  /\ BatchesFit

\* What a request is changed to is a record again.
LEMMA RecordsChange ==
  ASSUME AreRecords(req), NEW r \in Req
  PROVE  /\ \A s : AreRecords([req EXCEPT ![r].status = s])
         /\ \A n : AreRecords([req EXCEPT ![r].spec_token_ids = n])
         /\ \A s, n : AreRecords([req EXCEPT ![r].status = s, ![r].num_computed_tokens = n])
         /\ \A t, n, d : AreRecords([req EXCEPT ![r].num_tokens = t, ![r].num_computed_tokens = n,
                                                ![r].spec_token_ids = d])
         /\ \A s, t, n : AreRecords([req EXCEPT ![r].status = s, ![r].num_tokens = t,
                                                ![r].num_computed_tokens = n])
<1>1. PICK x : x = req[r] /\ x = AsRecord(x)
  BY DEF AreRecords
<1>2. ASSUME NEW f, f = [q \in Req |-> f[q]], NEW y, f[r] = AsRecord(y),
             \A q \in Req : q # r => f[q] = req[q]
      PROVE  AreRecords(f)
  <2>1. AsRecord(y) = AsRecord(AsRecord(y))
    BY DEF AsRecord
  <2> QED
    BY <1>2, <2>1 DEF AreRecords
<1>3. req = [q \in Req |-> req[q]]
  BY DEF AreRecords
<1>4. ASSUME NEW s PROVE AreRecords([req EXCEPT ![r].status = s])
  <2>1. PICK f : f = [req EXCEPT ![r].status = s]
    OBVIOUS
  <2>2. f = [q \in Req |-> f[q]] /\ \A q \in Req : q # r => f[q] = req[q]
    BY <2>1, <1>3
  <2>3. f[r] = AsRecord([x EXCEPT !.status = s])
    BY <2>1, <1>1, <1>3 DEF AsRecord
  <2> QED
    BY <2>1, <2>2, <2>3, <1>2
<1>5. ASSUME NEW n PROVE AreRecords([req EXCEPT ![r].spec_token_ids = n])
  <2>1. PICK f : f = [req EXCEPT ![r].spec_token_ids = n]
    OBVIOUS
  <2>2. f = [q \in Req |-> f[q]] /\ \A q \in Req : q # r => f[q] = req[q]
    BY <2>1, <1>3
  <2>3. f[r] = AsRecord([x EXCEPT !.spec_token_ids = n])
    BY <2>1, <1>1, <1>3 DEF AsRecord
  <2> QED
    BY <2>1, <2>2, <2>3, <1>2
<1>6. ASSUME NEW s, NEW n
      PROVE  AreRecords([req EXCEPT ![r].status = s, ![r].num_computed_tokens = n])
  <2>1. PICK f : f = [req EXCEPT ![r].status = s, ![r].num_computed_tokens = n]
    OBVIOUS
  <2>2. f = [q \in Req |-> f[q]] /\ \A q \in Req : q # r => f[q] = req[q]
    BY <2>1, <1>3
  <2>3. f[r] = AsRecord([x EXCEPT !.status = s, !.num_computed_tokens = n])
    BY <2>1, <1>1, <1>3 DEF AsRecord
  <2> QED
    BY <2>1, <2>2, <2>3, <1>2
<1>7. ASSUME NEW t, NEW n, NEW d
      PROVE  AreRecords([req EXCEPT ![r].num_tokens = t, ![r].num_computed_tokens = n,
                                    ![r].spec_token_ids = d])
  <2>1. PICK f : f = [req EXCEPT ![r].num_tokens = t, ![r].num_computed_tokens = n,
                                 ![r].spec_token_ids = d]
    OBVIOUS
  <2>2. f = [q \in Req |-> f[q]] /\ \A q \in Req : q # r => f[q] = req[q]
    BY <2>1, <1>3
  <2>3. f[r] = AsRecord([x EXCEPT !.num_tokens = t, !.num_computed_tokens = n,
                                  !.spec_token_ids = d])
    BY <2>1, <1>1, <1>3 DEF AsRecord
  <2> QED
    BY <2>1, <2>2, <2>3, <1>2
<1>8. ASSUME NEW s, NEW t, NEW n
      PROVE  AreRecords([req EXCEPT ![r].status = s, ![r].num_tokens = t,
                                    ![r].num_computed_tokens = n])
  <2>1. PICK f : f = [req EXCEPT ![r].status = s, ![r].num_tokens = t,
                                 ![r].num_computed_tokens = n]
    OBVIOUS
  <2>2. f = [q \in Req |-> f[q]] /\ \A q \in Req : q # r => f[q] = req[q]
    BY <2>1, <1>3
  <2>3. f[r] = AsRecord([x EXCEPT !.status = s, !.num_tokens = t, !.num_computed_tokens = n])
    BY <2>1, <1>1, <1>3 DEF AsRecord
  <2> QED
    BY <2>1, <2>2, <2>3, <1>2
<1> QED
  BY <1>4, <1>5, <1>6, <1>7, <1>8

LEMMA RecordsAdvance ==
  ASSUME AreRecords(req), NEW f,
         f = [r \in Req |-> [req[r] EXCEPT !.num_computed_tokens
                                             = @ + call.output.num_scheduled_tokens[r]]]
  PROVE  AreRecords(f)
<1>1. ASSUME NEW r \in Req PROVE f[r] = AsRecord(f[r])
  <2>1. PICK x, n : /\ x = req[r] /\ x = AsRecord(x)
                    /\ n = req[r].num_computed_tokens + call.output.num_scheduled_tokens[r]
    BY DEF AreRecords
  <2>2. f[r] = [x EXCEPT !.num_computed_tokens = n]
    BY <2>1
  <2> QED
    BY <2>1, <2>2 DEF AsRecord
<1>2. f = [r \in Req |-> f[r]]
  OBVIOUS
<1> QED
  BY <1>1, <1>2 DEF AreRecords

LEMMA TypeInit == Init => TypeInv
<1> SUFFICES ASSUME Init PROVE TypeInv
  OBVIOUS
<1>1. /\ req = [r \in Req |-> [status |-> "NEW", num_tokens |-> PromptLen[r],
                           num_computed_tokens |-> 0, spec_token_ids |-> 0]]
      /\ finished_req_ids = {} /\ grammar = {} /\ cached_reqs_data = NoTokens
      /\ batch_queue = << >> /\ call = NoCall
  BY DEF Init, SchedulerInit
<1>2. AreRecords(req)
  BY <1>1 DEF AreRecords, AsRecord
<1>3. BatchesFit
  BY <1>1, EngineAssumption DEF BatchesFit, SchedPhase, NoCall
<1> QED
  BY <1>1, <1>2, <1>3 DEF TypeInv, NoTokens

\* A step of schedule(), or of update_from_output() for a request that goes on.
LEMMA TypeSteps ==
  ASSUME TypeInv, AreRecords(req'), SchedPhase' => SchedPhase,
         UNCHANGED <<finished_req_ids, grammar, cached_reqs_data, batch_queue>>
  PROVE  TypeInv'
  BY DEF TypeInv, BatchesFit

LEMMA TypeFrame ==
  ASSUME TypeInv, UNCHANGED <<req, finished_req_ids, grammar, cached_reqs_data, batch_queue, call>>
  PROVE  TypeInv'
  BY DEF TypeInv, BatchesFit, AreRecords, SchedPhase

\* A request is finished.
LEMMA TypeFinishes ==
  ASSUME TypeInv, NEW r \in Req, AreRecords(req'), SchedPhase' => SchedPhase,
         cached_reqs_data' = [cached_reqs_data EXCEPT ![r] = 0],
         finished_req_ids' = finished_req_ids \cup {r}, UNCHANGED <<grammar, batch_queue>>
  PROVE  TypeInv'
  BY DEF TypeInv, BatchesFit

\* Client messages.
LEMMA TypeClient ==
  ASSUME QueueInv, TypeInv, NEW r \in Req, AddRequest(r) \/ AbortRequest(r) \/ CompileGrammar(r)
  PROVE  TypeInv'
<1>0. AreRecords(req)
  BY DEF TypeInv
<1>1. CASE AddRequest(r)
  <2>1. PICK v : v = IF r \in Guided THEN "WAITING_FOR_FSM" ELSE "WAITING"
    OBVIOUS
  <2>2. /\ req' = [req EXCEPT ![r].status = v]
        /\ UNCHANGED <<finished_req_ids, grammar, cached_reqs_data, batch_queue, call>>
    BY <1>1, <2>1 DEF AddRequest, add_request
  <2>3. AreRecords(req')
    BY <1>0, <2>2, RecordsChange
  <2> QED
    BY <2>2, <2>3, TypeSteps DEF SchedPhase
<1>2. CASE AbortRequest(r)
  <2>1. /\ req' = [req EXCEPT ![r].status = "FINISHED"]
        /\ cached_reqs_data' = [cached_reqs_data EXCEPT ![r] = 0]
        /\ finished_req_ids' = finished_req_ids \cup {r} /\ UNCHANGED <<grammar, batch_queue, call>>
    BY <1>2 DEF AbortRequest, finish_requests, free_request
  <2>2. AreRecords(req')
    BY <1>0, <2>1, RecordsChange
  <2> QED
    BY <2>1, <2>2, TypeFinishes DEF SchedPhase
<1>3. CASE CompileGrammar(r)
  BY <1>3 DEF CompileGrammar, GrammarCompiled, TypeInv, BatchesFit, SchedPhase, AreRecords
<1> QED
  BY <1>1, <1>2, <1>3

\* The steps of schedule().
LEMMA TypeScheduleStep ==
  ASSUME QueueInv, TypeInv, UNCHANGED batch_queue, ScheduleSteps PROVE TypeInv'
<1>0. AreRecords(req) /\ DOMAIN call = CallFields
  BY DEF TypeInv, QueueInv, Shapes
<1>1. UNCHANGED <<finished_req_ids, grammar, cached_reqs_data>> /\ SchedPhase
  BY DEF ScheduleSteps, SkipRunning, ScheduleRunning, PreemptLast, RunningLoopEnds, SkipWaiting,
         SkipLora, ScheduleWaiting, LoadRemote, StopAtWaiting, WaitingLoopEnds, InRunningLoop,
         InWaitingLoop, LooksUpHead, ConsidersHead, SchedPhase
<1>2. CASE SkipRunning \/ RunningLoopEnds \/ SkipWaiting \/ WaitingLoopEnds
  BY <1>0, <1>1, <1>2, TypeSteps
  DEF SkipRunning, RunningLoopEnds, SkipWaiting, WaitingLoopEnds
<1>3. CASE ScheduleRunning
  <2>1. PICK r : r = Current
    OBVIOUS
  <2>2. r \in Req
    BY <1>3, <2>1, RunningIsCurrent DEF ScheduleRunning
  <2>3. \E n : req' = [req EXCEPT ![r].spec_token_ids = n]
    BY <1>3, <2>1 DEF ScheduleRunning
  <2> QED
    BY <1>0, <1>1, <2>2, <2>3, RecordsChange, TypeSteps
<1>4. CASE PreemptLast
  <2>1. PICK r : r = running[Len(running)]
    OBVIOUS
  <2>2. r \in Req
    BY <1>4, <2>1, RunningIsCurrent DEF PreemptLast
  <2>3. req' = [req EXCEPT ![r].status = "PREEMPTED", ![r].num_computed_tokens = 0]
    BY <1>4, <2>1 DEF PreemptLast
  <2> QED
    BY <1>0, <1>1, <2>2, <2>3, RecordsChange, TypeSteps
<1>5. CASE SkipLora \/ ScheduleWaiting \/ LoadRemote \/ StopAtWaiting
  <2>1. PICK r : r = Head(waiting)
    OBVIOUS
  <2>2. r \in Req
    BY <1>5, <2>1, HeadWaits
    DEF SkipLora, ScheduleWaiting, LoadRemote, StopAtWaiting, LooksUpHead, ConsidersHead, InWaitingLoop
  <2>3. \/ \E s, n : req' = [req EXCEPT ![r].status = s, ![r].num_computed_tokens = n]
        \/ \E s : req' = [req EXCEPT ![r].status = s]
    <3>1. CASE SkipLora
      BY <3>1, <2>1 DEF SkipLora, ReqAtHead
    <3>2. CASE ScheduleWaiting
      BY <3>2, <2>1 DEF ScheduleWaiting
    <3>3. CASE LoadRemote
      BY <3>3, <2>1 DEF LoadRemote
    <3>4. CASE StopAtWaiting
      BY <3>4, <2>1 DEF StopAtWaiting, ReqAtHead
    <3> QED
      BY <1>5, <3>1, <3>2, <3>3, <3>4
  <2>4. CASE \E s : req' = [req EXCEPT ![r].status = s]
    BY <1>0, <1>1, <2>2, <2>4, RecordsChange, TypeSteps
  <2>5. CASE \E s, n : req' = [req EXCEPT ![r].status = s, ![r].num_computed_tokens = n]
    <3>1. PICK s, n, f : f = [req EXCEPT ![r].status = s, ![r].num_computed_tokens = n] /\ req' = f
      BY <2>5
    <3>2. AreRecords(f)
      BY <3>1, <1>0, <2>2, RecordsChange
    <3> QED
      BY <1>1, <3>1, <3>2, TypeSteps
  <2> QED
    BY <2>3, <2>4, <2>5
<1> QED
  BY <1>2, <1>3, <1>4, <1>5 DEF ScheduleSteps
\* The steps of update_from_output().
LEMMA TypeUpdateStep ==
  ASSUME QueueInv, TypeInv, UNCHANGED batch_queue, UpdateSteps PROVE TypeInv'
<1>0. AreRecords(req) /\ DOMAIN call = CallFields
  BY DEF TypeInv, QueueInv, Shapes
<1>1. CASE KeepUnscheduled
  <2>1. /\ UNCHANGED <<req, finished_req_ids, grammar, cached_reqs_data>>
        /\ call' = [call EXCEPT !.req_index = @ + 1, !.new_running = Append(@, Current)]
    BY <1>1 DEF KeepUnscheduled
  <2>2. call'.phase = call.phase
    BY <2>1, <1>0 DEF CallFields
  <2> QED
    BY <1>0, <2>1, <2>2, TypeSteps DEF SchedPhase
<1>2. CASE UpdateScheduled
  <2>1. PICK r : r = Current
    OBVIOUS
  <2>2. r \in Req /\ call.phase = "update"
    BY <1>2, <2>1, CurrentRuns DEF UpdateScheduled
  <2>3. PICK g : (\E d : UpdateContinues(r, g, d)) \/ UpdateStops(r, g)
    BY <1>2, <2>1 DEF UpdateScheduled
  <2>4. CASE \E d : UpdateContinues(r, g, d)
    <3>1. PICK d : UpdateContinues(r, g, d)
      BY <2>4
    <3>2. PICK t, n : /\ t = req[r].num_tokens + g /\ n = ComputedAfter(r, g)
      OBVIOUS
    <3>3. /\ UNCHANGED <<finished_req_ids, grammar, cached_reqs_data>>
          /\ call' = [call EXCEPT !.req_index = @ + 1, !.new_running = Append(@, r)]
          /\ req' = [req EXCEPT ![r].num_tokens = t, ![r].num_computed_tokens = n,
                                ![r].spec_token_ids = d]
      BY <3>1, <3>2 DEF UpdateContinues
    <3>4. call'.phase = call.phase
      BY <3>3, <1>0 DEF CallFields
    <3>5. AreRecords(req')
      BY <3>3, <1>0, <2>2, RecordsChange
    <3> QED
      BY <3>3, <3>4, <3>5, TypeSteps DEF SchedPhase
  <2>5. CASE UpdateStops(r, g)
    <3>1. PICK m : req' = [req EXCEPT ![r].status = "FINISHED", ![r].num_tokens = @ + m,
                                      ![r].num_computed_tokens = ComputedAfter(r, g)]
      BY <2>5 DEF UpdateStops
    <3>2. PICK t, n : t = req[r].num_tokens + m /\ n = ComputedAfter(r, g)
      OBVIOUS
    <3>3. req' = [req EXCEPT ![r].status = "FINISHED", ![r].num_tokens = t,
                             ![r].num_computed_tokens = n]
      BY <3>1, <3>2
    <3>4. /\ cached_reqs_data' = [cached_reqs_data EXCEPT ![r] = 0]
          /\ finished_req_ids' = finished_req_ids \cup {r} /\ UNCHANGED grammar
          /\ call' = [call EXCEPT !.req_index = @ + 1]
      BY <2>5 DEF UpdateStops, free_request
    <3>5. call'.phase = call.phase
      BY <3>4, <1>0 DEF CallFields
    <3>6. AreRecords(req')
      BY <3>3, <1>0, <2>2, RecordsChange
    <3> QED
      BY <2>2, <3>4, <3>5, <3>6, TypeFinishes DEF SchedPhase
  <2> QED
    BY <2>3, <2>4, <2>5
<1>3. CASE EndUpdate
  <2>1. /\ UNCHANGED <<req, finished_req_ids, grammar>> /\ call' = NoCall
        /\ cached_reqs_data' = [r \in Req |->
              IF r \in ScheduledCached(call.output) /\ ReturnsData(r)
              THEN cached_reqs_data[r] + 1 ELSE cached_reqs_data[r]]
    BY <1>3 DEF EndUpdate
  <2>2. cached_reqs_data' \in [Req -> Nat]
    BY <2>1 DEF TypeInv
  <2> QED
    BY <2>1, <2>2 DEF TypeInv, BatchesFit, AreRecords, SchedPhase, NoCall
<1> QED
  BY <1>1, <1>2, <1>3 DEF UpdateSteps

LEMMA SeqOfMore == \A S, T : S \subseteq T => Seq(S) \subseteq Seq(T)
  OBVIOUS

\* The other steps of the engine: a batch is queued only where there is room for it.
LEMMA TypeEngineStep ==
  ASSUME QueueInv, EngineInv, TypeInv, StepSchedules \/ StepDrains \/ StepDispatches \/ ExecuteModel
  PROVE  TypeInv'
<1>0. /\ AreRecords(req) /\ QueueGood(batch_queue) /\ Len(batch_queue) \in Nat
      /\ MaxConcurrentBatches \in Nat \ {0}
  BY EngineAssumption, QueueGoodSteps DEF TypeInv, EngineInv, OutsOK
<1>q. /\ batch_queue # << >> => Len(Tail(batch_queue)) = Len(batch_queue) - 1
      /\ batch_queue = << >> => Len(batch_queue) = 0
  BY <1>0, QueueGoodSteps
<1>1. CASE StepSchedules
  <2>1. /\ UNCHANGED <<req, finished_req_ids, grammar, cached_reqs_data, batch_queue>>
        /\ ~(MaxConcurrentBatches > 1 /\ Len(batch_queue) = MaxConcurrentBatches)
    BY <1>1 DEF StepSchedules, BatchQueueFull
  <2> QED
    BY <1>0, <2>1 DEF TypeInv, BatchesFit, AreRecords
<1>2. CASE StepDrains
  <2>1. /\ UNCHANGED <<req, finished_req_ids, grammar, cached_reqs_data>>
        /\ MaxConcurrentBatches > 1 /\ Len(batch_queue) = MaxConcurrentBatches
        /\ batch_queue' = Tail(batch_queue)
    BY <1>2 DEF StepDrains, BatchQueueFull
  <2>2. batch_queue # << >>
    BY <1>q, <1>0, <2>1
  <2>3. Len(batch_queue') = Len(batch_queue) - 1
    BY <2>1, <2>2, <1>q
  <2>4. Len(batch_queue') < MaxConcurrentBatches /\ MaxConcurrentBatches # 1
    BY <2>1, <2>3, <1>0
  <2>5. BatchesFit'
    BY <2>4, <2>3, <1>0 DEF BatchesFit
  <2> QED
    BY <2>1, <2>5 DEF TypeInv, AreRecords
<1>3. CASE StepDispatches
  <2>1. /\ req' = [r \in Req |-> [req[r] EXCEPT
                 !.num_computed_tokens = @ + call.output.num_scheduled_tokens[r]]]
        /\ finished_req_ids' = {} /\ grammar' = grammar /\ call.phase = "finish"
        /\ cached_reqs_data' = [r \in Req |->
            IF r \in ScheduledCached(call.output) /\ cached_reqs_data[r] > 0
            THEN cached_reqs_data[r] - 1 ELSE cached_reqs_data[r]]
    BY <1>3 DEF StepDispatches, EndSchedule
  <2>2. AreRecords(req')
    <3>1. PICK f : f = req'
      OBVIOUS
    <3>2. AreRecords(f)
      BY <1>0, <2>1, <3>1, RecordsAdvance
    <3> QED
      BY <3>1, <3>2
  <2>3. cached_reqs_data' \in [Req -> Nat]
    BY <2>1 DEF TypeInv
  <2>4. call'.phase \in {"execute", "idle", "update"}
    <3>1. \/ call' = [NoCall EXCEPT !.phase = "execute", !.output = OutputOfCall]
          \/ call' = NoCall
          \/ call' = [NoCall EXCEPT !.phase = "update", !.output = Head(batch_queue)]
      BY <1>3 DEF StepDispatches, BeginUpdate
    <3>2. CASE call' = [NoCall EXCEPT !.phase = "execute", !.output = OutputOfCall]
      BY <3>2 DEF NoCall
    <3>3. CASE call' = NoCall
      BY <3>3 DEF NoCall
    <3>4. CASE call' = [NoCall EXCEPT !.phase = "update", !.output = Head(batch_queue)]
      BY <3>4 DEF NoCall
    <3> QED
      BY <3>1, <3>2, <3>3, <3>4
  <2>5. \/ MaxConcurrentBatches = 1 /\ batch_queue' = batch_queue
        \/ MaxConcurrentBatches # 1 /\ \/ batch_queue' = Append(batch_queue, OutputOfCall)
                                       \/ batch_queue # << >> /\ batch_queue' = Tail(batch_queue)
                                       \/ batch_queue' = batch_queue
    BY <1>3 DEF StepDispatches
  <2>6. Len(Append(batch_queue, OutputOfCall)) = Len(batch_queue) + 1
    <3>1. PICK S : batch_queue \in Seq(S)
      BY <1>0 DEF QueueGood
    <3>2. PICK T, o : o = OutputOfCall /\ T = S \cup {o}
      OBVIOUS
    <3>3. batch_queue \in Seq(T) /\ o \in T
      BY <3>1, <3>2, SeqOfMore
    <3> QED
      BY <3>2, <3>3
  <2>7. ~SchedPhase' /\ (MaxConcurrentBatches > 1 => Len(batch_queue) < MaxConcurrentBatches)
    BY <2>1, <2>4 DEF SchedPhase, TypeInv, BatchesFit
  <2>8. Len(batch_queue') <= MaxConcurrentBatches
    BY <2>5, <2>6, <2>7, <1>0, <1>q DEF TypeInv, BatchesFit
  <2>9. BatchesFit'
    BY <2>5, <2>7, <2>8 DEF TypeInv, BatchesFit
  <2> QED
    BY <2>1, <2>2, <2>3, <2>9 DEF TypeInv
<1>4. CASE ExecuteModel
  <2>1. /\ UNCHANGED <<req, finished_req_ids, grammar, cached_reqs_data, batch_queue>>
        /\ \E a, b : call' = [BeginUpdate(call.output) EXCEPT !.finished_recving = a,
                                                              !.finished_sending = b]
    BY <1>4 DEF ExecuteModel
  <2>2. call'.phase = "update"
    BY <2>1 DEF BeginUpdate, NoCall
  <2> QED
    BY <2>1, <2>2 DEF TypeInv, BatchesFit, AreRecords, SchedPhase
<1> QED
  BY <1>1, <1>2, <1>3, <1>4

LEMMA TypeNext ==
  ASSUME QueueInv, EngineInv, TypeInv, [Steps]_engineVars PROVE TypeInv'
<1>1. ASSUME NEW k \in Ranks, NEW r \in Req, TransferArrives(k, r) \/ TransferIsRead(k, r)
      PROVE  TypeInv'
  BY <1>1, TypeFrame DEF TransferArrives, TransferIsRead, schedulerVars
<1>2. CASE ResetPrefixCache
  BY <1>2, TypeFrame DEF ResetPrefixCache
<1>3. CASE EngineStep
  BY <1>3, TypeScheduleStep, TypeUpdateStep, TypeEngineStep DEF EngineStep
<1>4. CASE UNCHANGED engineVars
  BY <1>4, TypeFrame DEF engineVars, schedulerVars
<1> QED
  BY <1>1, <1>2, <1>3, <1>4, TypeClient DEF Steps

\* Whether the engine core has ended is known.
FailedKnown == failed \in BOOLEAN
LEMMA FailedNext == FailedKnown /\ [Next]_vars => FailedKnown'
<1> SUFFICES ASSUME failed \in BOOLEAN, [Next]_vars PROVE failed' \in BOOLEAN
  BY DEF FailedKnown
<1>1. CASE EngineStep
  BY <1>1 DEF EngineStep, StepSchedules, StepDrains, StepDispatches, ExecuteModel
<1>2. CASE \E r \in Req : AddRequest(r) \/ AbortRequest(r) \/ CompileGrammar(r) \/ AbortRaises(r)
  BY <1>2 DEF AddRequest, AbortRequest, CompileGrammar, AbortRaises
<1>3. CASE \/ \E k \in Ranks, r \in Req : TransferArrives(k, r) \/ TransferIsRead(k, r)
           \/ ResetPrefixCache
  BY <1>3 DEF TransferArrives, TransferIsRead, ResetPrefixCache
<1>4. CASE UNCHANGED vars
  BY <1>4 DEF vars
<1> QED
  BY <1>1, <1>2, <1>3, <1>4 DEF Next, Steps

\* The state keeps its types: no request outgrows its length, no more drafts are kept
\* than proposed, and no more batches are in flight than the executor runs.
THEOREM TypesAreKept == ASSUME Modelled PROVE Spec => []TypeOK
<1>1. Init => TypeInv
  BY TypeInit
<1>2. (QueueInv /\ TransferInv /\ EngineInv) /\ TypeInv /\ [Next]_vars => TypeInv'
  BY TypeNext, NextSteps
<1>f. Init => FailedKnown
  BY DEF Init, FailedKnown
<1>3. QueueInv /\ EngineInv /\ TypeInv /\ FailedKnown => TypeOK
  <2> SUFFICES ASSUME QueueInv, EngineInv, TypeInv, failed \in BOOLEAN PROVE TypeOK
    BY DEF FailedKnown
  <2>1. ASSUME NEW r \in Req
        PROVE  /\ req[r] \in [status : Status, num_tokens : Nat, num_computed_tokens : Nat,
                               spec_token_ids : 0..NumSpecTokens]
               /\ req[r].num_tokens <= LengthCap(r)
    <3>1. /\ req[r].num_tokens \in 1..LengthCap(r) /\ req[r].num_computed_tokens \in Nat
          /\ req[r].spec_token_ids \in 0..NumSpecTokens
      BY DEF EngineInv, Progress, Fits
    <3>2. LengthCap(r) \in Nat
      BY CapBounds
    <3>3. Statuses[r] \in Status
      BY DEF QueueInv, InPlace, Placed
    <3>4. req[r].status \in Status
      BY <3>3 DEF Statuses
    <3>5. req[r] = AsRecord(req[r])
      BY DEF TypeInv, AreRecords
    <3> QED
      BY <3>1, <3>2, <3>4, <3>5 DEF AsRecord
  <2>2. req \in [Req -> [status : Status, num_tokens : Nat, num_computed_tokens : Nat,
                         spec_token_ids : 0..NumSpecTokens]]
    BY <2>1 DEF TypeInv, AreRecords
  <2>3. waiting \in Seq(Req) /\ running \in Seq(Req)
    BY DEF QueueInv, InPlace, Placed, Proper, Control
  <2>4. kvm.req_to_blocks \in [Req -> Seq(Blocks)] /\ kvm.num_cached_block \in [Req -> Nat]
    <3>1. /\ kvm.req_to_blocks \in [Req -> Seq(Blocks \ {NullBlock})]
          /\ kvm.num_cached_block \in [Req -> Nat]
      BY DEF EngineInv, ManagerOK, ManagerShape
    <3>2. Seq(Blocks \ {NullBlock}) \subseteq Seq(Blocks)
      BY SeqOfMore
    <3> QED
      BY <3>1, <3>2
  <2>5. call.phase \in {"idle", "running", "waiting", "finish", "execute", "update"}
    BY DEF EngineInv, OutsOK, Phases
  <2> QED
    BY <2>1, <2>2, <2>3, <2>4, <2>5 DEF TypeOK, TypeInv, BatchesFit
<1> QED
  <2>1. Spec => [](QueueInv /\ TransferInv /\ EngineInv)
    BY EngineInvariant
  <2> QED
    BY <1>1, <1>2, <1>3, <1>f, <2>1, FailedNext, PTL DEF Spec

\* Every token a running request has computed, or computes in a batch in flight, has a
\* slot in a block of the request: allocate_slots is asked before the tokens are counted,
\* and blocks leave a request only with its preemption or its end.
THEOREM TokensHaveSlots == ASSUME Modelled PROVE Spec => []ComputedTokensHaveSlots
<1>1. QueueInv /\ TransferInv /\ EngineInv => ComputedTokensHaveSlots
  <2> SUFFICES ASSUME EngineInv, NEW r \in Req, req[r].status = "RUNNING"
               PROVE  req[r].num_computed_tokens <= BlockSize * Len(kvm.req_to_blocks[r])
    BY DEF ComputedTokensHaveSlots
  <2>1. PICK nc, k, list, m :
          /\ nc = req[r].num_computed_tokens /\ k = Counted(r)
          /\ list = kvm.req_to_blocks[r] /\ m = BlockSize * Len(list)
    OBVIOUS
  <2>2. nc \in Nat /\ nc + k <= m
    BY <2>1 DEF EngineInv, Progress, Fits, RunsWell
  <2>3. k \in Nat
    <3>1. call.output.num_scheduled_tokens[r] \in Nat
      BY GoodOutput DEF EngineInv, OutsOK
    <3>2. k = call.output.num_scheduled_tokens[r] \/ k = 0
      BY <2>1 DEF Counted
    <3> QED
      BY <3>1, <3>2
  <2>4. m \in Nat
    <3>1. Len(list) \in Nat /\ BlockSize \in Nat
      BY <2>1, CapBounds DEF EngineInv, ManagerOK, ManagerShape
    <3> QED
      BY <2>1, <3>1
  <2>5. nc <= m
    BY <2>2, <2>3, <2>4
  <2> QED
    BY <2>1, <2>5
<1>2. Spec => [](QueueInv /\ TransferInv /\ EngineInv)
  BY EngineInvariant
<1> QED
  BY <1>1, <1>2, PTL

-----------------------------------------------------------------------------
\* Loads.  A request whose blocks are on their way waits for them, and what a transfer
\* writes are blocks of its own that carry no hash yet, unless the request was aborted.
Reported == conn.finished_recving \cup call.finished_recving
Held(r) == req[r].status = "WAITING_FOR_REMOTE_KVS" /\ r \notin Reported
NotLoading(r) == req[r].status # "WAITING_FOR_REMOTE_KVS" /\ r \notin Reported
Writable(list, cached) == {list[i] : i \in (cached + 1)..Len(list)}
Gone(r) == req[r].status = "FINISHED"
OwnBlocks(r, B) == B \subseteq Writable(kvm.req_to_blocks[r], kvm.num_cached_block[r])
Awaits(r, B) == r \in Req /\ (Gone(r) \/ (Held(r) /\ OwnBlocks(r, B)))
ClaimsOK(meta) == \A m \in meta : m.blocks # {} => Awaits(m.req, m.blocks)
LoadsOwn(x) ==
  \A r \in Req : \/ Receiving(x, r) = {} /\ x.target[r] = {}
                 \/ Receiving(x, r) # {} /\ Awaits(r, x.target[r])
LoadInv ==
  /\ ClaimsOK(conn.reqs_need_recv)
  /\ call.phase = "execute" => ClaimsOK(call.output.kv_meta)
  /\ LoadsOwn(worker.transfers)
  /\ \A r \in conn.do_remote_prefill : NotLoading(r)

\* A step that touches no request that waits for its blocks, or ends it.
LetGo(q) ==
  /\ Gone(q)' \/ ~(Held(q) \/ Gone(q))
  /\ q \in conn'.do_remote_prefill => req'[q].status # "WAITING_FOR_REMOTE_KVS"
LEMMA LoadFrame ==
  ASSUME LoadInv, Shapes, NEW Q,
         worker'.transfers.recving = worker.transfers.recving,
         worker'.transfers.target = worker.transfers.target,
         \A r \in Req \ Q : StatusKept(r) /\ ListKept(r),
         \A q \in Q : LetGo(q),
         Reported' \subseteq Reported,
         conn'.do_remote_prefill \subseteq conn.do_remote_prefill,
         \A m \in conn'.reqs_need_recv : \/ m \in conn.reqs_need_recv \/ m.blocks = {}
                                         \/ Awaits(m.req, m.blocks)',
         call'.phase = "execute" => call'.output.kv_meta = conn.reqs_need_recv \/ UNCHANGED call
  PROVE  LoadInv'
<1>1. ASSUME NEW r, NEW B, Awaits(r, B) PROVE Awaits(r, B)'
  <2>1. r \in Req /\ (Gone(r) \/ (Held(r) /\ OwnBlocks(r, B)))
    BY <1>1 DEF Awaits
  <2>2. CASE r \in Q
    <3>1. Gone(r)'
      BY <2>1, <2>2 DEF LetGo
    <3> QED
      BY <2>1, <3>1 DEF Awaits
  <2>3. CASE r \notin Q
    <3>1. StatusKept(r) /\ ListKept(r)
      BY <2>1, <2>3
    <3>2. Gone(r) => Gone(r)'
      BY <3>1 DEF Gone, StatusKept
    <3>3. Held(r) => Held(r)'
      BY <3>1 DEF Held, StatusKept
    <3>4. OwnBlocks(r, B) => OwnBlocks(r, B)'
      BY <3>1 DEF OwnBlocks, ListKept
    <3> QED
      BY <2>1, <3>2, <3>3, <3>4 DEF Awaits
  <2> QED
    BY <2>2, <2>3
<1>2. ASSUME NEW r \in conn'.do_remote_prefill PROVE NotLoading(r)'
  <2>1. NotLoading(r) /\ r \in Req
    BY ConnectorAssumption DEF LoadInv, Shapes
  <2>2. CASE r \in Q
    BY <2>1, <2>2 DEF NotLoading, LetGo
  <2>3. CASE r \notin Q
    BY <2>1, <2>3 DEF NotLoading, StatusKept
  <2> QED
    BY <2>2, <2>3
<1>3. ASSUME NEW meta, ClaimsOK(meta) PROVE \A m \in meta : m.blocks # {} => Awaits(m.req, m.blocks)'
  BY <1>1, <1>3 DEF ClaimsOK
<1>4. \A m \in conn'.reqs_need_recv : m.blocks # {} => Awaits(m.req, m.blocks)'
  BY <1>3 DEF LoadInv
<1>5. ASSUME call'.phase = "execute"
      PROVE  \A m \in call'.output.kv_meta : m.blocks # {} => Awaits(m.req, m.blocks)'
  <2>1. CASE call'.output.kv_meta = conn.reqs_need_recv
    BY <2>1, <1>3 DEF LoadInv
  <2>2. CASE UNCHANGED call
    BY <2>2, <1>3, <1>5 DEF LoadInv
  <2> QED
    BY <1>5, <2>1, <2>2
<1>6. ASSUME NEW r \in Req
      PROVE  \/ Receiving(worker'.transfers, r) = {} /\ worker'.transfers.target[r] = {}
             \/ /\ Receiving(worker'.transfers, r) # {}
                /\ Awaits(r, worker.transfers.target[r])'
  <2>1. Receiving(worker'.transfers, r) = Receiving(worker.transfers, r)
    BY DEF Receiving
  <2>2. Receiving(worker.transfers, r) # {} => Awaits(r, worker.transfers.target[r])
    BY DEF LoadInv, LoadsOwn
  <2>3. PICK B : B = worker.transfers.target[r]
    OBVIOUS
  <2>4. Awaits(r, B) => Awaits(r, B)'
    BY <1>1
  <2>5. B = worker'.transfers.target[r]
    BY <2>3
  <2>6. Awaits(r, B)' => Awaits(r, worker.transfers.target[r])'
    BY <2>5 DEF Awaits, OwnBlocks
  <2> QED
    BY <2>1, <2>2, <2>3, <2>4, <2>6 DEF LoadInv, LoadsOwn
<1> QED
  BY <1>2, <1>4, <1>5, <1>6 DEF LoadInv, ClaimsOK, LoadsOwn, Awaits, OwnBlocks

\* Client messages.
LEMMA LoadClient ==
  ASSUME QueueInv, EngineInv, LoadInv, NEW r \in Req,
         AddRequest(r) \/ AbortRequest(r) \/ CompileGrammar(r)
  PROVE  LoadInv'
<1>0. Shapes
  BY DEF QueueInv
<1>1. UNCHANGED <<conn, call, worker>>
  BY DEF AddRequest, AbortRequest, CompileGrammar, add_request, finish_requests, GrammarCompiled
<1>2. Reported' = Reported
  BY <1>1 DEF Reported
<1>3. PICK Q : Q = {r}
  OBVIOUS
<1>4. CASE AddRequest(r)
  <2>1. PICK v : v = IF r \in Guided THEN "WAITING_FOR_FSM" ELSE "WAITING"
    OBVIOUS
  <2>2. req' = [req EXCEPT ![r].status = v] /\ kvm' = kvm /\ req[r].status = "NEW"
    BY <1>4, <2>1 DEF AddRequest, add_request
  <2>3. \A q \in Req \ Q : StatusKept(q) /\ ListKept(q)
    BY <1>3, <2>2, StatusChanges DEF ListKept
  <2>4. LetGo(r)
    BY <2>1, <2>2 DEF LetGo, Held, Gone, QueueInv, Shapes, ReqFields
  <2> QED
    BY <1>0, <1>1, <1>2, <1>3, <2>3, <2>4, LoadFrame
<1>5. CASE AbortRequest(r)
  <2>1. req' = [req EXCEPT ![r].status = "FINISHED"]
    BY <1>5 DEF AbortRequest, finish_requests
  <2>2. OthersKeep(r)
    BY <1>5, EngineAbort
  <2>3. \A q \in Req \ Q : StatusKept(q) /\ ListKept(q)
    BY <1>3, <2>1, <2>2, StatusChanges DEF OthersKeep
  <2>4. LetGo(r)
    BY <2>1 DEF LetGo, Gone, QueueInv, Shapes, ReqFields
  <2> QED
    BY <1>0, <1>1, <1>2, <1>3, <2>3, <2>4, LoadFrame
<1>6. CASE CompileGrammar(r)
  <2>1. req' = req /\ kvm' = kvm
    BY <1>6 DEF CompileGrammar, GrammarCompiled
  <2>2. \A q \in Req \ {} : StatusKept(q) /\ ListKept(q)
    BY <2>1 DEF StatusKept, ListKept
  <2>3. PICK N : N = {}
    OBVIOUS
  <2> QED
    BY <1>0, <1>1, <1>2, <2>2, <2>3, LoadFrame
<1> QED
  BY <1>4, <1>5, <1>6

\* Steps that change no request's status and no list.
LEMMA LoadSame ==
  ASSUME QueueInv, LoadInv, worker'.transfers.recving = worker.transfers.recving,
         worker'.transfers.target = worker.transfers.target,
         \A q \in Req : StatusKept(q), \A q \in Req : ListKept(q),
         Reported' \subseteq Reported,
         conn'.do_remote_prefill = conn.do_remote_prefill,
         conn'.reqs_need_recv \subseteq conn.reqs_need_recv,
         call'.phase = "execute" => call'.output.kv_meta = conn.reqs_need_recv \/ UNCHANGED call
  PROVE  LoadInv'
<1>0. Shapes
  BY DEF QueueInv
<1>1. PICK N : N = {}
  OBVIOUS
<1>2. \A q \in Req \ N : StatusKept(q) /\ ListKept(q)
  BY <1>1
<1>3. \A q \in N : LetGo(q)
  BY <1>1
<1>4. \A m \in conn'.reqs_need_recv : \/ m \in conn.reqs_need_recv \/ m.blocks = {}
                                      \/ Awaits(m.req, m.blocks)'
  OBVIOUS
<1> QED
  BY <1>0, <1>2, <1>3, <1>4, LoadFrame

\* The blocks without a hash are those beyond the hashed ones.
LEMMA UnhashedAreWritable ==
  ASSUME NEW k, ManagerOK(k), NEW r \in Req
  PROVE  {b \in Members(k.req_to_blocks[r]) : k.pool.block_hash[b] = NoHash}
           \subseteq Writable(k.req_to_blocks[r], k.num_cached_block[r])
<1>1. PICK l, c, p : l = k.req_to_blocks[r] /\ c = k.num_cached_block[r] /\ p = k.pool
  OBVIOUS
<1>2. /\ l \in Seq(Blocks \ {NullBlock}) /\ c \in Nat /\ Len(l) \in Nat
      /\ c * BlockSize <= Len(Tokens[r])
      /\ \A i \in 1..Len(l) : p.block_hash[l[i]] = HashAt(r, i, c)
  BY <1>1 DEF ManagerOK, ManagerShape, ListOK
<1>3. ASSUME NEW i \in 1..Len(l), p.block_hash[l[i]] = NoHash PROVE i \in (c + 1)..Len(l)
  <2>1. CASE i <= c
    <3>1. block_hash_of(r, i) \in Hashes
      <4>1. BlockSize \in Nat /\ Len(Tokens[r]) \in Nat /\ i \in Nat \ {0}
        BY <1>2, CapBounds, TokensLen
      <4>2. i * BlockSize <= c * BlockSize
        BY <4>1, <2>1, <1>2
      <4>3. PICK x, y, n : x = i * BlockSize /\ y = c * BlockSize /\ n = Len(Tokens[r])
        OBVIOUS
      <4>4. x \in Nat /\ y \in Nat /\ n \in Nat
        BY <4>1, <4>3, <1>2
      <4>5. x <= n
        BY <4>2, <4>3, <4>4, <1>2
      <4> QED
        BY <4>1, <4>3, <4>5, HashOfBlock
    <3>2. block_hash_of(r, i) = NoHash
      BY <1>2, <1>3, <2>1 DEF HashAt
    <3> QED
      BY <3>1, <3>2, PoolAssumption
  <2>2. CASE ~(i <= c)
    BY <2>2, <1>2
  <2> QED
    BY <2>1, <2>2
<1>4. Members(l) = {l[i] : i \in 1..Len(l)}
  BY <1>2 DEF Members
<1> QED
  BY <1>1, <1>3, <1>4 DEF Writable

\* The requests that run.
LEMMA LoadScheduleRunning ==
  ASSUME QueueInv, EngineInv, LoadInv, UNCHANGED <<batch_queue, worker>>,
         ScheduleRunning \/ PreemptLast
  PROVE  LoadInv'
<1>0. Shapes /\ conn' = conn /\ call'.phase # "execute" /\ Reported' = Reported
  BY ScheduleCall DEF QueueInv, ScheduleSteps, ScheduleRunning, PreemptLast, Reported
<1>1. CASE ScheduleRunning
  <2>1. PICK r : r = Current
    OBVIOUS
  <2>2. InRunningLoop /\ \E n : req' = [req EXCEPT ![r].spec_token_ids = n]
    BY <1>1, <2>1 DEF ScheduleRunning
  <2>3. r \in Req /\ req[r].status = "RUNNING"
    BY <2>1, <2>2, CurrentToRun
  <2>4. req'[r].status = "RUNNING" /\ \A q \in Req : StatusKept(q)
    BY <2>2, <2>3 DEF QueueInv, Shapes, ReqFields, StatusKept
  <2>5. OthersKeep(r)
    BY <1>1, <2>1, EngineScheduleRunning
  <2>6. PICK Q : Q = {r}
    OBVIOUS
  <2>7. \A q \in Req \ Q : StatusKept(q) /\ ListKept(q)
    BY <2>4, <2>5, <2>6 DEF OthersKeep
  <2>8. \A q \in Q : LetGo(q)
    BY <2>3, <2>4, <2>6 DEF LetGo, Held, Gone
  <2> QED
    BY <1>0, <2>7, <2>8, LoadFrame
<1>2. CASE PreemptLast
  <2>1. PICK r : r = running[Len(running)]
    OBVIOUS
  <2>2. InRunningLoop /\ req' = [req EXCEPT ![r].status = "PREEMPTED", ![r].num_computed_tokens = 0]
    BY <1>2, <2>1 DEF PreemptLast
  <2>3. r \in Req /\ req[r].status = "RUNNING"
    BY <2>1, <2>2, RunningIsCurrent
  <2>4. req'[r].status = "PREEMPTED" /\ \A q \in Req \ {r} : StatusKept(q)
    BY <2>2, <2>3 DEF QueueInv, Shapes, ReqFields, StatusKept
  <2>5. OthersKeep(r)
    BY <1>2, <2>1, EnginePreemptLast
  <2>6. PICK Q : Q = {r}
    OBVIOUS
  <2>7. \A q \in Req \ Q : StatusKept(q) /\ ListKept(q)
    BY <2>4, <2>5, <2>6 DEF OthersKeep
  <2>8. \A q \in Q : LetGo(q)
    BY <2>3, <2>4, <2>6 DEF LetGo, Held, Gone
  <2> QED
    BY <1>0, <2>7, <2>8, LoadFrame
<1> QED
  BY <1>1, <1>2

\* The request at the head is looked at only when its blocks have been reported.
LEMMA LoadHead ==
  ASSUME Modelled, QueueInv, EngineInv, LoadInv, UNCHANGED <<batch_queue, worker>>,
         SkipLora \/ StopAtWaiting \/ ScheduleWaiting
  PROVE  LoadInv'
<1>1. PICK r, c : r = Head(waiting) /\ c = ConnectorAtHead(r)
  OBVIOUS
<1>2. r \in Req /\ \A q \in Req \ {r} : StatusKept(q)
  BY <1>1, HeadStatus
<1>3. InWaitingLoop /\ ~WaitsForRemote(r)
  BY <1>1 DEF SkipLora, StopAtWaiting, ScheduleWaiting, LooksUpHead, ConsidersHead
<1>4. ~Held(r) /\ ~Gone(r)
  <2>1. req[r].status \in Waits
    BY <1>1, <1>3, HeadWaits
  <2> QED
    BY <2>1, <1>3 DEF WaitsForRemote, Held, Gone, Reported, Waits
<1>5. OthersKeep(r)
  BY <1>1, EngineSkipLora, EngineStopAtWaiting, EngineScheduleWaiting
<1>6. req'[r].status # "WAITING_FOR_REMOTE_KVS"
  <2>1. CASE ScheduleWaiting
    <3>1. \E n : req' = [req EXCEPT ![r].status = "RUNNING", ![r].num_computed_tokens = n]
      BY <2>1, <1>1 DEF ScheduleWaiting
    <3> QED
      BY <3>1, <1>2 DEF QueueInv, Shapes, ReqFields
  <2>2. CASE SkipLora \/ StopAtWaiting
    <3>1. PICK s : s = StatusAtHead(r)
      OBVIOUS
    <3>2. \E n : req' = [req EXCEPT ![r].status = s, ![r].num_computed_tokens = n]
      BY <2>2, <1>1, <3>1 DEF SkipLora, StopAtWaiting, ReqAtHead
    <3>3. s # "WAITING_FOR_REMOTE_KVS"
      BY <3>1 DEF StatusAtHead
    <3>4. req'[r].status = s
      BY <3>2, <1>2 DEF QueueInv, Shapes, ReqFields
    <3> QED
      BY <3>3, <3>4
  <2> QED
    BY <2>1, <2>2
<1>7. /\ c.do_remote_prefill = conn.do_remote_prefill
      /\ c.reqs_need_recv = conn.reqs_need_recv
      /\ c.finished_recving \subseteq conn.finished_recving
      /\ DOMAIN c = {"do_remote_prefill", "reqs_need_recv", "finished_recving"}
  BY <1>1, ConnAtHead
<1>8. /\ conn'.do_remote_prefill \subseteq conn.do_remote_prefill
      /\ conn'.finished_recving \subseteq conn.finished_recving
      /\ \A m \in conn'.reqs_need_recv : m \in conn.reqs_need_recv \/ m.blocks = {}
  <2>1. CASE SkipLora \/ StopAtWaiting
    <3>1. conn' = c
      BY <2>1, <1>1 DEF SkipLora, StopAtWaiting
    <3> QED
      BY <3>1, <1>7
  <2>2. CASE ScheduleWaiting
    <3>1. PICK e, d : e = {} /\ d = conn'
      OBVIOUS
    <3>2. d = update_state_after_alloc(c, r, e)
      BY <2>2, <1>1, <3>1 DEF ScheduleWaiting
    <3>3. AllocKnown(c, d, r, e)
      BY <3>2, <1>7, StateAfterAlloc
    <3>4. /\ d.do_remote_prefill = c.do_remote_prefill \ {r}
          /\ d.finished_recving = c.finished_recving
          /\ \A m \in d.reqs_need_recv : m \in c.reqs_need_recv \/ m.blocks = e
      BY <3>3 DEF AllocKnown
    <3> QED
      BY <3>1, <3>4, <1>7
  <2> QED
    BY <2>1, <2>2
<1>9. call'.phase # "execute" /\ call'.finished_recving = call.finished_recving
  BY ScheduleCall DEF ScheduleSteps
<1>10. Reported' \subseteq Reported /\ Shapes
  BY <1>8, <1>9 DEF Reported, QueueInv
<1>11. PICK Q : Q = {r}
  OBVIOUS
<1>12. \A q \in Req \ Q : StatusKept(q) /\ ListKept(q)
  BY <1>2, <1>5, <1>11 DEF OthersKeep
<1>13. \A q \in Q : LetGo(q)
  BY <1>4, <1>6, <1>11 DEF LetGo
<1> QED
  BY <1>8, <1>9, <1>10, <1>12, <1>13, LoadFrame

\* A load begins: the blocks to be written are those of the request without a hash.
LEMMA LoadBegins ==
  ASSUME Modelled, QueueInv, EngineInv, LoadInv, UNCHANGED <<batch_queue, worker>>, LoadRemote
  PROVE  LoadInv'
<1>1. PICK r, B : /\ r = Head(waiting)
                  /\ B = {b \in Members(kvm'.req_to_blocks[r]) : kvm'.pool.block_hash[b] = NoHash}
  OBVIOUS
<1>2. /\ load_kv_async(r) /\ conn' = update_state_after_alloc(conn, r, B)
      /\ req' = [req EXCEPT ![r].status = "WAITING_FOR_REMOTE_KVS"]
  BY <1>1 DEF LoadRemote
<1>3. r \in Req /\ \A q \in Req \ {r} : StatusKept(q)
  BY <1>1, HeadStatus
<1>4. r \in conn.do_remote_prefill
  <2>1. ~(0 > 0)
    OBVIOUS
  <2> QED
    BY <2>1, <1>2 DEF load_kv_async, ExternalComputed, num_external_computed_tokens
<1>5. NotLoading(r) /\ ~Gone(r)
  <2>1. req[r].status \in Waits
    BY <1>1, HeadWaits DEF LoadRemote, LooksUpHead, ConsidersHead
  <2> QED
    BY <2>1, <1>4 DEF LoadInv, Gone, Waits
<1>6. OthersKeep(r) /\ ManagerOK(kvm')
  BY <1>1, EngineLoadRemote DEF EngineInv
<1>7. DOMAIN conn = {"do_remote_prefill", "reqs_need_recv", "finished_recving"} /\ Shapes
  BY DEF QueueInv, Shapes
<1>8. PICK d : d = conn'
  OBVIOUS
<1>9. AllocKnown(conn, d, r, B)
  BY <1>2, <1>7, <1>8, StateAfterAlloc
<1>10. /\ conn'.do_remote_prefill = conn.do_remote_prefill \ {r}
       /\ conn'.finished_recving = conn.finished_recving
       /\ \A m \in conn'.reqs_need_recv : m \in conn.reqs_need_recv \/ (m.req = r /\ m.blocks = B)
  BY <1>8, <1>9 DEF AllocKnown
<1>11. call'.phase # "execute" /\ call'.finished_recving = call.finished_recving
  BY ScheduleCall DEF ScheduleSteps
<1>12. Reported' = Reported
  BY <1>10, <1>11 DEF Reported
<1>13. Awaits(r, B)'
  <2>1. req'[r].status = "WAITING_FOR_REMOTE_KVS"
    BY <1>2, <1>3 DEF QueueInv, Shapes, ReqFields
  <2>2. Held(r)'
    BY <2>1, <1>5, <1>12 DEF Held, NotLoading
  <2>3. PICK k : k = kvm'
    OBVIOUS
  <2>4. B \subseteq Writable(k.req_to_blocks[r], k.num_cached_block[r])
    BY <2>3, <1>1, <1>3, <1>6, UnhashedAreWritable
  <2> QED
    BY <2>2, <2>3, <2>4, <1>3 DEF Awaits, OwnBlocks
<1>14. PICK Q : Q = {r}
  OBVIOUS
<1>15. \A q \in Req \ Q : StatusKept(q) /\ ListKept(q)
  BY <1>3, <1>6, <1>14 DEF OthersKeep
<1>16. \A q \in Q : LetGo(q)
  BY <1>5, <1>10, <1>14 DEF LetGo, Held, NotLoading
<1>17. \A m \in conn'.reqs_need_recv : \/ m \in conn.reqs_need_recv \/ m.blocks = {}
                                       \/ Awaits(m.req, m.blocks)'
  BY <1>10, <1>13 DEF Awaits, OwnBlocks
<1> QED
  BY <1>7, <1>10, <1>11, <1>12, <1>15, <1>16, <1>17, LoadFrame

LEMMA LoadScheduleStep ==
  ASSUME Modelled, QueueInv, EngineInv, LoadInv, UNCHANGED <<batch_queue, worker>>, ScheduleSteps
  PROVE  LoadInv'
<1>1. CASE SkipRunning \/ RunningLoopEnds \/ SkipWaiting \/ WaitingLoopEnds
  <2>1. UNCHANGED <<req, kvm, conn>>
    BY <1>1 DEF SkipRunning, RunningLoopEnds, SkipWaiting, WaitingLoopEnds
  <2>2. call'.phase # "execute" /\ Reported' = Reported
    BY <2>1, ScheduleCall DEF Reported
  <2>3. \A q \in Req : StatusKept(q)
    BY <2>1 DEF StatusKept
  <2>4. \A q \in Req : ListKept(q)
    BY <2>1 DEF ListKept
  <2> QED
    BY <2>1, <2>2, <2>3, <2>4, LoadSame
<1> QED
  BY <1>1, LoadScheduleRunning, LoadHead, LoadBegins DEF ScheduleSteps

LEMMA LoadUpdateStep ==
  ASSUME Modelled, QueueInv, TransferInv, EngineInv, LoadInv, UNCHANGED <<batch_queue, worker>>,
         UpdateSteps
  PROVE  LoadInv'
<1>0. /\ Shapes /\ DOMAIN call = CallFields
      /\ DOMAIN conn = {"do_remote_prefill", "reqs_need_recv", "finished_recving"}
  BY DEF QueueInv, Shapes
<1>1. call'.phase # "execute" /\ ConnKept /\ call'.finished_recving \subseteq call.finished_recving
  BY UpdateCall
<1>2. Reported' \subseteq Reported
  <2>1. CASE EndUpdate
    <3>1. /\ conn' = [conn EXCEPT !.finished_recving = @ \cup call.finished_recving]
          /\ call' = NoCall
      BY <2>1 DEF EndUpdate
    <3>2. conn'.finished_recving = conn.finished_recving \cup call.finished_recving
      BY <3>1, <1>0
    <3>3. call'.finished_recving = {}
      BY <3>1 DEF NoCall
    <3> QED
      BY <3>2, <3>3 DEF Reported
  <2>2. CASE UNCHANGED conn
    BY <2>2, <1>1 DEF Reported
  <2> QED
    BY <2>1, <2>2 DEF UpdateSteps, KeepUnscheduled, UpdateScheduled, UpdateContinues, UpdateStops
<1>3. CASE KeepUnscheduled
  <2>1. \A q \in Req : StatusKept(q)
    BY <1>3 DEF StatusKept, KeepUnscheduled
  <2>2. \A q \in Req : ListKept(q)
    BY <1>3 DEF ListKept, KeepUnscheduled
  <2> QED
    BY <1>1, <1>2, <2>1, <2>2, LoadSame DEF ConnKept
<1>4. CASE UpdateScheduled
  <2>1. PICK r, g : /\ r = Current /\ g \in Generated(call.output, Current)
                    /\ (\E d : UpdateContinues(Current, g, d)) \/ UpdateStops(Current, g)
    BY <1>4 DEF UpdateScheduled
  <2>2. InUpdateLoop
    BY <1>4 DEF UpdateScheduled
  <2>3. r \in Req /\ req[r].status = "RUNNING"
    BY <2>1, <2>2, CurrentInFlight
  <2>4. CASE \E d : UpdateContinues(Current, g, d)
    <3>1. PICK d, t, n : /\ UpdateContinues(r, g, d)
                         /\ t = req[r].num_tokens + g /\ n = ComputedAfter(r, g)
      BY <2>1, <2>4
    <3>2. kvm' = kvm /\ req' = [req EXCEPT ![r].num_tokens = t, ![r].num_computed_tokens = n,
                                           ![r].spec_token_ids = d]
      BY <3>1 DEF UpdateContinues
    <3>3. \A q \in Req : StatusKept(q)
      BY <3>2, <2>3 DEF QueueInv, Shapes, ReqFields, StatusKept
    <3>4. \A q \in Req : ListKept(q)
      BY <3>2 DEF ListKept
    <3> QED
      BY <1>1, <1>2, <3>3, <3>4, LoadSame DEF ConnKept
  <2>5. CASE UpdateStops(Current, g)
    <3>1. \E t, n : req' = [req EXCEPT ![r].status = "FINISHED", ![r].num_tokens = t,
                                       ![r].num_computed_tokens = n]
      BY <2>1, <2>5 DEF UpdateStops
    <3>2. req'[r].status = "FINISHED"
      BY <3>1, <2>3 DEF QueueInv, Shapes, ReqFields
    <3>3. \A q \in Req \ {r} : StatusKept(q)
      BY <3>1, <2>3, StatusChanges
    <3>4. OthersKeep(r)
      BY <2>1, <2>2, <2>5, EngineUpdateStops
    <3>5. PICK Q : Q = {r}
      OBVIOUS
    <3>6. \A q \in Req \ Q : StatusKept(q) /\ ListKept(q)
      BY <3>3, <3>4, <3>5 DEF OthersKeep
    <3>7. \A q \in Q : LetGo(q)
      BY <3>2, <3>5 DEF LetGo, Gone
    <3> QED
      BY <1>0, <1>1, <1>2, <3>6, <3>7, LoadFrame DEF ConnKept
  <2> QED
    BY <2>1, <2>4, <2>5
<1>5. CASE EndUpdate
  <2>1. PICK Q : Q = call.finished_sending
    OBVIOUS
  <2>2. \A r \in Q : req[r].status = "FINISHED"
    BY <2>1 DEF TransferInv, WaitsToBeRead
  <2>3. Emptied(kvm, kvm', Q)
    BY <1>5, <2>1, <2>2, EngineEndUpdate
  <2>4. req' = req
    BY <1>5 DEF EndUpdate
  <2>5. \A q \in Req \ Q : StatusKept(q) /\ ListKept(q)
    BY <2>3, <2>4 DEF Emptied, StatusKept, ListKept
  <2>6. \A q \in Q : LetGo(q)
    BY <2>2, <2>4 DEF LetGo, Gone
  <2> QED
    BY <1>0, <1>1, <1>2, <2>5, <2>6, LoadFrame DEF ConnKept
<1> QED
  BY <1>3, <1>4, <1>5 DEF UpdateSteps

\* A transfer arrives, or is read.
LEMMA LoadMoves ==
  ASSUME QueueInv, TransferInv, LoadInv, NEW k \in Ranks, NEW r \in Req,
         TransferArrives(k, r) \/ TransferIsRead(k, r)
  PROVE  LoadInv'
<1>1. UNCHANGED <<req, kvm, conn, call>>
  BY DEF TransferArrives, TransferIsRead, schedulerVars
<1>2. DOMAIN worker = WorkerFields /\ DOMAIN worker.transfers = TransferFields
  BY DEF TransferInv, TransfersOK
<1>3. PICK x : x = worker.transfers
  OBVIOUS
<1>4. worker'.transfers = TransferArrived(x, k, r) \/ worker'.transfers = TransferRead(x, k, r)
  BY <1>2, <1>3 DEF TransferArrives, TransferIsRead, WorkerFields
<1>5. PICK y : y = worker'.transfers
  OBVIOUS
<1>6. y.recving = x.recving /\ y.target = x.target
  <2>1. CASE y = TransferArrived(x, k, r)
    BY <2>1, <1>2, <1>3 DEF TransferArrived, TransferFields
  <2>2. CASE y = TransferRead(x, k, r)
    BY <2>2, <1>2, <1>3 DEF TransferRead, TransferFields
  <2> QED
    BY <1>4, <1>5, <2>1, <2>2
<1>7. \A q \in Req : StatusKept(q)
  BY <1>1 DEF StatusKept
<1>8. \A q \in Req : ListKept(q)
  BY <1>1 DEF ListKept
<1>9. Reported' = Reported
  BY <1>1 DEF Reported
<1> QED
  BY <1>1, <1>3, <1>5, <1>6, <1>7, <1>8, <1>9, LoadSame

\* The steps that begin a call, and the dispatch of an output.
LEMMA LoadEngineStep ==
  ASSUME QueueInv, TransferInv, EngineInv, LoadInv, StepSchedules \/ StepDrains \/ StepDispatches
  PROVE  LoadInv'
<1>c. DOMAIN conn = {"do_remote_prefill", "reqs_need_recv", "finished_recving"}
  BY DEF QueueInv, Shapes
<1>1. CASE StepSchedules \/ StepDrains
  <2>1. UNCHANGED <<req, kvm, conn, worker>> /\ call'.phase # "execute" /\ call'.finished_recving = {}
    BY <1>1 DEF StepSchedules, StepDrains, BeginSchedule, BeginUpdate, NoCall
  <2>2. \A q \in Req : StatusKept(q)
    BY <2>1 DEF StatusKept
  <2>3. \A q \in Req : ListKept(q)
    BY <2>1 DEF ListKept
  <2>4. Reported' \subseteq Reported
    BY <2>1 DEF Reported
  <2> QED
    BY <2>1, <2>2, <2>3, <2>4, LoadSame
<1>2. CASE StepDispatches
  <2>1. /\ conn' = [conn EXCEPT !.reqs_need_recv = {}] /\ kvm' = kvm
        /\ req' = [r \in Req |-> [req[r] EXCEPT
                 !.num_computed_tokens = @ + call.output.num_scheduled_tokens[r]]]
    BY <1>2 DEF StepDispatches, EndSchedule
  <2>2. /\ conn'.reqs_need_recv = {} /\ conn'.do_remote_prefill = conn.do_remote_prefill
        /\ conn'.finished_recving = conn.finished_recving
    BY <2>1, <1>c
  <2>3. OutputOfCall.kv_meta = conn.reqs_need_recv
    BY DEF OutputOfCall, EngineInv, OutsOK, OutputGood, OutputShape, OutputFields
  <2>4. /\ call'.finished_recving = {}
        /\ call'.phase = "execute" => call'.output.kv_meta = conn.reqs_need_recv
    <3>1. \/ call' = [NoCall EXCEPT !.phase = "execute", !.output = OutputOfCall]
          \/ call' = NoCall \/ call' = BeginUpdate(Head(batch_queue))
      BY <1>2 DEF StepDispatches
    <3>2. CASE call' = [NoCall EXCEPT !.phase = "execute", !.output = OutputOfCall]
      BY <3>2, <2>3 DEF NoCall
    <3>3. CASE call' = NoCall
      BY <3>3 DEF NoCall
    <3>4. CASE call' = BeginUpdate(Head(batch_queue))
      BY <3>4 DEF BeginUpdate, NoCall
    <3> QED
      BY <3>1, <3>2, <3>3, <3>4
  <2>5. worker'.transfers = worker.transfers
    BY <1>2 DEF StepDispatches, UpdatedWorker, TransferInv, WorkerFields
  <2>6. \A q \in Req : StatusKept(q)
    BY <2>1 DEF QueueInv, Shapes, ReqFields, StatusKept
  <2>7. \A q \in Req : ListKept(q)
    BY <2>1 DEF ListKept
  <2>8. Reported' \subseteq Reported
    BY <2>2, <2>4 DEF Reported
  <2> QED
    BY <2>2, <2>4, <2>5, <2>6, <2>7, <2>8, LoadSame
<1> QED
  BY <1>1, <1>2

\* What start_load_kv writes, and for whom.
LoadedAs(x, y, meta, r) ==
  \/ /\ Receiving(y, r) = Receiving(x, r) /\ y.target[r] = x.target[r]
  \/ /\ Receiving(y, r) # {}
     /\ \E m \in meta : m.req = r /\ m.blocks # {}
     /\ \A b \in y.target[r] :
          b \in x.target[r] \/ \E m \in meta : m.req = r /\ m.blocks # {} /\ b \in m.blocks
LEMMA StartLoadWrites ==
  ASSUME NEW x, DOMAIN x = TransferFields, NEW meta, NEW r \in Req
  PROVE  LoadedAs(x, start_load_kv(x, meta), meta, r)
<1>1. PICK N, M, R, t :
         /\ N = {l \in meta : l.blocks # {}} /\ M = {m.req : m \in N}
         /\ R = x.recving \cup (Ranks \X M)
         /\ t = [q \in Req |-> BlocksToRead(N, q) \cup x.target[q]]
  OBVIOUS
<1>2. PICK y : y = [x EXCEPT !.recving = R, !.target = t]
  OBVIOUS
<1>3. start_load_kv(x, meta) = y
  BY <1>1, <1>2 DEF start_load_kv
<1>4. y.recving = R /\ y.target = t
  BY <1>2 DEF TransferFields
<1>b. \A b : b \in t[r] <=> b \in x.target[r] \/ \E m \in N : m.req = r /\ b \in m.blocks
  <2>1. t[r] = BlocksToRead(N, r) \cup x.target[r]
    BY <1>1
  <2> QED
    BY <2>1 DEF BlocksToRead
<1>5. CASE r \notin M
  <2>1. Receiving(y, r) = Receiving(x, r)
    BY <1>1, <1>4, <1>5 DEF Receiving
  <2>2. \A b : b \in t[r] <=> b \in x.target[r]
    BY <1>1, <1>b, <1>5
  <2>3. t[r] = x.target[r]
    BY <2>2
  <2> QED
    BY <1>3, <1>4, <2>1, <2>3 DEF LoadedAs
<1>6. CASE r \in M
  <2>1. Receiving(y, r) = Ranks /\ Ranks # {}
    BY <1>1, <1>4, <1>6, RanksAre DEF Receiving
  <2>2. \E m \in meta : m.req = r /\ m.blocks # {}
    BY <1>1, <1>6
  <2>3. \A b \in t[r] :
          b \in x.target[r] \/ \E m \in meta : m.req = r /\ m.blocks # {} /\ b \in m.blocks
    BY <1>1, <1>b
  <2> QED
    BY <1>3, <1>4, <2>1, <2>2, <2>3 DEF LoadedAs
<1> QED
  BY <1>5, <1>6

\* execute_model: the loads begin, and those that every rank has are reported.
LEMMA LoadExecutes ==
  ASSUME QueueInv, TransferInv, LoadInv, ExecuteModel PROVE LoadInv'
<1>1. PICK x, o, y, z, done :
         /\ x = worker.transfers /\ o = call.output /\ y = start_load_kv(x, o.kv_meta)
         /\ done = get_finished(y) /\ z = done.transfers
  OBVIOUS
<1>2. /\ call.phase = "execute" /\ req' = req /\ conn' = conn /\ kvm' = kvm
      /\ worker' = [UpdatedWorker(worker, o) EXCEPT !.transfers = z]
      /\ call' = [BeginUpdate(o) EXCEPT !.finished_recving = done.recving,
                                        !.finished_sending = done.sending]
  BY <1>1 DEF ExecuteModel
<1>3. /\ DOMAIN worker = WorkerFields /\ TransfersOK(x) /\ SentFrom(x, WaitsToBeRead)
      /\ MetaOK(o.kv_meta) /\ conn.reqs_need_recv = {} /\ DOMAIN x = TransferFields
      /\ \A r \in conn.do_remote_prefill : Unfetched(r)
  BY <1>1, <1>2 DEF TransferInv, TransfersOK
<1>4. worker'.transfers = z
  BY <1>2, <1>3 DEF WorkerFields, UpdatedWorker
<1>5. call'.phase = "update" /\ call'.finished_recving = done.recving
  BY <1>2 DEF BeginUpdate, NoCall
<1>6. \A m \in o.kv_meta : m.req \in RemotePrefill /\ Receiving(x, m.req) = {}
  BY <1>1, <1>3 DEF MetaOK, Unfetched
<1>7. /\ TransfersOK(y) /\ SentFrom(y, WaitsToBeRead)
      /\ \A r \in Req : (\A m \in o.kv_meta : m.req # r) => Receiving(y, r) = Receiving(x, r)
  BY <1>1, <1>3, <1>6, StartLoadOK
<1>8. WaitsToBeRead \in SUBSET RemoteDecode
  BY DEF WaitsToBeRead
<1>9. FinishedAs(y, done, WaitsToBeRead)
  BY <1>1, <1>7, <1>8, GetFinishedOK
<1>10. \A r \in Req : /\ Receiving(z, r) \subseteq Receiving(y, r)
                      /\ r \in done.recving <=> Receiving(y, r) # {} /\ Receiving(z, r) = {}
                      /\ z.target[r] = IF r \in done.recving THEN {} ELSE y.target[r]
  BY <1>1, <1>9 DEF FinishedAs
<1>11. LoadsOwn(x) /\ ClaimsOK(o.kv_meta)
  BY <1>1, <1>2 DEF LoadInv
<1>12. ASSUME NEW r \in Req
       PROVE  \/ Receiving(y, r) = {} /\ y.target[r] = {}
              \/ Receiving(y, r) # {} /\ Awaits(r, y.target[r])
  <2>1. LoadedAs(x, y, o.kv_meta, r)
    BY <1>1, <1>3, StartLoadWrites
  <2>2. CASE Receiving(y, r) = Receiving(x, r) /\ y.target[r] = x.target[r]
    BY <2>2, <1>11 DEF LoadsOwn
  <2>3. ASSUME /\ Receiving(y, r) # {}
               /\ \E m \in o.kv_meta : m.req = r /\ m.blocks # {}
               /\ \A b \in y.target[r] : b \in x.target[r] \/
                    \E m \in o.kv_meta : m.req = r /\ m.blocks # {} /\ b \in m.blocks
        PROVE  Awaits(r, y.target[r])
    <3>1. Receiving(x, r) = {}
      BY <2>3, <1>6
    <3>2. x.target[r] = {}
      BY <3>1, <1>11 DEF LoadsOwn
    <3>3. \A m \in o.kv_meta : m.req = r /\ m.blocks # {} => Awaits(r, m.blocks)
      BY <1>11 DEF ClaimsOK
    <3> QED
      BY <2>3, <3>2, <3>3 DEF Awaits, OwnBlocks
  <2> QED
    BY <2>1, <2>2, <2>3 DEF LoadedAs
<1>13. ASSUME NEW r \in Req, r \notin done.recving PROVE r \in Reported' => r \in Reported
  BY <1>2, <1>5, <1>13 DEF Reported
<1>14. ASSUME NEW r \in Req
       PROVE  \/ Receiving(z, r) = {} /\ z.target[r] = {}
              \/ Receiving(z, r) # {} /\ Awaits(r, z.target[r])'
  <2>1. CASE Receiving(y, r) = {}
    BY <2>1, <1>10, <1>12
  <2>2. CASE Receiving(y, r) # {} /\ Receiving(z, r) = {}
    BY <2>2, <1>10
  <2>3. CASE Receiving(y, r) # {} /\ Receiving(z, r) # {}
    <3>1. r \notin done.recving /\ z.target[r] = y.target[r]
      BY <2>3, <1>10
    <3>2. Awaits(r, y.target[r])
      BY <2>3, <1>12
    <3>3. PICK B : B = y.target[r]
      OBVIOUS
    <3>4. Awaits(r, B)'
      BY <3>1, <3>2, <3>3, <1>2, <1>13 DEF Awaits, OwnBlocks, Held, Gone
    <3> QED
      BY <2>3, <3>1, <3>3, <3>4 DEF Awaits, OwnBlocks
  <2> QED
    BY <2>1, <2>2, <2>3
<1>15. ASSUME NEW r \in conn.do_remote_prefill PROVE NotLoading(r)'
  <2>1. r \in Req /\ Receiving(x, r) = {}
    BY <1>1, <1>3, ConnectorAssumption DEF Unfetched
  <2>2. \A m \in o.kv_meta : m.req # r
    BY <1>3 DEF MetaOK
  <2>3. r \notin done.recving
    BY <2>1, <2>2, <1>7, <1>10
  <2>4. NotLoading(r)
    BY DEF LoadInv
  <2> QED
    BY <2>1, <2>3, <2>4, <1>2, <1>13 DEF NotLoading
<1>16. LoadsOwn(worker.transfers)'
  BY <1>4, <1>14 DEF LoadsOwn, Awaits, OwnBlocks
<1> QED
  BY <1>2, <1>3, <1>5, <1>15, <1>16 DEF LoadInv, ClaimsOK

LEMMA LoadInit == Init => LoadInv
<1> SUFFICES ASSUME Init PROVE LoadInv
  OBVIOUS
<1>1. /\ worker = [requests |-> {}, encoder_cache |-> {}, transfers |-> InitTransfers]
      /\ conn = InitConnector /\ call = NoCall
  BY DEF Init, SchedulerInit
<1>2. PICK x : x = worker.transfers /\ x = InitTransfers
  BY <1>1
<1>3. x.recving = {} /\ \A r \in Req : x.target[r] = {}
  BY <1>2 DEF InitTransfers
<1>4. /\ conn.do_remote_prefill = RemotePrefill /\ conn.reqs_need_recv = {}
      /\ conn.finished_recving = {} /\ call.phase = "idle" /\ call.finished_recving = {}
  BY <1>1 DEF InitConnector, NoCall
<1>5. \A r \in Req : req[r].status = "NEW"
  BY DEF Init, SchedulerInit
<1>6. LoadsOwn(x)
  BY <1>3 DEF LoadsOwn, Receiving
<1>7. \A r \in conn.do_remote_prefill : NotLoading(r)
  BY <1>4, <1>5, ConnectorAssumption DEF NotLoading, Reported
<1> QED
  BY <1>2, <1>4, <1>6, <1>7 DEF LoadInv, ClaimsOK

LEMMA LoadNext ==
  ASSUME Modelled, QueueInv, TransferInv, EngineInv, LoadInv, [Steps]_engineVars
  PROVE  LoadInv'
<1>1. ASSUME NEW r \in Req, AddRequest(r) \/ AbortRequest(r) \/ CompileGrammar(r) PROVE LoadInv'
  BY <1>1, LoadClient
<1>2. ASSUME NEW k \in Ranks, NEW r \in Req, TransferArrives(k, r) \/ TransferIsRead(k, r)
      PROVE  LoadInv'
  BY <1>2, LoadMoves
<1>3. CASE ResetPrefixCache \/ UNCHANGED engineVars
  <2>1. UNCHANGED <<req, conn, call, worker>>
    BY <1>3 DEF ResetPrefixCache, engineVars, schedulerVars
  <2>2. kvm' = kvm \/ kvm' = [kvm EXCEPT !.pool = reset_prefix_cache(@)]
    BY <1>3 DEF ResetPrefixCache, engineVars, schedulerVars
  <2>3. \A q \in Req : ListKept(q)
    <3>1. DOMAIN kvm = ManagerFields
      BY DEF EngineInv, ManagerOK, ManagerShape
    <3> QED
      BY <2>2, <3>1 DEF ListKept, ManagerFields
  <2>4. \A q \in Req : StatusKept(q)
    BY <2>1 DEF StatusKept
  <2>5. Reported' = Reported
    BY <2>1 DEF Reported
  <2> QED
    BY <2>1, <2>3, <2>4, <2>5, LoadSame
<1>4. CASE EngineStep
  BY <1>4, LoadScheduleStep, LoadUpdateStep, LoadEngineStep, LoadExecutes DEF EngineStep
<1> QED
  BY <1>1, <1>2, <1>3, <1>4 DEF Steps

\* A block without a hash that a request holds is held by it alone.
LEMMA UnhashedHeldOnce ==
  ASSUME NEW k, ManagerOK(k), NEW r \in Req,
         NEW b \in Writable(k.req_to_blocks[r], k.num_cached_block[r])
  PROVE  /\ b \in Members(k.req_to_blocks[r])
         /\ k.pool.ref_cnt[b] = 1 /\ k.pool.block_hash[b] = NoHash
<1>1. PICK l, c, p, lists : /\ l = k.req_to_blocks[r] /\ c = k.num_cached_block[r] /\ p = k.pool
                            /\ lists = k.req_to_blocks
  OBVIOUS
<1>2. /\ ListOK(p, r, l, c) /\ c \in Nat /\ l \in Seq(Blocks \ {NullBlock})
      /\ RefsExact(p, lists) /\ HeldAlone(p, lists)
  BY <1>1 DEF ManagerOK, ManagerShape
<1>3. PICK i \in (c + 1)..Len(l) : b = l[i]
  BY <1>1 DEF Writable
<1>4. i \in 1..Len(l) /\ ~(i <= c) /\ DOMAIN l = 1..Len(l)
  BY <1>2, <1>3
<1>5. b \in Blocks \ {NullBlock} /\ b \in Members(l)
  BY <1>2, <1>3, <1>4 DEF Members
<1>6. p.block_hash[b] = NoHash
  BY <1>2, <1>3, <1>4 DEF ListOK, HashAt
<1>7. HoldersIn(lists, b) = {r}
  BY <1>1, <1>2, <1>5, <1>6 DEF HeldAlone, HoldersIn
<1>8. Cardinality({r}) = 1
  BY FS_Singleton
<1> QED
  BY <1>1, <1>2, <1>5, <1>6, <1>7, <1>8 DEF RefsExact

\* The blocks that the ranks write for a request belong to it alone and carry no hash,
\* until every rank has reported and the scheduler has handed them to the request: the
\* loads, their reports and the hashing of the blocks are steps apart, and preemption,
\* prefix cache hits, evictions and aborts of any request go on between them.  Only the
\* request's own abort takes its blocks away while they are written.
THEOREM OwnBlocksAreWritten ==
  ASSUME Modelled PROVE Spec => []TransfersWriteOwnBlocks
<1>1. Init => LoadInv
  BY LoadInit
<1>2. (QueueInv /\ TransferInv /\ EngineInv) /\ LoadInv /\ [Next]_vars => LoadInv'
  BY LoadNext, NextSteps
<1>3. (QueueInv /\ TransferInv /\ EngineInv) /\ LoadInv => TransfersWriteOwnBlocks
  <2> SUFFICES ASSUME EngineInv, LoadInv, NEW r \in Req, req[r].status # "FINISHED",
                      \E k \in Ranks : <<k, r>> \in worker.transfers.recving
               PROVE  /\ req[r].status = "WAITING_FOR_REMOTE_KVS"
                      /\ worker.transfers.target[r] \subseteq BlocksOf(r)
                      /\ \A b \in worker.transfers.target[r] :
                           kvm.pool.ref_cnt[b] = 1 /\ kvm.pool.block_hash[b] = NoHash
    BY DEF TransfersWriteOwnBlocks
  <2>1. Receiving(worker.transfers, r) # {}
    BY DEF Receiving
  <2>2. Held(r) /\ OwnBlocks(r, worker.transfers.target[r])
    BY <2>1 DEF LoadInv, LoadsOwn, Awaits, Gone
  <2>3. \A b \in worker.transfers.target[r] :
          b \in Writable(kvm.req_to_blocks[r], kvm.num_cached_block[r])
    BY <2>2 DEF OwnBlocks
  <2>4. ManagerOK(kvm)
    BY DEF EngineInv
  <2>5. \A b \in worker.transfers.target[r] :
          /\ b \in Members(kvm.req_to_blocks[r])
          /\ kvm.pool.ref_cnt[b] = 1 /\ kvm.pool.block_hash[b] = NoHash
    BY <2>3, <2>4, UnhashedHeldOnce
  <2>6. req[r].status = "WAITING_FOR_REMOTE_KVS"
    BY <2>2 DEF Held
  <2> QED
    BY <2>5, <2>6 DEF BlocksOf
<1> QED
  <2>1. Spec => [](QueueInv /\ TransferInv /\ EngineInv)
    BY EngineInvariant
  <2> QED
    BY <1>1, <1>2, <1>3, <2>1, PTL DEF Spec

-----------------------------------------------------------------------------
\* The recursive function by which a fold of + over a finite set adds up exists.
Sums(w, f, S) == w = [s \in SUBSET S |-> IF s = {} THEN 0 ELSE f[Picked(s)] + w[s \ {Picked(s)}]]
LEMMA SumsExist ==
  ASSUME NEW f, NEW S, IsFiniteSet(S) PROVE \E w : Sums(w, f, S)
<1>0. IsFiniteSet(S)
  OBVIOUS
<1>n. PICK n \in Nat : n = Cardinality(S)
  BY <1>0, FS_CardinalityType
<1>c. \A s \in SUBSET S : IsFiniteSet(s) /\ Cardinality(s) \in Nat /\ Cardinality(s) <= n
  BY <1>0, <1>n, FS_Subset, FS_CardinalityType
<1> DEFINE Eq(g, s) == g[s] = IF s = {} THEN 0 ELSE f[Picked(s)] + g[s \ {Picked(s)}]
           Works(g, m) == /\ g = [s \in SUBSET S |-> g[s]]
                          /\ \A s \in SUBSET S : Cardinality(s) <= m => Eq(g, s)
           T == {m \in 0..n : \E g : Works(g, m)}
<1> HIDE DEF Works
<1>1. 0 \in T
  <2>1. PICK g : g = [s \in SUBSET S |-> 0]
    OBVIOUS
  <2>2. \A s \in SUBSET S : Cardinality(s) <= 0 => s = {}
    <3>1. \A s \in SUBSET S : Cardinality(s) <= 0 => Cardinality(s) = 0
      BY <1>c
    <3> QED
      BY <3>1, <1>c, FS_EmptySet
  <2>3. Works(g, 0)
    BY <2>1, <2>2 DEF Works
  <2> QED
    BY <2>3
<1>2. ASSUME NEW m \in 0..(n - 1), m \in T PROVE m + 1 \in T
  <2>1. PICK g : Works(g, m)
    BY <1>2
  <2>2. PICK h : h = [s \in SUBSET S |-> IF s = {} THEN 0 ELSE f[Picked(s)] + g[s \ {Picked(s)}]]
    OBVIOUS
  <2>3. \A s \in SUBSET S : Cardinality(s) <= m => h[s] = g[s]
    BY <2>1, <2>2 DEF Works
  <2>4. ASSUME NEW s \in SUBSET S, Cardinality(s) <= m + 1 PROVE Eq(h, s)
    <3>1. CASE s = {}
      BY <3>1, <2>2
    <3>2. CASE s # {}
      <4>1. /\ s \ {Picked(s)} \in SUBSET S
            /\ Cardinality(s) \in Nat /\ Cardinality(s \ {Picked(s)}) = Cardinality(s) - 1
        BY <3>2, <1>0, AnyLeaves
      <4>2. Cardinality(s \ {Picked(s)}) <= m
        BY <4>1, <2>4
      <4>3. h[s \ {Picked(s)}] = g[s \ {Picked(s)}]
        BY <4>1, <4>2, <2>3
      <4> QED
        BY <4>3, <3>2, <2>2
    <3> QED
      BY <3>1, <3>2
  <2>5. Works(h, m + 1)
    <3> HIDE DEF Eq
    <3>1. h = [s \in SUBSET S |-> h[s]]
      BY <2>2
    <3> QED
      BY <2>4, <3>1 DEF Works
  <2> QED
    BY <2>5
<1>3. n \in T
  <2> HIDE DEF T
  <2>1. \A m \in 0..n : m \in T
    BY <1>1, <1>2, CountUp
  <2> QED
    BY <2>1
<1>4. PICK g : Works(g, n)
  BY <1>3
<1>5. \A s \in SUBSET S : Eq(g, s)
  BY <1>4, <1>c DEF Works
<1> QED
  BY <1>4, <1>5 DEF Works, Sums

\* total_num_scheduled_tokens adds up the tokens request by request.
AddsEach(h, f) ==
  /\ h[{}] = 0
  /\ \A s \in SUBSET Req : s # {} => h[s] = f[Picked(s)] + h[s \ {Picked(s)}]
LEMMA TotalIterates ==
  ASSUME NEW o, DOMAIN o.num_scheduled_tokens = Req
  PROVE  \E h : AddsEach(h, o.num_scheduled_tokens) /\ total_num_scheduled_tokens(o) = h[Req]
<1>f. PICK f, S : f = o.num_scheduled_tokens /\ S = Req
  OBVIOUS
<1>0. IsFiniteSet(S) /\ DOMAIN f = S
  BY <1>f, ManagerAssumption
<1>1. PICK g : Sums(g, f, S)
  BY <1>0, SumsExist
<1>5. g = [s \in SUBSET S |-> IF s = {} THEN 0 ELSE f[Picked(s)] + g[s \ {Picked(s)}]]
  BY <1>1 DEF Sums
<1>6. PICK w : /\ w = [s \in SUBSET S |-> IF s = {} THEN 0 ELSE f[Picked(s)] + w[s \ {Picked(s)}]]
               /\ total_num_scheduled_tokens(o) = w[S]
  <2>1. PICK D : D = DOMAIN f
    OBVIOUS
  <2>2. g = [s \in SUBSET D |-> IF s = {} THEN 0 ELSE f[Picked(s)] + g[s \ {Picked(s)}]]
    BY <1>0, <1>5, <2>1
  <2>3. PICK w : /\ w = [s \in SUBSET D |-> IF s = {} THEN 0
                           ELSE f[Picked(s)] + w[s \ {Picked(s)}]]
                 /\ FoldFunctionOnSet(LAMBDA a, b : a + b, 0, f, D) = w[D]
    BY <2>2 DEF FoldFunctionOnSet, MapThenFoldSet, Picked
  <2>4. total_num_scheduled_tokens(o) = FoldFunctionOnSet(LAMBDA a, b : a + b, 0, f, D)
    BY <1>f, <2>1 DEF total_num_scheduled_tokens, FoldFunction
  <2> QED
    BY <1>0, <2>1, <2>3, <2>4
<1>7. w[{}] = 0 /\ \A s \in SUBSET S : s # {} => w[s] = f[Picked(s)] + w[s \ {Picked(s)}]
  BY <1>6
<1> QED
  BY <1>f, <1>6, <1>7 DEF AddsEach

AreCounts(f) == DOMAIN f = Req /\ \A r \in Req : f[r] \in Nat

LEMMA AddsNumbers ==
  ASSUME NEW h, NEW f, AreCounts(f), AddsEach(h, f)
  PROVE  \A s \in SUBSET Req : h[s] \in Nat
<1>0. IsFiniteSet(Req)
  BY ManagerAssumption
<1> DEFINE T == {s \in SUBSET Req : h[s] \in Nat}
<1>1. {} \in T
  BY DEF AddsEach
<1>2. ASSUME NEW s \in SUBSET Req, s # {}, s \ {Picked(s)} \in T PROVE s \in T
  <2>1. Picked(s) \in Req
    BY <1>0, <1>2, AnyLeaves
  <2>2. h[s] = f[Picked(s)] + h[s \ {Picked(s)}]
    BY <1>2 DEF AddsEach
  <2> QED
    BY <1>2, <2>1, <2>2 DEF AreCounts
<1>3. \A s \in SUBSET Req : s # {} /\ s \ {Picked(s)} \in T => s \in T
  BY <1>2
<1> HIDE DEF T
<1>4. \A s \in SUBSET Req : s \in T
  BY <1>0, <1>1, <1>3, SetInduction
<1> QED
  BY <1>4 DEF T

\* One request more is scheduled.
LEMMA AddsMore ==
  ASSUME NEW h, NEW f, AreCounts(f), AddsEach(h, f), NEW k, NEW g, AreCounts(g), AddsEach(k, g),
         NEW r \in Req, NEW n \in Nat, g[r] = f[r] + n, \A q \in Req : q # r => g[q] = f[q]
  PROVE  \A s \in SUBSET Req : k[s] = h[s] + IF r \in s THEN n ELSE 0
<1>0. IsFiniteSet(Req)
  BY ManagerAssumption
<1>n. /\ \A s \in SUBSET Req : h[s] \in Nat
      /\ \A s \in SUBSET Req : k[s] \in Nat
  BY AddsNumbers
<1> DEFINE T == {s \in SUBSET Req : k[s] = h[s] + IF r \in s THEN n ELSE 0}
<1>1. {} \in T
  BY DEF AddsEach
<1>2. ASSUME NEW s \in SUBSET Req, s # {}, s \ {Picked(s)} \in T PROVE s \in T
  <2>1. PICK x, t : x = Picked(s) /\ t = s \ {Picked(s)}
    OBVIOUS
  <2>2. x \in Req /\ x \in s /\ t \in SUBSET Req
    BY <1>0, <1>2, <2>1, AnyLeaves
  <2>3. h[s] = f[x] + h[t] /\ k[s] = g[x] + k[t]
    BY <1>2, <2>1 DEF AddsEach
  <2>4. k[t] = h[t] + IF r \in t THEN n ELSE 0
    BY <1>2, <2>1
  <2>5. f[x] \in Nat /\ h[t] \in Nat
    BY <2>2, <1>n DEF AreCounts
  <2>6. CASE x = r
    <3>1. r \in s /\ r \notin t /\ g[x] = f[x] + n
      BY <2>1, <2>2, <2>6
    <3>2. k[s] = h[s] + n
      BY <3>1, <2>3, <2>4, <2>5
    <3> QED
      BY <3>1, <3>2
  <2>7. CASE x # r
    <3>1. (r \in s <=> r \in t) /\ g[x] = f[x]
      BY <2>1, <2>2, <2>7
    <3> QED
      BY <3>1, <2>3, <2>4, <2>5
  <2> QED
    BY <2>6, <2>7
<1>3. \A s \in SUBSET Req : s # {} /\ s \ {Picked(s)} \in T => s \in T
  BY <1>2
<1> HIDE DEF T
<1>4. \A s \in SUBSET Req : s \in T
  BY <1>0, <1>1, <1>3, SetInduction
<1> QED
  BY <1>4 DEF T

LEMMA TotalGrows ==
  ASSUME NEW o, AreCounts(o.num_scheduled_tokens), NEW p, AreCounts(p.num_scheduled_tokens),
         NEW r \in Req, NEW n \in Nat,
         p.num_scheduled_tokens[r] = o.num_scheduled_tokens[r] + n,
         \A q \in Req : q # r => p.num_scheduled_tokens[q] = o.num_scheduled_tokens[q]
  PROVE  /\ total_num_scheduled_tokens(p) = total_num_scheduled_tokens(o) + n
         /\ total_num_scheduled_tokens(o) \in Nat
<1>1. PICK f, g : f = o.num_scheduled_tokens /\ g = p.num_scheduled_tokens
  OBVIOUS
<1>2. AreCounts(f) /\ AreCounts(g) /\ g[r] = f[r] + n /\ \A q \in Req : q # r => g[q] = f[q]
  BY <1>1
<1>3. PICK h : AddsEach(h, f) /\ total_num_scheduled_tokens(o) = h[Req]
  BY <1>1, <1>2, TotalIterates DEF AreCounts
<1>4. PICK k : AddsEach(k, g) /\ total_num_scheduled_tokens(p) = k[Req]
  BY <1>1, <1>2, TotalIterates DEF AreCounts
<1>5. \A s \in SUBSET Req : k[s] = h[s] + IF r \in s THEN n ELSE 0
  BY <1>2, <1>3, <1>4, AddsMore
<1>6. \A s \in SUBSET Req : h[s] \in Nat
  BY <1>2, <1>3, AddsNumbers
<1> QED
  BY <1>3, <1>4, <1>5, <1>6

\* An output in which a request is scheduled is not empty.
LEMMA TotalPositive ==
  ASSUME NEW o, AreCounts(o.num_scheduled_tokens), NEW r \in Req, o.num_scheduled_tokens[r] > 0
  PROVE  total_num_scheduled_tokens(o) > 0
<1>1. PICK f, n : f = o.num_scheduled_tokens /\ n = f[r]
  OBVIOUS
<1>2. AreCounts(f) /\ n \in Nat /\ n > 0
  BY <1>1 DEF AreCounts
<1>3. PICK p : p = [num_scheduled_tokens |-> [f EXCEPT ![r] = 0]]
  OBVIOUS
<1>4. /\ AreCounts(p.num_scheduled_tokens) /\ p.num_scheduled_tokens[r] = 0
      /\ \A q \in Req : q # r => o.num_scheduled_tokens[q] = p.num_scheduled_tokens[q]
  BY <1>1, <1>2, <1>3 DEF AreCounts
<1>5. o.num_scheduled_tokens[r] = p.num_scheduled_tokens[r] + n
  BY <1>1, <1>2, <1>4
<1>6. /\ total_num_scheduled_tokens(o) = total_num_scheduled_tokens(p) + n
      /\ total_num_scheduled_tokens(p) \in Nat
  BY <1>2, <1>4, <1>5, TotalGrows
<1> QED
  BY <1>2, <1>6

LEMMA TotalOfNone == total_num_scheduled_tokens(NoOutput) = 0
<1>1. NoOutput.num_scheduled_tokens = NoTokens
  BY DEF NoOutput
<1>2. AreCounts(NoTokens) /\ \A r \in Req : NoTokens[r] = 0
  BY DEF NoTokens, AreCounts
<1>3. PICK h : AddsEach(h, NoTokens) /\ total_num_scheduled_tokens(NoOutput) = h[Req]
  BY <1>1, <1>2, TotalIterates DEF AreCounts
<1>0. IsFiniteSet(Req)
  BY ManagerAssumption
<1> DEFINE T == {s \in SUBSET Req : h[s] = 0}
<1>4. {} \in T
  BY <1>3 DEF AddsEach
<1>5. ASSUME NEW s \in SUBSET Req, s # {}, s \ {Picked(s)} \in T PROVE s \in T
  <2>1. Picked(s) \in Req
    BY <1>0, <1>5, AnyLeaves
  <2>2. h[s] = NoTokens[Picked(s)] + h[s \ {Picked(s)}]
    BY <1>3, <1>5 DEF AddsEach
  <2> QED
    BY <1>2, <1>5, <2>1, <2>2
<1>6. \A s \in SUBSET Req : s # {} /\ s \ {Picked(s)} \in T => s \in T
  BY <1>5
<1> HIDE DEF T
<1>7. \A s \in SUBSET Req : s \in T
  BY <1>0, <1>4, <1>6, SetInduction
<1> QED
  BY <1>3, <1>7 DEF T

-----------------------------------------------------------------------------
\* The encoder inputs of a request come in the order of their places.
LEMMA InputsInOrder ==
  ASSUME NEW r \in Req, NEW i \in DOMAIN EncoderInputs[r], NEW j \in DOMAIN EncoderInputs[r], i <= j
  PROVE  StartOf(r, i) <= StartOf(r, j)
<1>1. r \in DOMAIN EncoderInputs
  BY SchedulerAssumption
<1>e. PICK s, n : s = EncoderInputs[r] /\ n = Len(s)
  OBVIOUS
<1>2. DOMAIN s = 1..n /\ n \in Nat
  BY <1>e, InputsAre
<1>3. \A k \in 1..n : s[k].offset \in Nat /\ s[k].length \in Nat
  BY <1>2, <1>e, InputsAre
<1>4. \A k \in 1..n : k > 1 => s[k].offset >= s[k - 1].offset + s[k - 1].length
  BY <1>1, <1>2, <1>e, EncoderAssumption
<1>5. i \in 1..n /\ j \in 1..n
  BY <1>2, <1>e
<1>6. PICK d \in Nat : d = j - i
  BY <1>5
<1> DEFINE T == {m \in 0..d : \A k \in 1..n : k = i + m => s[i].offset <= s[k].offset}
<1>7. 0 \in T
  <2>1. ASSUME NEW k \in 1..n, k = i + 0 PROVE s[i].offset <= s[k].offset
    <3>1. k = i
      BY <2>1, <1>5
    <3>2. s[i].offset \in Nat
      BY <1>3, <1>5
    <3> QED
      BY <3>1, <3>2
  <2>2. 0 \in 0..d
    OBVIOUS
  <2> QED
    BY <2>1, <2>2
<1>8. ASSUME NEW m \in 0..(d - 1), m \in T PROVE m + 1 \in T
  <2> SUFFICES ASSUME NEW b \in 1..n, b = i + (m + 1) PROVE s[i].offset <= s[b].offset
    OBVIOUS
  <2>1. PICK a : a = i + m
    OBVIOUS
  <2>2. a \in 1..n /\ b \in 1..n /\ b > 1 /\ b - 1 = a /\ m + 1 \in 0..d
    BY <2>1, <1>2, <1>5, <1>6
  <2>3. s[b].offset >= s[a].offset + s[a].length
    BY <2>2, <1>4
  <2>4. s[i].offset <= s[a].offset
    BY <2>1, <2>2, <1>8
  <2>5. /\ s[i].offset \in Nat /\ s[a].offset \in Nat /\ s[a].length \in Nat
        /\ s[b].offset \in Nat
    BY <2>2, <1>3, <1>5
  <2> QED
    BY <2>3, <2>4, <2>5
<1>9. \A m \in 0..d : m \in T
  <2> HIDE DEF T
  <2> QED
    BY <1>7, <1>8, CountUp
<1>10. d \in 0..d /\ i + d = j
  BY <1>5, <1>6
<1>11. s[i].offset <= s[j].offset
  BY <1>5, <1>9, <1>10
<1> QED
  BY <1>11, <1>e DEF StartOf

\* _try_schedule_encoder_inputs leaves no token for an input that is neither cached nor
\* scheduled with it: the tokens end before the first input that does not fit.
LEMMA PlanCovers ==
  ASSUME NEW e, NEW r \in Req, NEW computed \in Nat, NEW n \in Nat, NEW budget,
         NEW m, m = try_schedule_encoder_inputs(e, r, computed, n, budget).num_new_tokens,
         NEW I, I = try_schedule_encoder_inputs(e, r, computed, n, budget).inputs, m # 0
  PROVE  /\ \A i \in DOMAIN EncoderInputs[r] :
              Needs(r, i, computed, m) => i \in I \/ <<r, i>> \in e.cached
         /\ I \subseteq DOMAIN EncoderInputs[r]
<1>1. PICK T : /\ T \subseteq needed_inputs(e, r, computed, n)
               /\ m = IF T = {} THEN n
                      ELSE IF computed < StartOf(r, Min(T)) THEN StartOf(r, Min(T)) - computed
                      ELSE 0
               /\ I = IF T = {} THEN needed_inputs(e, r, computed, n)
                      ELSE {i \in needed_inputs(e, r, computed, n) : i < Min(T)}
  <2> DEFINE needed == needed_inputs(e, r, computed, n)
             partial(i) == /\ DisableChunkedMMInput
                           /\ computed < StartOf(r, i)
                           /\ computed + n < EndOf(r, i)
             upto(i) == TokensOfInputs(InputsOf(r, {j \in needed : j <= i}))
             stops == {i \in needed : partial(i) \/ ~can_allocate(e, r, i) \/ upto(i) > budget}
  <2>1. stops \subseteq needed_inputs(e, r, computed, n)
    BY Zenon
  <2>2. m = IF stops = {} THEN n
            ELSE IF computed < StartOf(r, Min(stops)) THEN StartOf(r, Min(stops)) - computed
            ELSE 0
    BY DEF try_schedule_encoder_inputs
  <2>3. I = IF stops = {} THEN needed_inputs(e, r, computed, n)
            ELSE {i \in needed_inputs(e, r, computed, n) : i < Min(stops)}
    BY DEF try_schedule_encoder_inputs
  <2> HIDE DEF stops
  <2> QED
    BY <2>1, <2>2, <2>3
<1>2. needed_inputs(e, r, computed, n) \subseteq DOMAIN EncoderInputs[r]
  BY DEF needed_inputs
<1>3. I \subseteq DOMAIN EncoderInputs[r]
  BY <1>1, <1>2
<1>5. DOMAIN EncoderInputs[r] = 1..Len(EncoderInputs[r]) /\ Len(EncoderInputs[r]) \in Nat
  BY InputsAre
<1>6. \A i \in DOMAIN EncoderInputs[r] : StartOf(r, i) \in Nat
  BY InputsAre DEF StartOf
<1>7. ASSUME NEW i \in DOMAIN EncoderInputs[r], Needs(r, i, computed, n), n > 0, <<r, i>> \notin e.cached
      PROVE  i \in needed_inputs(e, r, computed, n)
  BY <1>7 DEF needed_inputs, get_cached_input_ids
<1>8. ASSUME NEW i \in DOMAIN EncoderInputs[r], Needs(r, i, computed, m), <<r, i>> \notin e.cached
      PROVE  i \in I
  <2>1. CASE T = {}
    BY <2>1, <1>1, <1>7, <1>8
  <2>2. CASE T # {}
    <3>1. T \subseteq Nat
      BY <1>1, <1>2, <1>5
    <3>2. \E k \in T : \A j \in T : k <= j
      BY <3>1, <2>2, Smallest
    <3>3. PICK k : k = Min(T)
      OBVIOUS
    <3>4. k \in T
      BY <3>2, <3>3 DEF Min
    <3>5. PICK x, y : x = StartOf(r, k) /\ y = StartOf(r, i)
      OBVIOUS
    <3>6. k \in DOMAIN EncoderInputs[r] /\ x \in Nat /\ y \in Nat /\ n > 0 /\ x < computed + n
      <4>1. k \in DOMAIN EncoderInputs[r] /\ n > 0 /\ Needs(r, k, computed, n)
        BY <3>4, <1>1 DEF needed_inputs
      <4> QED
        BY <4>1, <3>5, <1>6 DEF Needs
    <3>7. m = x - computed
      BY <2>2, <3>3, <3>5, <1>1
    <3>8. y < computed + m /\ EndOf(r, i) > computed
      BY <3>5, <1>8 DEF Needs
    <3>9. y < x /\ y < computed + n
      BY <3>6, <3>7, <3>8
    <3>10. Needs(r, i, computed, n)
      BY <3>5, <3>8, <3>9 DEF Needs
    <3>11. i < k
      <4>1. i \in Nat /\ k \in Nat
        BY <3>6, <1>5
      <4>2. SUFFICES ASSUME k <= i PROVE FALSE
        BY <4>1
      <4>3. x <= y
        BY <4>2, <3>5, <3>6, InputsInOrder
      <4> QED
        BY <4>3, <3>6, <3>9
    <3>12. i \in needed_inputs(e, r, computed, n)
      BY <3>6, <3>10, <1>7, <1>8
    <3> QED
      BY <2>2, <3>3, <3>11, <3>12, <1>1
  <2> QED
    BY <2>1, <2>2
<1> QED
  BY <1>3, <1>8

\* What the workers keep of encoder outputs, once they are told what was finished and
\* given up, and have computed the new ones.
CacheAfter(cache, finished, freed, inputs) ==
  ({p \in cache : p[1] \notin finished} \ freed) \cup inputs
NewInputs == IF SchedPhase THEN call.output.encoder_inputs ELSE {}
AtWorkers ==
  IF call.phase = "execute"
  THEN CacheAfter(worker.encoder_cache, call.output.finished, call.output.free_encoder_input_ids,
                  call.output.encoder_inputs)
  ELSE CacheAfter(worker.encoder_cache, finished_req_ids, enc.freed, NewInputs)

\* The inputs that the scheduled tokens of the request overlap are cached.
CoveredIn(o, cached, r) ==
  \A i \in DOMAIN EncoderInputs[r] :
    Needs(r, i, o.num_computed_tokens[r], o.num_scheduled_tokens[r]) => <<r, i>> \in cached
IsInput(p) == p[1] \in Req /\ p[2] \in DOMAIN EncoderInputs[p[1]] /\ p = <<p[1], p[2]>>
InputsScheduled(o) ==
  \A p \in o.encoder_inputs : p[1] \in Req /\ o.num_scheduled_tokens[p[1]] > 0
EncoderFields == {"cached", "num_free_slots", "freed"}

\* The cached inputs will all be at the workers when they take the next output, whatever
\* was given up or finished since the last one.
EncoderInv ==
  /\ DOMAIN enc = EncoderFields
  /\ \A p \in enc.cached : IsInput(p)
  /\ call.phase = "execute" => enc.freed = {} /\ finished_req_ids = {}
  /\ enc.cached \subseteq AtWorkers
  /\ SchedPhase => /\ \A r \in Req : CoveredIn(call.output, enc.cached, r)
                   /\ InputsScheduled(call.output)

LEMMA EncoderInit == Init => EncoderInv
<1> SUFFICES ASSUME Init PROVE EncoderInv
  OBVIOUS
<1>1. enc = InitEncoderCache /\ call.phase = "idle"
  BY DEF Init, SchedulerInit, NoCall
<1>2. DOMAIN enc = EncoderFields /\ enc.cached = {}
  BY <1>1 DEF InitEncoderCache, EncoderFields
<1> QED
  BY <1>1, <1>2 DEF EncoderInv, SchedPhase

\* The encoder cache is not touched, nor the output under construction.
LEMMA EncoderFrame ==
  ASSUME EncoderInv, UNCHANGED <<enc, finished_req_ids>>, call.phase # "execute",
         call'.phase # "execute",
         worker'.encoder_cache = worker.encoder_cache,
         SchedPhase' => SchedPhase /\ call'.output = call.output,
         SchedPhase => SchedPhase' \/ call.output.encoder_inputs = {}
  PROVE  EncoderInv'
<1>1. NewInputs' = NewInputs
  BY DEF NewInputs
<1>2. AtWorkers' = AtWorkers
  BY <1>1 DEF AtWorkers
<1> QED
  BY <1>2 DEF EncoderInv, IsInput, CoveredIn, InputsScheduled

\* Inputs of a request are given up.
LEMMA EncoderFrees ==
  ASSUME EncoderInv, NEW r \in Req, NEW I, enc' = free_inputs(enc, r, I),
         call.phase # "execute", call'.phase # "execute", ~SchedPhase, ~SchedPhase',
         worker'.encoder_cache = worker.encoder_cache,
         \/ finished_req_ids' = finished_req_ids
         \/ finished_req_ids' = finished_req_ids \cup {r} /\ I = get_cached_input_ids(enc, r)
  PROVE  EncoderInv'
<1>1. PICK X : X = InputsOf(r, I)
  OBVIOUS
<1>2. /\ DOMAIN enc' = EncoderFields /\ enc'.cached = enc.cached \ X
      /\ enc'.freed = enc.freed \cup X
  BY <1>1 DEF free_inputs, EncoderInv, EncoderFields
<1>3. ASSUME NEW p \in enc'.cached PROVE p \in AtWorkers' /\ IsInput(p)'
  <2>1. /\ p \in enc.cached /\ p \notin X /\ IsInput(p)
        /\ p \in CacheAfter(worker.encoder_cache, finished_req_ids, enc.freed, {})
    BY <1>2, <1>3 DEF EncoderInv, AtWorkers, NewInputs
  <2>2. p \in worker.encoder_cache /\ p[1] \notin finished_req_ids /\ p \notin enc.freed
    BY <2>1 DEF CacheAfter
  <2>3. p[1] \notin finished_req_ids'
    <3>1. CASE finished_req_ids' = finished_req_ids
      BY <3>1, <2>2
    <3>2. CASE finished_req_ids' = finished_req_ids \cup {r} /\ I = get_cached_input_ids(enc, r)
      <4>1. p[1] = r => p \in X
        BY <3>2, <2>1, <1>1 DEF IsInput, InputsOf, get_cached_input_ids
      <4> QED
        BY <4>1, <3>2, <2>1, <2>2
    <3> QED
      BY <3>1, <3>2
  <2>4. p \notin enc'.freed
    BY <2>1, <2>2, <1>2
  <2>5. p \in CacheAfter(worker'.encoder_cache, finished_req_ids', enc'.freed, {})
    BY <2>2, <2>3, <2>4 DEF CacheAfter
  <2> QED
    BY <2>1, <2>5 DEF AtWorkers, NewInputs, IsInput
<1> QED
  BY <1>2, <1>3 DEF EncoderInv

\* What the output records of the encoder inputs of a request.
Adds(k, o, r, I) == o.encoder_inputs = k.encoder_inputs \cup InputsOf(r, I)
LEMMA InputsRecorded ==
  ASSUME NEW k, DOMAIN k = OutputFields, NEW r \in Req, NEW n, NEW c, NEW d, NEW b, NEW I, NEW p, NEW o,
         p = Scheduled(k, r, n, c, d, b, I),
         o \in {[p EXCEPT !.ran = Append(@, r)], [p EXCEPT !.resumed = Append(@, r)],
                [p EXCEPT !.new = Append(@, r)]}
  PROVE  Adds(k, o, r, I)
<1>1. PICK X : X = InputsOf(r, I)
  OBVIOUS
<1>2. p = [k EXCEPT !.num_scheduled_tokens[r] = n, !.spec[r] = d,
                    !.num_computed_tokens[r] = c, !.encoder_inputs = @ \cup X,
                    !.num_tokens[r] = req[r].num_tokens, !.new_block_ids[r] = b]
  BY <1>1 DEF Scheduled
<1>3. DOMAIN p = OutputFields /\ p.encoder_inputs = k.encoder_inputs \cup X
  BY <1>2 DEF OutputFields
<1>4. o.encoder_inputs = p.encoder_inputs
  BY <1>3 DEF OutputFields
<1> QED
  BY <1>1, <1>3, <1>4 DEF Adds

\* A request is scheduled, with the inputs of its plan.
LEMMA EncoderJoins ==
  ASSUME EncoderInv, OutputGood(call.output), call.phase \in {"running", "waiting"}, call'.phase = call.phase,
         NEW r \in Req, NEW n \in Nat \ {0}, NEW c, NEW d, NEW nt, NEW I,
         Joins(call.output, call'.output, r, n, c, d, nt), call.output.num_scheduled_tokens[r] = 0,
         Adds(call.output, call'.output, r, I),
         enc' = allocate_inputs(enc, r, I), I \subseteq DOMAIN EncoderInputs[r],
         \A i \in DOMAIN EncoderInputs[r] : Needs(r, i, c, n) => i \in I \/ <<r, i>> \in enc.cached,
         worker'.encoder_cache = worker.encoder_cache, finished_req_ids' = finished_req_ids
  PROVE  EncoderInv'
<1>1. PICK X : X = InputsOf(r, I)
  OBVIOUS
<1>2. /\ DOMAIN enc' = EncoderFields /\ enc'.cached = enc.cached \cup X
      /\ enc'.freed = enc.freed
  BY <1>1 DEF allocate_inputs, EncoderInv, EncoderFields
<1>3. SchedPhase /\ SchedPhase' /\ call.phase # "execute" /\ call'.phase # "execute"
  BY DEF SchedPhase
<1>4. \A p \in X : IsInput(p)
  BY <1>1 DEF IsInput, InputsOf
<1>5. PICK k, o : k = call.output /\ o = call'.output
  OBVIOUS
<1>6. o.encoder_inputs = k.encoder_inputs \cup X
  BY <1>1, <1>5 DEF Adds
<1>7. enc'.cached \subseteq AtWorkers'
  <2>1. enc.cached \subseteq CacheAfter(worker.encoder_cache, finished_req_ids, enc.freed, k.encoder_inputs)
    BY <1>3, <1>5 DEF EncoderInv, AtWorkers, NewInputs
  <2>2. AtWorkers' = CacheAfter(worker.encoder_cache, finished_req_ids, enc.freed, o.encoder_inputs)
    BY <1>2, <1>3, <1>5 DEF AtWorkers, NewInputs
  <2> QED
    BY <2>1, <2>2, <1>2, <1>6 DEF CacheAfter
<1>8. ASSUME NEW q \in Req PROVE CoveredIn(o, enc'.cached, q)
  <2>1. CASE q = r
    <3>1. o.num_computed_tokens[r] = c /\ o.num_scheduled_tokens[r] = n
      BY <1>5 DEF Joins
    <3>2. \A i \in I : <<r, i>> \in X
      BY <1>1 DEF InputsOf
    <3> QED
      BY <2>1, <3>1, <3>2, <1>2 DEF CoveredIn
  <2>2. CASE q # r
    <3>1. /\ o.num_computed_tokens[q] = k.num_computed_tokens[q]
          /\ o.num_scheduled_tokens[q] = k.num_scheduled_tokens[q]
      BY <2>2, <1>5 DEF Joins
    <3>2. CoveredIn(k, enc.cached, q)
      BY <1>3, <1>5 DEF EncoderInv
    <3> QED
      BY <3>1, <3>2, <1>2 DEF CoveredIn
  <2> QED
    BY <2>1, <2>2
<1>9. ASSUME NEW p \in o.encoder_inputs PROVE p[1] \in Req /\ o.num_scheduled_tokens[p[1]] > 0
  <2>1. CASE p \in X
    <3>1. p[1] = r
      BY <2>1, <1>1 DEF InputsOf
    <3> QED
      BY <3>1, <1>5 DEF Joins
  <2>2. CASE p \in k.encoder_inputs
    <3>1. PICK q : q = p[1]
      OBVIOUS
    <3>2. q \in Req /\ k.num_scheduled_tokens[q] > 0
      BY <2>2, <3>1, <1>3, <1>5 DEF EncoderInv, InputsScheduled
    <3>3. q # r
      BY <3>2, <1>5
    <3> QED
      BY <3>1, <3>2, <3>3, <1>5 DEF Joins
  <2> QED
    BY <2>1, <2>2, <1>6
<1>10. InputsScheduled(o)
  BY <1>9 DEF InputsScheduled
<1>11. \A p \in enc'.cached : IsInput(p)
  BY <1>2, <1>4 DEF EncoderInv
<1> QED
  BY <1>2, <1>3, <1>5, <1>7, <1>8, <1>10, <1>11 DEF EncoderInv, IsInput, CoveredIn, InputsScheduled

LEMMA EncoderSame ==
  ASSUME EncoderInv, UNCHANGED <<enc, finished_req_ids, call>>,
         worker'.encoder_cache = worker.encoder_cache
  PROVE  EncoderInv'
<1>1. AtWorkers' = AtWorkers /\ SchedPhase' = SchedPhase
  BY DEF AtWorkers, NewInputs, SchedPhase
<1> QED
  BY <1>1 DEF EncoderInv, IsInput, CoveredIn, InputsScheduled

LEMMA EncoderClient ==
  ASSUME EncoderInv, NEW r \in Req, AddRequest(r) \/ AbortRequest(r) \/ CompileGrammar(r)
  PROVE  EncoderInv'
<1>1. CASE AddRequest(r)
  BY <1>1, EncoderSame DEF AddRequest, add_request
<1>2. CASE AbortRequest(r)
  <2>1. /\ call.phase = "idle" /\ call' = call /\ worker' = worker
        /\ enc' = free_inputs(enc, r, get_cached_input_ids(enc, r))
        /\ finished_req_ids' = finished_req_ids \cup {r}
    BY <1>2 DEF AbortRequest, finish_requests, free_request
  <2>2. ~SchedPhase /\ ~SchedPhase' /\ call.phase # "execute" /\ call'.phase # "execute"
    BY <2>1 DEF SchedPhase
  <2> QED
    BY <2>1, <2>2, EncoderFrees
<1>3. CASE CompileGrammar(r)
  BY <1>3, EncoderSame DEF CompileGrammar, GrammarCompiled
<1> QED
  BY <1>1, <1>2, <1>3

LEMMA EncoderMoves ==
  ASSUME EncoderInv, TransferInv, NEW k \in Ranks, NEW r \in Req,
         TransferArrives(k, r) \/ TransferIsRead(k, r)
  PROVE  EncoderInv'
<1>1. UNCHANGED <<enc, finished_req_ids, call>>
  BY DEF TransferArrives, TransferIsRead, schedulerVars
<1>2. \E x : worker' = [worker EXCEPT !.transfers = x]
  BY DEF TransferArrives, TransferIsRead
<1>3. worker'.encoder_cache = worker.encoder_cache
  BY <1>2 DEF TransferInv, WorkerFields
<1> QED
  BY <1>1, <1>3, EncoderSame

\* A running request is scheduled.
LEMMA EncoderScheduleRunning ==
  ASSUME QueueInv, EngineInv, EncoderInv, ScheduleRunning, UNCHANGED worker
  PROVE  EncoderInv'
<1>1. PICK r, n, I, d, b, nc, nt, st, l, c :
        /\ r = Current /\ n = NewTokensOfRunning(r) /\ I = PlanOfRunning(r).inputs
        /\ d = DraftTokens(r, n) /\ nc = req[r].num_computed_tokens
        /\ nt = req[r].num_tokens /\ st = req[r].spec_token_ids
        /\ l = kvm.req_to_blocks[r] /\ c = kvm.num_cached_block[r]
        /\ b = SubSeq(kvm'.req_to_blocks[r], Len(l) + 1, Len(kvm'.req_to_blocks[r]))
  BY Zenon
<1>2. /\ InRunningLoop /\ n # 0 /\ enc' = allocate_inputs(enc, r, I)
      /\ finished_req_ids' = finished_req_ids
      /\ \E e : call' = [call EXCEPT !.req_index = @ + 1, !.token_budget = @ - n,
                           !.encoder_budget = e,
                           !.output = LET o == Scheduled(@, r, n, nc, d, b, I)
                                      IN [o EXCEPT !.ran = Append(@, r)]]
  BY <1>1 DEF ScheduleRunning
<1>3. PICK e, p, o : /\ p = Scheduled(call.output, r, n, nc, d, b, I)
                     /\ o = [p EXCEPT !.ran = Append(@, r)]
                     /\ call' = [call EXCEPT !.req_index = @ + 1, !.token_budget = @ - n,
                                             !.encoder_budget = e, !.output = o]
  BY <1>2
<1>4. call'.phase = call.phase /\ call'.output = o
  BY <1>3 DEF CallFields, QueueInv, Shapes
<1>5. call.phase \in {"running", "waiting"}
  BY <1>2 DEF InRunningLoop
<1>6. r \in Req /\ call.output.num_scheduled_tokens[r] = 0
  BY <1>1, <1>2, CurrentToRun
<1>7. nc \in Nat /\ nt \in Nat /\ st \in Nat /\ n \in Nat /\ call.token_budget \in Nat /\ nc <= nt
      /\ nc <= MaxModelLen
  <2>1. /\ nt \in 1..LengthCap(r) /\ nc \in Nat /\ st \in 0..NumSpecTokens /\ nc <= nt
        /\ n \in Nat /\ call.token_budget \in Nat /\ nc + n <= MaxModelLen
    BY <1>1, <1>2, PlanToRun
  <2>2. LengthCap(r) \in Nat /\ MaxModelLen \in Nat /\ NumSpecTokens \in Nat
    BY <1>6, CapBounds
  <2> QED
    BY <2>1, <2>2
<1>x. PICK x : x = num_tokens_with_spec(r) /\ x = nt + st
  BY <1>1 DEF num_tokens_with_spec
<1>8. PICK y, m : y = call.token_budget /\ m = AtMost(AtMost(Threshold(x - nc), y), MaxModelLen - nc)
  OBVIOUS
<1>9. x \in Nat /\ nc <= x
  BY <1>7, <1>x
<1>10. m \in Nat
  <2>1. x \in Nat /\ nc \in Nat /\ y \in Nat /\ nc <= x /\ nc <= MaxModelLen
    BY <1>7, <1>8, <1>9
  <2> QED
    BY <2>1, <1>8, TokensToRun
<1>11. PlanOfRunning(r) = try_schedule_encoder_inputs(enc, r, nc, m, call.encoder_budget)
  BY <1>1, <1>x, <1>8 DEF PlanOfRunning
<1>12. /\ n = try_schedule_encoder_inputs(enc, r, nc, m, call.encoder_budget).num_new_tokens
       /\ I = try_schedule_encoder_inputs(enc, r, nc, m, call.encoder_budget).inputs
  BY <1>1, <1>11 DEF NewTokensOfRunning
<1>13. /\ \A i \in DOMAIN EncoderInputs[r] : Needs(r, i, nc, n) => i \in I \/ <<r, i>> \in enc.cached
       /\ I \subseteq DOMAIN EncoderInputs[r]
  <2>1. r \in Req /\ nc \in Nat /\ m \in Nat /\ n # 0
    BY <1>2, <1>6, <1>7, <1>10
  <2> QED
    BY <2>1, <1>12, PlanCovers
<1>14. PICK k : k = call.output
  OBVIOUS
<1>15. OutputGood(k) /\ DOMAIN k = OutputFields
  BY <1>14 DEF EngineInv, OutsOK, OutputGood, OutputShape
<1>o. /\ p = Scheduled(k, r, n, nc, d, b, I)
      /\ o \in {[p EXCEPT !.ran = Append(@, r)], [p EXCEPT !.resumed = Append(@, r)],
                [p EXCEPT !.new = Append(@, r)]}
  BY <1>3, <1>14
<1>16. /\ Joins(k, o, r, n, nc, d, req[r].num_tokens)
       /\ Adds(k, o, r, I)
  <2>1. Joins(k, o, r, n, nc, d, req[r].num_tokens)
    BY <1>o, <1>6, <1>15, JoinsOutput
  <2>2. Adds(k, o, r, I)
    BY <1>o, <1>6, <1>15, InputsRecorded
  <2> QED
    BY <2>1, <2>2
<1>17. /\ Joins(call.output, call'.output, r, n, nc, d, req[r].num_tokens)
       /\ Adds(call.output, call'.output, r, I)
       /\ OutputGood(call.output) /\ n \in Nat \ {0}
  BY <1>2, <1>4, <1>7, <1>14, <1>15, <1>16
<1> QED
  BY <1>2, <1>4, <1>5, <1>6, <1>13, <1>17, EncoderJoins

\* A waiting request is.
LEMMA EncoderScheduleWaiting ==
  ASSUME QueueInv, EngineInv, Modelled, EncoderInv, ScheduleWaiting, UNCHANGED worker
  PROVE  EncoderInv'
<1>1. PICK r, n, b, I, local, nt :
        /\ r = Head(waiting) /\ n = NewTokensOfWaiting(r) /\ b = kvm'.req_to_blocks[r]
        /\ I = PlanOfWaiting(r).inputs /\ local = LocalComputed(r) /\ nt = req[r].num_tokens
  BY Zenon
<1>2. /\ InWaitingLoop /\ FitsWaiting(r) /\ ~load_kv_async(r) /\ enc' = allocate_inputs(enc, r, I)
      /\ finished_req_ids' = finished_req_ids
      /\ \E e : call' = [call EXCEPT !.token_budget = @ - n, !.encoder_budget = e,
                      !.output = LET o == Scheduled(@, r, n, local, 0, b, I)
                                 IN IF StatusAtHead(r) = "PREEMPTED"
                                    THEN [o EXCEPT !.resumed = Append(@, r)]
                                    ELSE [o EXCEPT !.new = Append(@, r)]]
  BY <1>1 DEF ScheduleWaiting, LooksUpHead, ConsidersHead
<1>3. PICK e, p, o : /\ p = Scheduled(call.output, r, n, local, 0, b, I)
                     /\ o = IF StatusAtHead(r) = "PREEMPTED" THEN [p EXCEPT !.resumed = Append(@, r)]
                            ELSE [p EXCEPT !.new = Append(@, r)]
                     /\ call' = [call EXCEPT !.token_budget = @ - n, !.encoder_budget = e,
                                             !.output = o]
  BY <1>2
<1>4. call'.phase = call.phase /\ call'.output = o
  BY <1>3 DEF CallFields, QueueInv, Shapes
<1>5. call.phase \in {"running", "waiting"}
  BY <1>2 DEF InWaitingLoop
<1>6. /\ nt \in 1..LengthCap(r) /\ local \in Nat /\ local <= nt
      /\ r \in Req /\ call.output.num_scheduled_tokens[r] = 0
  BY <1>1, <1>2, LocalOK
<1>7. call.token_budget \in Nat /\ LengthCap(r) \in Nat
  BY <1>5, <1>6, CapBounds DEF EngineInv, OutsOK, SchedPhase
<1>8. PICK m : m = TokensOfWaiting(r)
  OBVIOUS
<1>9. m \in Nat
  <2>1. PICK y, t : y = call.token_budget /\ t = nt - local
    OBVIOUS
  <2>2. t \in Nat /\ y \in Nat
    BY <2>1, <1>6, <1>7
  <2>3. m = AtMost(Threshold(t), y)
    BY <2>1, <1>1, <1>8 DEF TokensOfWaiting
  <2> QED
    BY <2>2, <2>3, SchedulerAssumption DEF AtMost, Threshold
<1>10. PlanOfWaiting(r) = try_schedule_encoder_inputs(enc, r, local, m, call.encoder_budget)
  BY <1>1, <1>8 DEF PlanOfWaiting
<1>11. /\ n = try_schedule_encoder_inputs(enc, r, local, m, call.encoder_budget).num_new_tokens
       /\ I = try_schedule_encoder_inputs(enc, r, local, m, call.encoder_budget).inputs
  BY <1>1, <1>2, <1>10 DEF NewTokensOfWaiting
<1>12. n \in Nat \ {0}
  <2>1. n \in 0..m
    BY <1>6, <1>9, <1>11, PlanBounds
  <2>2. n > 0
    BY <1>1, <1>2 DEF FitsWaiting
  <2> QED
    BY <2>1, <2>2, <1>9
<1>13. /\ \A i \in DOMAIN EncoderInputs[r] : Needs(r, i, local, n) => i \in I \/ <<r, i>> \in enc.cached
       /\ I \subseteq DOMAIN EncoderInputs[r]
  BY <1>6, <1>9, <1>11, <1>12, PlanCovers
<1>14. PICK k : k = call.output
  OBVIOUS
<1>15. OutputGood(k) /\ DOMAIN k = OutputFields
  BY <1>14 DEF EngineInv, OutsOK, OutputGood, OutputShape
<1>o. /\ p = Scheduled(k, r, n, local, 0, b, I)
      /\ o \in {[p EXCEPT !.ran = Append(@, r)], [p EXCEPT !.resumed = Append(@, r)],
                [p EXCEPT !.new = Append(@, r)]}
  BY <1>3, <1>14
<1>16. /\ Joins(k, o, r, n, local, 0, req[r].num_tokens)
       /\ Adds(k, o, r, I)
  <2>1. Joins(k, o, r, n, local, 0, req[r].num_tokens)
    BY <1>o, <1>6, <1>15, JoinsOutput
  <2>2. Adds(k, o, r, I)
    BY <1>o, <1>6, <1>15, InputsRecorded
  <2> QED
    BY <2>1, <2>2
<1>17. /\ Joins(call.output, call'.output, r, n, local, 0, req[r].num_tokens)
       /\ Adds(call.output, call'.output, r, I)
       /\ OutputGood(call.output)
  BY <1>4, <1>14, <1>15, <1>16
<1> QED
  BY <1>2, <1>4, <1>5, <1>6, <1>12, <1>13, <1>17, EncoderJoins

\* The other steps of schedule() leave the encoder cache and the output as they are.
LEMMA EncoderScheduleStep ==
  ASSUME QueueInv, EngineInv, Modelled, EncoderInv, ScheduleSteps, UNCHANGED worker
  PROVE  EncoderInv'
<1>1. CASE ScheduleRunning
  BY <1>1, EncoderScheduleRunning
<1>2. CASE ScheduleWaiting
  BY <1>2, EncoderScheduleWaiting
<1>3. CASE SkipRunning \/ PreemptLast \/ RunningLoopEnds \/ SkipWaiting \/ SkipLora \/ LoadRemote
           \/ StopAtWaiting \/ WaitingLoopEnds
  <2>1. UNCHANGED <<enc, finished_req_ids>>
    BY <1>3 DEF SkipRunning, PreemptLast, RunningLoopEnds, SkipWaiting, SkipLora, LoadRemote,
       StopAtWaiting, WaitingLoopEnds
  <2>2. call.phase \in {"running", "waiting"}
    BY <1>3 DEF SkipRunning, PreemptLast, RunningLoopEnds, SkipWaiting, SkipLora, LoadRemote,
       StopAtWaiting, WaitingLoopEnds, InRunningLoop, InWaitingLoop, LooksUpHead, ConsidersHead
  <2>3. DOMAIN call = CallFields
    BY DEF QueueInv, Shapes
  <2>4. call'.output = call.output /\ call'.phase \in {"running", "waiting", "finish"}
    <3>1. CASE SkipRunning
      BY <3>1, <2>2, <2>3 DEF SkipRunning, CallFields
    <3>2. CASE PreemptLast
      BY <3>2, <2>2, <2>3 DEF PreemptLast, CallFields
    <3>3. CASE RunningLoopEnds
      BY <3>3, <2>2, <2>3 DEF RunningLoopEnds, CallFields
    <3>4. CASE SkipWaiting \/ SkipLora \/ LoadRemote
      BY <3>4, <2>2, <2>3 DEF SkipWaiting, SkipLora, LoadRemote, CallFields
    <3>5. CASE StopAtWaiting \/ WaitingLoopEnds
      BY <3>5, <2>2, <2>3 DEF StopAtWaiting, WaitingLoopEnds, CallFields
    <3> QED
      BY <1>3, <3>1, <3>2, <3>3, <3>4, <3>5
  <2>5. SchedPhase /\ SchedPhase' /\ call.phase # "execute" /\ call'.phase # "execute"
    BY <2>2, <2>4 DEF SchedPhase
  <2> QED
    BY <2>1, <2>4, <2>5, EncoderFrame
<1> QED
  BY <1>1, <1>2, <1>3 DEF ScheduleSteps

\* update_from_output gives up the inputs that are processed, or all of a request.
LEMMA EncoderUpdateStep ==
  ASSUME QueueInv, EngineInv, EncoderInv, UpdateSteps, UNCHANGED worker PROVE EncoderInv'
<1>0. call.phase = "update" /\ call'.phase \in {"update", "idle"} /\ ~SchedPhase /\ ~SchedPhase'
  <2>1. DOMAIN call = CallFields
    BY DEF QueueInv, Shapes
  <2>2. CASE KeepUnscheduled
    BY <2>1, <2>2 DEF KeepUnscheduled, CallFields, InUpdateLoop, SchedPhase
  <2>3. CASE UpdateScheduled
    <3>1. /\ InUpdateLoop
          /\ \/ call' = [call EXCEPT !.req_index = @ + 1, !.new_running = Append(@, Current)]
             \/ call' = [call EXCEPT !.req_index = @ + 1]
      BY <2>3 DEF UpdateScheduled, UpdateContinues, UpdateStops
    <3> QED
      BY <2>1, <3>1 DEF CallFields, InUpdateLoop, SchedPhase
  <2>4. CASE EndUpdate
    BY <2>4 DEF EndUpdate, NoCall, SchedPhase
  <2> QED
    BY <2>2, <2>3, <2>4 DEF UpdateSteps
<1>1. CASE KeepUnscheduled \/ EndUpdate
  <2>1. UNCHANGED <<enc, finished_req_ids>>
    BY <1>1 DEF KeepUnscheduled, EndUpdate
  <2> QED
    BY <2>1, <1>0, EncoderFrame
<1>2. CASE UpdateScheduled
  <2>1. PICK r : r = Current
    OBVIOUS
  <2>2. InUpdateLoop /\ r \in Req
    <3>1. InUpdateLoop
      BY <1>2 DEF UpdateScheduled
    <3>2. running \in Seq(Req) /\ call.req_index \in Nat \ {0} /\ call.req_index <= Len(running)
      BY <3>1 DEF InUpdateLoop, QueueInv, Control
    <3> QED
      BY <3>1, <3>2, <2>1 DEF Current
  <2>3. \/ /\ \E I : enc' = free_inputs(enc, r, I)
           /\ finished_req_ids' = finished_req_ids
        \/ /\ enc' = free_inputs(enc, r, get_cached_input_ids(enc, r))
           /\ finished_req_ids' = finished_req_ids \cup {r}
    <3>1. PICK g : \/ \E d \in 0..NumSpecTokens : UpdateContinues(r, g, d)
                   \/ UpdateStops(r, g)
      BY <1>2, <2>1 DEF UpdateScheduled
    <3>2. CASE \E d \in 0..NumSpecTokens : UpdateContinues(r, g, d)
      BY <3>2 DEF UpdateContinues
    <3>3. CASE UpdateStops(r, g)
      BY <3>3 DEF UpdateStops, free_request
    <3> QED
      BY <3>1, <3>2, <3>3
  <2>4. PICK I : /\ enc' = free_inputs(enc, r, I)
                 /\ \/ finished_req_ids' = finished_req_ids
                    \/ finished_req_ids' = finished_req_ids \cup {r} /\ I = get_cached_input_ids(enc, r)
    BY <2>3, Zenon
  <2> QED
    BY <2>2, <2>4, <1>0, EncoderFrees
<1> QED
  BY <1>1, <1>2 DEF UpdateSteps

\* What the output of schedule() tells the workers.
LEMMA OutputTells ==
  ASSUME OutputGood(call.output), NEW p, p = OutputOfCall
  PROVE  /\ p.finished = finished_req_ids /\ p.free_encoder_input_ids = enc.freed
         /\ p.encoder_inputs = call.output.encoder_inputs
         /\ p.num_scheduled_tokens = call.output.num_scheduled_tokens
         /\ p.num_computed_tokens = call.output.num_computed_tokens
<1>1. PICK o, f, e, m : o = call.output /\ f = finished_req_ids /\ e = enc.freed /\ m = conn.reqs_need_recv
  OBVIOUS
<1>2. DOMAIN o = OutputFields
  BY <1>1 DEF OutputGood, OutputShape
<1>3. p = [o EXCEPT !.finished = f, !.free_encoder_input_ids = e, !.kv_meta = m]
  BY <1>1 DEF OutputOfCall
<1>4. /\ p.finished = f /\ p.free_encoder_input_ids = e /\ p.encoder_inputs = o.encoder_inputs
      /\ p.num_scheduled_tokens = o.num_scheduled_tokens
      /\ p.num_computed_tokens = o.num_computed_tokens
  BY <1>2, <1>3 DEF OutputFields
<1> QED
  BY <1>1, <1>4

\* What the workers keep once they have taken an output.
LEMMA UpdatedCache ==
  ASSUME DOMAIN worker = WorkerFields, NEW o
  PROVE  /\ DOMAIN UpdatedWorker(worker, o) = WorkerFields
         /\ UpdatedWorker(worker, o).encoder_cache
              = CacheAfter(worker.encoder_cache, o.finished, o.free_encoder_input_ids, o.encoder_inputs)
<1>1. PICK x, y : /\ x = (worker.requests \ o.finished) \cup Members(o.new)
                  /\ y = CacheAfter(worker.encoder_cache, o.finished, o.free_encoder_input_ids,
                                    o.encoder_inputs)
  OBVIOUS
<1>2. UpdatedWorker(worker, o) = [worker EXCEPT !.requests = x, !.encoder_cache = y]
  BY <1>1 DEF UpdatedWorker, CacheAfter
<1> QED
  BY <1>1, <1>2 DEF WorkerFields

\* The workers have taken what they were told: nothing is left to tell.
LEMMA EncoderTold ==
  ASSUME EncoderInv, DOMAIN enc' = EncoderFields, enc'.cached = enc.cached, enc'.freed = {},
         finished_req_ids' = {}, call'.phase # "execute", ~SchedPhase',
         enc.cached \subseteq worker'.encoder_cache
  PROVE  EncoderInv'
<1>1. AtWorkers' = CacheAfter(worker'.encoder_cache, {}, {}, {})
  BY DEF AtWorkers, NewInputs
<1>2. CacheAfter(worker'.encoder_cache, {}, {}, {}) = worker'.encoder_cache
  BY DEF CacheAfter
<1>3. enc'.cached \subseteq AtWorkers'
  BY <1>1, <1>2
<1> QED
  BY <1>3 DEF EncoderInv, IsInput

LEMMA EncoderStepDispatches ==
  ASSUME QueueInv, TransferInv, EngineInv, EncoderInv, StepDispatches PROVE EncoderInv'
<1>1. /\ call.phase = "finish" /\ finished_req_ids' = {} /\ enc' = [enc EXCEPT !.freed = {}]
  BY DEF StepDispatches, EndSchedule
<1>2. /\ DOMAIN enc' = EncoderFields /\ enc'.cached = enc.cached /\ enc'.freed = {}
  BY <1>1 DEF EncoderInv, EncoderFields
<1>3. SchedPhase /\ OutputGood(call.output) /\ DOMAIN worker = WorkerFields
  BY <1>1 DEF SchedPhase, EngineInv, OutsOK, TransferInv
<1>4. PICK p : p = OutputOfCall
  OBVIOUS
<1>5. /\ p.finished = finished_req_ids /\ p.free_encoder_input_ids = enc.freed
      /\ p.encoder_inputs = call.output.encoder_inputs
  BY <1>3, <1>4, OutputTells
<1>6. enc.cached \subseteq CacheAfter(worker.encoder_cache, p.finished, p.free_encoder_input_ids,
                                       p.encoder_inputs)
  BY <1>1, <1>3, <1>5 DEF EncoderInv, AtWorkers, NewInputs
<1>7. CASE MaxConcurrentBatches = 1
  <2>1. call' = [NoCall EXCEPT !.phase = "execute", !.output = p] /\ UNCHANGED worker
    BY <1>4, <1>7 DEF StepDispatches
  <2>2. call'.phase = "execute" /\ call'.output = p
    BY <2>1 DEF NoCall
  <2>3. AtWorkers' = CacheAfter(worker.encoder_cache, p.finished, p.free_encoder_input_ids,
                                p.encoder_inputs)
    BY <2>1, <2>2 DEF AtWorkers
  <2>4. ~SchedPhase'
    BY <2>2 DEF SchedPhase
  <2> QED
    BY <2>2, <2>3, <2>4, <1>1, <1>2, <1>6 DEF EncoderInv, IsInput
<1>8. CASE MaxConcurrentBatches # 1
  <2>1. /\ call' = NoCall \/ call' = BeginUpdate(Head(batch_queue))
        /\ \/ worker' = UpdatedWorker(worker, p)
           \/ worker' = worker /\ ~(total_num_scheduled_tokens(call.output) > 0)
    BY <1>4, <1>8 DEF StepDispatches
  <2>2. call'.phase # "execute" /\ ~SchedPhase'
    <3>1. CASE call' = NoCall
      BY <3>1 DEF NoCall, SchedPhase
    <3>2. CASE call' = BeginUpdate(Head(batch_queue))
      BY <3>2 DEF BeginUpdate, NoCall, SchedPhase
    <3> QED
      BY <2>1, <3>1, <3>2
  <2>3. CASE worker' = UpdatedWorker(worker, p)
    <3>1. worker'.encoder_cache = CacheAfter(worker.encoder_cache, p.finished,
                                             p.free_encoder_input_ids, p.encoder_inputs)
      BY <2>3, <1>3, UpdatedCache
    <3> QED
      BY <3>1, <2>2, <1>1, <1>2, <1>6, EncoderTold
  <2>4. CASE worker' = worker /\ ~(total_num_scheduled_tokens(call.output) > 0)
    <3>1. PICK o : o = call.output
      OBVIOUS
    <3>2. AreCounts(o.num_scheduled_tokens)
      BY <3>1, <1>3 DEF AreCounts, OutputGood, OutputShape
    <3>3. \A r \in Req : ~(o.num_scheduled_tokens[r] > 0)
      BY <2>4, <3>1, <3>2, TotalPositive
    <3>4. p.encoder_inputs = {}
      BY <3>1, <3>3, <1>3, <1>5 DEF EncoderInv, InputsScheduled
    <3>5. enc.cached \subseteq worker'.encoder_cache
      BY <2>4, <3>4, <1>6 DEF CacheAfter
    <3> QED
      BY <3>5, <2>2, <1>1, <1>2, EncoderTold
  <2> QED
    BY <2>1, <2>3, <2>4
<1> QED
  BY <1>7, <1>8

LEMMA EncoderExecuteModel ==
  ASSUME TransferInv, EncoderInv, ExecuteModel PROVE EncoderInv'
<1>1. PICK o, x : /\ o = call.output
                  /\ worker' = [UpdatedWorker(worker, o) EXCEPT !.transfers = x]
  BY DEF ExecuteModel
<1>2. call.phase = "execute" /\ UNCHANGED <<enc, finished_req_ids>> /\ call'.phase = "update"
  BY DEF ExecuteModel, BeginUpdate, NoCall
<1>3. DOMAIN worker = WorkerFields
  BY DEF TransferInv
<1>4. PICK w : w = UpdatedWorker(worker, o)
  OBVIOUS
<1>5. /\ DOMAIN w = WorkerFields
      /\ w.encoder_cache = CacheAfter(worker.encoder_cache, o.finished, o.free_encoder_input_ids,
                                      o.encoder_inputs)
  BY <1>3, <1>4, UpdatedCache
<1>6. worker'.encoder_cache = w.encoder_cache
  BY <1>1, <1>4, <1>5 DEF WorkerFields
<1>7. enc.cached \subseteq worker'.encoder_cache /\ enc.freed = {} /\ finished_req_ids = {}
  BY <1>1, <1>2, <1>5, <1>6 DEF EncoderInv, AtWorkers
<1>8. ~SchedPhase' /\ call'.phase # "execute" /\ DOMAIN enc' = EncoderFields
  BY <1>2 DEF SchedPhase, EncoderInv
<1> QED
  BY <1>2, <1>7, <1>8, EncoderTold

LEMMA EncoderNext ==
  ASSUME Modelled, QueueInv, TransferInv, EngineInv, EncoderInv, [Steps]_engineVars PROVE EncoderInv'
<1>1. ASSUME NEW r \in Req, AddRequest(r) \/ AbortRequest(r) \/ CompileGrammar(r) PROVE EncoderInv'
  BY <1>1, EncoderClient
<1>2. ASSUME NEW k \in Ranks, NEW r \in Req, TransferArrives(k, r) \/ TransferIsRead(k, r)
      PROVE  EncoderInv'
  BY <1>2, EncoderMoves
<1>3. CASE ResetPrefixCache \/ UNCHANGED engineVars
  BY <1>3, EncoderSame DEF ResetPrefixCache, engineVars, schedulerVars
<1>4. CASE StepSchedules
  <2>1. /\ call.phase = "idle" /\ UNCHANGED <<enc, finished_req_ids, worker>>
        /\ call'.phase = "running" /\ call'.output = NoOutput
    BY <1>4 DEF StepSchedules, BeginSchedule, NoCall
  <2>2. PICK o : o = NoOutput
    OBVIOUS
  <2>3. /\ o.encoder_inputs = {} /\ o.num_scheduled_tokens = NoTokens
        /\ o.num_computed_tokens = NoTokens
    BY <2>2 DEF NoOutput
  <2>4. AtWorkers' = AtWorkers
    BY <2>1, <2>2, <2>3 DEF AtWorkers, NewInputs, SchedPhase
  <2>5. ASSUME NEW r \in Req PROVE CoveredIn(o, enc.cached, r)
    <3>1. o.num_computed_tokens[r] = 0 /\ o.num_scheduled_tokens[r] = 0
      BY <2>3 DEF NoTokens
    <3>2. \A i \in DOMAIN EncoderInputs[r] : StartOf(r, i) \in Nat
      BY InputsAre DEF StartOf
    <3> QED
      BY <3>1, <3>2 DEF CoveredIn, Needs
  <2> QED
    BY <2>1, <2>2, <2>3, <2>4, <2>5 DEF EncoderInv, IsInput, CoveredIn, InputsScheduled
<1>5. CASE StepDrains
  <2>1. /\ call.phase = "idle" /\ UNCHANGED <<enc, finished_req_ids, worker>>
        /\ call'.phase = "update"
    BY <1>5 DEF StepDrains, BeginUpdate, NoCall
  <2>2. ~SchedPhase /\ ~SchedPhase' /\ call.phase # "execute" /\ call'.phase # "execute"
    BY <2>1 DEF SchedPhase
  <2> QED
    BY <2>1, <2>2, EncoderFrame
<1>6. CASE EngineStep
  BY <1>4, <1>5, <1>6, EncoderScheduleStep, EncoderUpdateStep, EncoderStepDispatches,
     EncoderExecuteModel DEF EngineStep
<1> QED
  BY <1>1, <1>2, <1>3, <1>6 DEF Steps

\* Every encoder output that the scheduled tokens overlap is at the workers when they
\* take the output of schedule(): its place in the scheduler's cache, the outputs that
\* were given up or whose requests finished in between, and the chunks that the budgets
\* cut never disagree, with any number of batches in flight.
THEOREM EncoderOutputsAreThere ==
  ASSUME Modelled PROVE Spec => []EncoderOutputPresent
<1>1. Init => EncoderInv
  BY EncoderInit
<1>2. (QueueInv /\ TransferInv /\ EngineInv) /\ EncoderInv /\ [Next]_vars => EncoderInv'
  BY EncoderNext, NextSteps
<1>3. (QueueInv /\ TransferInv /\ EngineInv) /\ EncoderInv => EncoderOutputPresent
  <2> SUFFICES ASSUME TransferInv, EngineInv, EncoderInv, call.phase = "finish",
                      NEW r \in Req, NEW i \in DOMAIN EncoderInputs[r],
                      Needs(r, i, OutputOfCall.num_computed_tokens[r],
                            OutputOfCall.num_scheduled_tokens[r])
               PROVE  <<r, i>> \in UpdatedWorker(worker, OutputOfCall).encoder_cache
    BY DEF EncoderOutputPresent
  <2>1. SchedPhase /\ OutputGood(call.output) /\ DOMAIN worker = WorkerFields
    BY DEF SchedPhase, EngineInv, OutsOK, TransferInv
  <2>2. PICK p : p = OutputOfCall
    OBVIOUS
  <2>3. /\ p.finished = finished_req_ids /\ p.free_encoder_input_ids = enc.freed
        /\ p.encoder_inputs = call.output.encoder_inputs
        /\ p.num_scheduled_tokens = call.output.num_scheduled_tokens
        /\ p.num_computed_tokens = call.output.num_computed_tokens
    BY <2>1, <2>2, OutputTells
  <2>4. <<r, i>> \in enc.cached
    <3>1. CoveredIn(call.output, enc.cached, r)
      BY <2>1 DEF EncoderInv
    <3> QED
      BY <3>1, <2>2, <2>3 DEF CoveredIn
  <2>5. <<r, i>> \in CacheAfter(worker.encoder_cache, p.finished, p.free_encoder_input_ids,
                                p.encoder_inputs)
    BY <2>1, <2>3, <2>4 DEF EncoderInv, AtWorkers, NewInputs
  <2>6. UpdatedWorker(worker, p).encoder_cache
          = CacheAfter(worker.encoder_cache, p.finished, p.free_encoder_input_ids, p.encoder_inputs)
    BY <2>1, UpdatedCache
  <2> QED
    BY <2>2, <2>5, <2>6
<1> QED
  <2>1. Spec => [](QueueInv /\ TransferInv /\ EngineInv)
    BY EngineInvariant
  <2> QED
    BY <1>1, <1>2, <1>3, <2>1, PTL DEF Spec

-----------------------------------------------------------------------------
\* Only a waiting request that is scheduled becomes a running one.
Runners == {r \in Req : req[r].status = "RUNNING"}
Admitted(q) == ScheduleWaiting /\ q = Head(waiting)
LEMMA OnlyAdmitted ==
  ASSUME QueueInv, [Steps]_engineVars, NEW q \in Req, req'[q].status = "RUNNING"
  PROVE  req[q].status = "RUNNING" \/ Admitted(q)
<1>1. ASSUME NEW r \in Req, AddRequest(r) \/ AbortRequest(r) \/ CompileGrammar(r)
      PROVE  req[q].status = "RUNNING"
  <2>1. CASE AddRequest(r)
    <3>1. PICK s : s \in {"WAITING_FOR_FSM", "WAITING"} /\ req' = [req EXCEPT ![r].status = s]
      BY <2>1 DEF AddRequest, add_request
    <3>2. \A p \in Req \ {r} : StatusKept(p)
      BY <3>1, StatusChanges
    <3>3. req'[r].status = s
      BY <3>1 DEF QueueInv, Shapes, ReqFields
    <3> QED
      BY <3>1, <3>2, <3>3 DEF StatusKept
  <2>2. CASE AbortRequest(r)
    <3>1. req' = [req EXCEPT ![r].status = "FINISHED"]
      BY <2>2 DEF AbortRequest, finish_requests
    <3>2. \A p \in Req \ {r} : StatusKept(p)
      BY <3>1, StatusChanges
    <3>3. req'[r].status = "FINISHED"
      BY <3>1 DEF QueueInv, Shapes, ReqFields
    <3> QED
      BY <3>2, <3>3 DEF StatusKept
  <2>3. CASE CompileGrammar(r)
    BY <2>3 DEF CompileGrammar, GrammarCompiled
  <2> QED
    BY <1>1, <2>1, <2>2, <2>3
<1>2. ASSUME NEW k \in Ranks, NEW r \in Req, TransferArrives(k, r) \/ TransferIsRead(k, r)
      PROVE  req[q].status = "RUNNING"
  BY <1>2 DEF TransferArrives, TransferIsRead, schedulerVars
<1>3. CASE ResetPrefixCache \/ UNCHANGED engineVars
  BY <1>3 DEF ResetPrefixCache, engineVars, schedulerVars
<1>4. CASE ScheduleSteps
  <2>1. CASE SkipRunning \/ RunningLoopEnds \/ SkipWaiting \/ WaitingLoopEnds
    BY <2>1 DEF SkipRunning, RunningLoopEnds, SkipWaiting, WaitingLoopEnds
  <2>2. CASE ScheduleRunning \/ PreemptLast
    <3>1. InRunningLoop
      BY <2>2 DEF ScheduleRunning, PreemptLast
    <3>2. PICK r, l : /\ r = Current /\ l = running[Len(running)]
                      /\ r \in Req /\ l \in Req
      BY <3>1, RunningIsCurrent
    <3>3. CASE ScheduleRunning
      <4>1. \E n : req' = [req EXCEPT ![r].spec_token_ids = n]
        BY <3>2, <3>3 DEF ScheduleRunning
      <4> QED
        BY <4>1, <3>2 DEF QueueInv, Shapes, ReqFields
    <3>4. CASE PreemptLast
      <4>1. req' = [req EXCEPT ![l].status = "PREEMPTED", ![l].num_computed_tokens = 0]
        BY <3>2, <3>4 DEF PreemptLast
      <4> QED
        BY <4>1, <3>2 DEF QueueInv, Shapes, ReqFields
    <3> QED
      BY <2>2, <3>3, <3>4
  <2>3. CASE SkipLora \/ ScheduleWaiting \/ LoadRemote \/ StopAtWaiting
    <3>1. PICK r : r = Head(waiting)
      OBVIOUS
    <3>2. r \in Req /\ \A p \in Req \ {r} : StatusKept(p)
      BY <2>3, <3>1, HeadStatus
    <3>3. CASE q # r
      BY <3>2, <3>3 DEF StatusKept
    <3>4. CASE q = r /\ ~ScheduleWaiting
      <4>1. \/ \E n : req' = [req EXCEPT ![r].status = StatusAtHead(r), ![r].num_computed_tokens = n]
            \/ req' = [req EXCEPT ![r].status = "WAITING_FOR_REMOTE_KVS"]
        BY <2>3, <3>1, <3>4 DEF SkipLora, LoadRemote, StopAtWaiting, ReqAtHead
      <4>2. req'[r].status = StatusAtHead(r) \/ req'[r].status = "WAITING_FOR_REMOTE_KVS"
        BY <4>1, <3>2 DEF QueueInv, Shapes, ReqFields
      <4>3. StatusAtHead(r) = "WAITING" \/ StatusAtHead(r) = req[r].status
        BY DEF StatusAtHead
      <4> QED
        BY <4>2, <4>3, <3>4
    <3> QED
      BY <3>1, <3>3, <3>4 DEF Admitted
  <2> QED
    BY <1>4, <2>1, <2>2, <2>3 DEF ScheduleSteps
<1>5. CASE UpdateSteps
  BY <1>5, UpdateStatus DEF StatusKept
<1>6. CASE StepSchedules \/ StepDrains \/ ExecuteModel
  BY <1>6 DEF StepSchedules, StepDrains, ExecuteModel
<1>7. CASE StepDispatches
  <2>1. req' = [r \in Req |-> [req[r] EXCEPT
                 !.num_computed_tokens = @ + call.output.num_scheduled_tokens[r]]]
    BY <1>7 DEF StepDispatches, EndSchedule
  <2> QED
    BY <2>1 DEF QueueInv, Shapes, ReqFields
<1> QED
  BY <1>1, <1>2, <1>3, <1>4, <1>5, <1>6, <1>7 DEF Steps, EngineStep

\* The scheduled tokens and the budget that is left make up max_num_scheduled_tokens, and
\* no more requests run than may.
LimitsInv ==
  /\ Cardinality(Runners) <= MaxNumRunningReqs
  /\ SchedPhase =>
       total_num_scheduled_tokens(call.output) + call.token_budget = MaxNumScheduledTokens

LEMMA RunnersFinite == IsFiniteSet(Runners) /\ Cardinality(Runners) \in Nat
  BY ManagerAssumption, FS_Subset, FS_CardinalityType DEF Runners

LEMMA RunnersAreRunning ==
  ASSUME QueueInv, call.phase # "update"
  PROVE  Members(running) = Runners /\ Len(running) = Cardinality(Runners)
<1>1. /\ \A r \in Req : r \in Members(running) <=> req[r].status = "RUNNING"
      /\ Members(running) \subseteq Req /\ Cardinality(Members(running)) = Len(running)
  BY RunningNow
<1>2. Members(running) = Runners
  BY <1>1 DEF Runners
<1> QED
  BY <1>1, <1>2

\* What scheduling a request does to the call: its tokens are taken from the budget.
JoinsCall(r, n) ==
  /\ r \in Req /\ n \in Nat \ {0}
  /\ call'.phase = call.phase /\ call'.token_budget = call.token_budget - n
  /\ call.output.num_scheduled_tokens[r] = 0
  /\ call'.output.num_scheduled_tokens[r] = n
  /\ \A q \in Req : q # r =>
       call'.output.num_scheduled_tokens[q] = call.output.num_scheduled_tokens[q]
  /\ AreCounts(call.output.num_scheduled_tokens) /\ AreCounts(call'.output.num_scheduled_tokens)

LEMMA CountsOfOutput ==
  ASSUME NEW o, OutputGood(o) PROVE AreCounts(o.num_scheduled_tokens)
  BY DEF OutputGood, OutputShape, AreCounts

LEMMA CountsJoin ==
  ASSUME NEW k, OutputGood(k), NEW o, NEW r \in Req, NEW n \in Nat, NEW c, NEW d, NEW t,
         Joins(k, o, r, n, c, d, t)
  PROVE  /\ AreCounts(k.num_scheduled_tokens) /\ AreCounts(o.num_scheduled_tokens)
         /\ o.num_scheduled_tokens[r] = n
         /\ \A q \in Req : q # r => o.num_scheduled_tokens[q] = k.num_scheduled_tokens[q]
<1>1. AreCounts(k.num_scheduled_tokens)
  BY CountsOfOutput
<1>2. /\ DOMAIN o.num_scheduled_tokens = Req /\ o.num_scheduled_tokens[r] = n
      /\ \A q \in Req : q # r => o.num_scheduled_tokens[q] = k.num_scheduled_tokens[q]
  BY DEF Joins, OutputShape
<1> QED
  BY <1>1, <1>2 DEF AreCounts

LEMMA RunningJoins ==
  ASSUME QueueInv, EngineInv, ScheduleRunning
  PROVE  /\ \E n : JoinsCall(Current, n) /\ n = NewTokensOfRunning(Current)
         /\ call'.req_index = call.req_index + 1
<1>1. PICK r, n, I, d, b, nc :
        /\ r = Current /\ n = NewTokensOfRunning(r) /\ I = PlanOfRunning(r).inputs
        /\ d = DraftTokens(r, n) /\ nc = req[r].num_computed_tokens
        /\ b = SubSeq(kvm'.req_to_blocks[r], Len(kvm.req_to_blocks[r]) + 1, Len(kvm'.req_to_blocks[r]))
  BY Zenon
<1>2. /\ InRunningLoop /\ n # 0
      /\ \E e : call' = [call EXCEPT !.req_index = @ + 1, !.token_budget = @ - n,
                           !.encoder_budget = e,
                           !.output = LET o == Scheduled(@, r, n, nc, d, b, I)
                                      IN [o EXCEPT !.ran = Append(@, r)]]
  BY <1>1 DEF ScheduleRunning
<1>3. PICK e, k, p, o :
                     /\ k = call.output /\ p = Scheduled(k, r, n, nc, d, b, I)
                     /\ o = [p EXCEPT !.ran = Append(@, r)]
                     /\ call' = [call EXCEPT !.req_index = @ + 1, !.token_budget = @ - n,
                                             !.encoder_budget = e, !.output = o]
  BY <1>2
<1>4. /\ call'.phase = call.phase /\ call'.output = o /\ call'.token_budget = call.token_budget - n
      /\ call'.req_index = call.req_index + 1
  BY <1>3 DEF CallFields, QueueInv, Shapes
<1>5. r \in Req /\ call.output.num_scheduled_tokens[r] = 0
  BY <1>1, <1>2, CurrentToRun
<1>6. n \in Nat \ {0}
  BY <1>1, <1>2, PlanToRun
<1>7. OutputGood(k)
  BY <1>3 DEF EngineInv, OutsOK
<1>8. o \in {[p EXCEPT !.ran = Append(@, r)], [p EXCEPT !.resumed = Append(@, r)],
             [p EXCEPT !.new = Append(@, r)]}
  BY <1>3
<1>9. Joins(k, o, r, n, nc, d, req[r].num_tokens)
  BY <1>3, <1>5, <1>7, <1>8, JoinsOutput
<1>10. /\ AreCounts(k.num_scheduled_tokens) /\ AreCounts(o.num_scheduled_tokens)
       /\ o.num_scheduled_tokens[r] = n
       /\ \A q \in Req : q # r => o.num_scheduled_tokens[q] = k.num_scheduled_tokens[q]
  BY <1>5, <1>6, <1>7, <1>9, CountsJoin
<1>11. JoinsCall(r, n)
  BY <1>3, <1>4, <1>5, <1>6, <1>10 DEF JoinsCall
<1> QED
  BY <1>1, <1>4, <1>11

LEMMA WaitingJoins ==
  ASSUME QueueInv, EngineInv, Modelled, ScheduleWaiting
  PROVE  /\ \E n : JoinsCall(Head(waiting), n) /\ n = NewTokensOfWaiting(Head(waiting))
         /\ call'.req_index = call.req_index
<1>1. PICK r, n, b, I, local, nt :
        /\ r = Head(waiting) /\ n = NewTokensOfWaiting(r) /\ b = kvm'.req_to_blocks[r]
        /\ I = PlanOfWaiting(r).inputs /\ local = LocalComputed(r) /\ nt = req[r].num_tokens
  BY Zenon
<1>2. /\ InWaitingLoop /\ FitsWaiting(r) /\ ~load_kv_async(r)
      /\ \E e : call' = [call EXCEPT !.token_budget = @ - n, !.encoder_budget = e,
                      !.output = LET o == Scheduled(@, r, n, local, 0, b, I)
                                 IN IF StatusAtHead(r) = "PREEMPTED"
                                    THEN [o EXCEPT !.resumed = Append(@, r)]
                                    ELSE [o EXCEPT !.new = Append(@, r)]]
  BY <1>1 DEF ScheduleWaiting, LooksUpHead, ConsidersHead
<1>3. PICK e, k, p, o :
                     /\ k = call.output /\ p = Scheduled(k, r, n, local, 0, b, I)
                     /\ o = IF StatusAtHead(r) = "PREEMPTED" THEN [p EXCEPT !.resumed = Append(@, r)]
                            ELSE [p EXCEPT !.new = Append(@, r)]
                     /\ call' = [call EXCEPT !.token_budget = @ - n, !.encoder_budget = e,
                                             !.output = o]
  BY <1>2
<1>x. call' = [call EXCEPT !.token_budget = @ - n, !.encoder_budget = e, !.output = o]
  BY <1>3
<1>4. /\ call'.phase = call.phase /\ call'.output = o /\ call'.token_budget = call.token_budget - n
      /\ call'.req_index = call.req_index
  BY <1>x DEF CallFields, QueueInv, Shapes
<1>5. call.phase \in {"running", "waiting"}
  BY <1>2 DEF InWaitingLoop
<1>6. /\ nt \in 1..LengthCap(r) /\ local \in Nat /\ local <= nt
      /\ r \in Req /\ call.output.num_scheduled_tokens[r] = 0
  BY <1>1, <1>2, LocalOK
<1>7. call.token_budget \in Nat /\ LengthCap(r) \in Nat
  BY <1>5, <1>6, CapBounds DEF EngineInv, OutsOK, SchedPhase
<1>8. PICK m : m = TokensOfWaiting(r)
  OBVIOUS
<1>9. m \in Nat
  <2>1. PICK y, t : y = call.token_budget /\ t = nt - local
    OBVIOUS
  <2>2. t \in Nat /\ y \in Nat
    BY <2>1, <1>6, <1>7
  <2>3. m = AtMost(Threshold(t), y)
    BY <2>1, <1>1, <1>8 DEF TokensOfWaiting
  <2> QED
    BY <2>2, <2>3, SchedulerAssumption DEF AtMost, Threshold
<1>10. PlanOfWaiting(r) = try_schedule_encoder_inputs(enc, r, local, m, call.encoder_budget)
  BY <1>1, <1>8 DEF PlanOfWaiting
<1>11. n = try_schedule_encoder_inputs(enc, r, local, m, call.encoder_budget).num_new_tokens
  BY <1>1, <1>2, <1>10 DEF NewTokensOfWaiting
<1>12. n \in Nat \ {0}
  <2>1. n \in 0..m
    BY <1>6, <1>9, <1>11, PlanBounds
  <2>2. n > 0
    BY <1>1, <1>2 DEF FitsWaiting
  <2> QED
    BY <2>1, <2>2, <1>9
<1>13. OutputGood(k)
  BY <1>3 DEF EngineInv, OutsOK
<1>14. o \in {[p EXCEPT !.ran = Append(@, r)], [p EXCEPT !.resumed = Append(@, r)],
              [p EXCEPT !.new = Append(@, r)]}
  <2>1. o = IF StatusAtHead(r) = "PREEMPTED" THEN [p EXCEPT !.resumed = Append(@, r)]
            ELSE [p EXCEPT !.new = Append(@, r)]
    BY <1>3
  <2> QED
    BY <2>1
<1>15. Joins(k, o, r, n, local, 0, req[r].num_tokens)
  BY <1>3, <1>6, <1>13, <1>14, JoinsOutput
<1>16. /\ AreCounts(k.num_scheduled_tokens) /\ AreCounts(o.num_scheduled_tokens)
       /\ o.num_scheduled_tokens[r] = n
       /\ \A q \in Req : q # r => o.num_scheduled_tokens[q] = k.num_scheduled_tokens[q]
  BY <1>6, <1>12, <1>13, <1>15, CountsJoin
<1>17. JoinsCall(r, n)
  BY <1>3, <1>4, <1>6, <1>12, <1>16 DEF JoinsCall
<1> QED
  BY <1>1, <1>4, <1>17

LEMMA OneMoreAtMost ==
  ASSUME NEW S, IsFiniteSet(S), NEW h, NEW T, T \subseteq S \cup {h}
  PROVE  /\ Cardinality(S) \in Nat /\ Cardinality(T) \in Nat
         /\ Cardinality(T) <= Cardinality(S) + 1
         /\ T \subseteq S => Cardinality(T) <= Cardinality(S)
<1>1. PICK A : A = S \cup {h}
  OBVIOUS
<1>2. IsFiniteSet(A) /\ (Cardinality(A) = Cardinality(S) \/ Cardinality(A) = Cardinality(S) + 1)
  BY <1>1, FS_AddElement
<1>3. T \in SUBSET A
  BY <1>1
<1>4. IsFiniteSet(T) /\ Cardinality(T) <= Cardinality(A)
  BY <1>2, <1>3, FS_Subset
<1>5. Cardinality(S) \in Nat /\ Cardinality(T) \in Nat /\ Cardinality(A) \in Nat
  BY <1>2, <1>4, FS_CardinalityType
<1>6. T \subseteq S => Cardinality(T) <= Cardinality(S)
  BY FS_Subset
<1> QED
  BY <1>2, <1>4, <1>5, <1>6

LEMMA RunnersBounded ==
  ASSUME QueueInv, [Steps]_engineVars, Cardinality(Runners) <= MaxNumRunningReqs
  PROVE  Cardinality(Runners') <= MaxNumRunningReqs
<1>1. PICK S, T, h : S = Runners /\ T = Runners' /\ h = Head(waiting)
  OBVIOUS
<1>2. IsFiniteSet(S) /\ Cardinality(S) \in Nat
  BY <1>1, RunnersFinite
<1>3. MaxNumRunningReqs \in Nat
  BY SchedulerAssumption
<1>4. \A q \in T : q \in Req /\ req'[q].status = "RUNNING"
  BY <1>1 DEF Runners
<1>5. \A q \in T : q \in S \/ Admitted(q)
  BY <1>1, <1>4, OnlyAdmitted DEF Runners
<1>6. CASE ScheduleWaiting
  <2>1. InWaitingLoop
    BY <1>6 DEF ScheduleWaiting, LooksUpHead, ConsidersHead
  <2>2. Len(running) # MaxNumRunningReqs /\ Len(running) = Cardinality(S)
    BY <2>1, <1>1, RunnersAreRunning DEF InWaitingLoop, HasRoom
  <2>3. T \subseteq S \cup {h}
    BY <1>1, <1>5 DEF Admitted
  <2>4. Cardinality(T) <= Cardinality(S) + 1 /\ Cardinality(T) \in Nat
    BY <2>3, <1>2, OneMoreAtMost
  <2> QED
    BY <2>2, <2>4, <1>1, <1>2, <1>3
<1>7. CASE ~ScheduleWaiting
  <2>1. T \subseteq S
    BY <1>5, <1>7 DEF Admitted
  <2>2. T \subseteq S \cup {h}
    BY <2>1
  <2>3. Cardinality(T) <= Cardinality(S) /\ Cardinality(T) \in Nat
    BY <2>1, <2>2, <1>2, OneMoreAtMost
  <2> QED
    BY <2>3, <1>1, <1>2, <1>3
<1> QED
  BY <1>6, <1>7

\* The other steps of schedule() leave the output and the budget.
OutputStands == call'.output = call.output /\ call'.token_budget = call.token_budget
OtherScheduleSteps ==
  \/ SkipRunning \/ PreemptLast \/ RunningLoopEnds \/ SkipWaiting \/ SkipLora \/ LoadRemote
  \/ StopAtWaiting \/ WaitingLoopEnds
LEMMA OutputStanding ==
  ASSUME QueueInv, OtherScheduleSteps
  PROVE  /\ OutputStands /\ SchedPhase /\ SchedPhase'
<1>1. call.phase \in {"running", "waiting"}
  BY DEF OtherScheduleSteps, SkipRunning, PreemptLast, RunningLoopEnds, SkipWaiting, SkipLora,
         LoadRemote, StopAtWaiting, WaitingLoopEnds, InRunningLoop, InWaitingLoop, LooksUpHead,
         ConsidersHead
<1>2. DOMAIN call = CallFields
  BY DEF QueueInv, Shapes
<1>3. OutputStands /\ call'.phase \in {"running", "waiting", "finish"}
  <2>1. CASE SkipRunning
    BY <2>1, <1>1, <1>2 DEF SkipRunning, CallFields, OutputStands
  <2>2. CASE PreemptLast
    BY <2>2, <1>1, <1>2 DEF PreemptLast, CallFields, OutputStands
  <2>3. CASE RunningLoopEnds
    BY <2>3, <1>1, <1>2 DEF RunningLoopEnds, CallFields, OutputStands
  <2>4. CASE SkipWaiting \/ SkipLora \/ LoadRemote
    BY <2>4, <1>1, <1>2 DEF SkipWaiting, SkipLora, LoadRemote, CallFields, OutputStands
  <2>5. CASE StopAtWaiting \/ WaitingLoopEnds
    BY <2>5, <1>1, <1>2 DEF StopAtWaiting, WaitingLoopEnds, CallFields, OutputStands
  <2> QED
    BY <2>1, <2>2, <2>3, <2>4, <2>5 DEF OtherScheduleSteps
<1> QED
  BY <1>1, <1>3 DEF SchedPhase

\* Outside of schedule() there is no budget.
LEMMA NotScheduling ==
  ASSUME QueueInv, UpdateSteps \/ StepDrains \/ StepDispatches \/ ExecuteModel
  PROVE  ~SchedPhase'
<1>0. DOMAIN call = CallFields
  BY DEF QueueInv, Shapes
<1>1. CASE UpdateSteps
  <2>1. CASE KeepUnscheduled
    BY <1>0, <2>1 DEF KeepUnscheduled, CallFields, InUpdateLoop, SchedPhase
  <2>2. CASE UpdateScheduled
    <3>1. /\ InUpdateLoop
          /\ \/ call' = [call EXCEPT !.req_index = @ + 1, !.new_running = Append(@, Current)]
             \/ call' = [call EXCEPT !.req_index = @ + 1]
      BY <2>2 DEF UpdateScheduled, UpdateContinues, UpdateStops
    <3> QED
      BY <1>0, <3>1 DEF CallFields, InUpdateLoop, SchedPhase
  <2>3. CASE EndUpdate
    BY <2>3 DEF EndUpdate, NoCall, SchedPhase
  <2> QED
    BY <1>1, <2>1, <2>2, <2>3 DEF UpdateSteps
<1>2. CASE StepDrains \/ ExecuteModel
  <2>1. call'.phase = "update"
    BY <1>2 DEF StepDrains, ExecuteModel, BeginUpdate, NoCall
  <2> QED
    BY <2>1 DEF SchedPhase
<1>3. CASE StepDispatches
  <2>1. \/ call' = [NoCall EXCEPT !.phase = "execute", !.output = OutputOfCall]
        \/ call' = NoCall \/ call' = BeginUpdate(Head(batch_queue))
    BY <1>3 DEF StepDispatches
  <2>2. call'.phase \in {"execute", "idle", "update"}
    <3>1. CASE call' = [NoCall EXCEPT !.phase = "execute", !.output = OutputOfCall]
      BY <3>1 DEF NoCall
    <3>2. CASE call' = NoCall
      BY <3>2 DEF NoCall
    <3>3. CASE call' = BeginUpdate(Head(batch_queue))
      BY <3>3 DEF BeginUpdate, NoCall
    <3> QED
      BY <2>1, <3>1, <3>2, <3>3
  <2> QED
    BY <2>2 DEF SchedPhase
<1> QED
  BY <1>1, <1>2, <1>3

LEMMA TotalJoins ==
  ASSUME QueueInv, EngineInv, SchedPhase, NEW r, NEW n, JoinsCall(r, n),
         total_num_scheduled_tokens(call.output) + call.token_budget = MaxNumScheduledTokens
  PROVE  total_num_scheduled_tokens(call'.output) + call'.token_budget = MaxNumScheduledTokens
<1>1. PICK o, p, y : o = call.output /\ p = call'.output /\ y = call.token_budget
  OBVIOUS
<1>2. /\ r \in Req /\ n \in Nat /\ o.num_scheduled_tokens[r] = 0 /\ p.num_scheduled_tokens[r] = n
      /\ AreCounts(o.num_scheduled_tokens) /\ AreCounts(p.num_scheduled_tokens)
      /\ \A q \in Req : q # r => p.num_scheduled_tokens[q] = o.num_scheduled_tokens[q]
      /\ call'.token_budget = y - n
  BY <1>1 DEF JoinsCall
<1>3. p.num_scheduled_tokens[r] = o.num_scheduled_tokens[r] + n
  BY <1>2
<1>4. /\ total_num_scheduled_tokens(p) = total_num_scheduled_tokens(o) + n
      /\ total_num_scheduled_tokens(o) \in Nat
  BY <1>2, <1>3, TotalGrows
<1>5. y \in Nat
  BY <1>1 DEF EngineInv, OutsOK
<1>6. PICK a, b : a = total_num_scheduled_tokens(o) /\ b = total_num_scheduled_tokens(p)
  OBVIOUS
<1>7. b = a + n /\ a \in Nat /\ a + y = MaxNumScheduledTokens
  BY <1>1, <1>4, <1>6
<1>8. b + (y - n) = MaxNumScheduledTokens
  BY <1>2, <1>5, <1>7
<1> QED
  BY <1>1, <1>2, <1>6, <1>8

LEMMA LimitsNext ==
  ASSUME Modelled, QueueInv, EngineInv, LimitsInv, [Steps]_engineVars PROVE LimitsInv'
<1>1. Cardinality(Runners') <= MaxNumRunningReqs
  BY RunnersBounded DEF LimitsInv
<1>2. ASSUME SchedPhase'
      PROVE  total_num_scheduled_tokens(call'.output) + call'.token_budget = MaxNumScheduledTokens
  <2>1. CASE UNCHANGED call
    BY <2>1, <1>2 DEF LimitsInv, SchedPhase
  <2>2. CASE ScheduleRunning
    <3>1. SchedPhase
      BY <2>2 DEF ScheduleRunning, InRunningLoop, SchedPhase
    <3> QED
      BY <2>2, <3>1, RunningJoins, TotalJoins DEF LimitsInv
  <2>3. CASE ScheduleWaiting
    <3>1. SchedPhase
      BY <2>3 DEF ScheduleWaiting, LooksUpHead, ConsidersHead, InWaitingLoop, SchedPhase
    <3> QED
      BY <2>3, <3>1, WaitingJoins, TotalJoins DEF LimitsInv
  <2>4. CASE OtherScheduleSteps
    BY <2>4, OutputStanding DEF OutputStands, LimitsInv
  <2>5. CASE StepSchedules
    <3>1. call'.output = NoOutput /\ call'.token_budget = MaxNumScheduledTokens
      BY <2>5 DEF StepSchedules, BeginSchedule, NoCall
    <3>2. MaxNumScheduledTokens \in Nat
      BY SchedulerAssumption
    <3> QED
      BY <3>1, <3>2, TotalOfNone
  <2>6. CASE UpdateSteps \/ StepDrains \/ StepDispatches \/ ExecuteModel
    BY <2>6, <1>2, NotScheduling
  <2>7. CASE ScheduleSteps
    BY <2>7, <2>2, <2>3, <2>4 DEF ScheduleSteps, OtherScheduleSteps
  <2>8. CASE EngineStep
    BY <2>8, <2>5, <2>6, <2>7 DEF EngineStep
  <2>9. ASSUME NEW r \in Req, AddRequest(r) \/ AbortRequest(r) \/ CompileGrammar(r) PROVE UNCHANGED call
    BY <2>9 DEF AddRequest, add_request, AbortRequest, finish_requests, CompileGrammar, GrammarCompiled
  <2>10. ASSUME NEW k \in Ranks, NEW r \in Req, TransferArrives(k, r) \/ TransferIsRead(k, r)
         PROVE  UNCHANGED call
    BY <2>10 DEF TransferArrives, TransferIsRead, schedulerVars
  <2>11. CASE ResetPrefixCache \/ UNCHANGED engineVars
    BY <2>11, <2>1 DEF ResetPrefixCache, engineVars, schedulerVars
  <2> QED
    BY <2>1, <2>8, <2>9, <2>10, <2>11 DEF Steps
<1> QED
  BY <1>1, <1>2 DEF LimitsInv

-----------------------------------------------------------------------------
\* A running request has tokens to compute, unless they are in flight; and a running
\* request with a LoRA is scheduled before any waiting one is looked at.
InFlight(r) ==
  /\ IsScheduled(r)
  /\ SchedPhase \/ call.phase = "execute" \/ (call.phase = "update" /\ r \in StillToCome)
Behind(r) ==
  req[r].status = "RUNNING" => InFlight(r) \/ req[r].num_computed_tokens < req[r].num_tokens
Seen(r) ==
  req[r].status = "RUNNING" /\ Lora[r] # 0 =>
    /\ call.phase = "running" => IsScheduled(r) \/ r \in StillToCome
    /\ call.phase = "waiting" /\ call.token_budget > 0 => IsScheduled(r)
LorasOf(S) == {Lora[r] : r \in S} \ {0}
LoraInv ==
  /\ \A r \in Req : Behind(r) /\ Seen(r)
  /\ Cardinality(LorasOf(Runners)) <= MaxLoras

LEMMA ScheduleKeepsTokens ==
  ASSUME QueueInv, ScheduleSteps, NEW q \in Req, req[q].status = "RUNNING",
         req'[q].status = "RUNNING"
  PROVE  /\ req'[q].num_computed_tokens = req[q].num_computed_tokens
         /\ req'[q].num_tokens = req[q].num_tokens
<1>1. CASE SkipRunning \/ RunningLoopEnds \/ SkipWaiting \/ WaitingLoopEnds
  BY <1>1 DEF SkipRunning, RunningLoopEnds, SkipWaiting, WaitingLoopEnds
<1>2. CASE ScheduleRunning \/ PreemptLast
  <2>1. InRunningLoop
    BY <1>2 DEF ScheduleRunning, PreemptLast
  <2>2. PICK r, l : /\ r = Current /\ l = running[Len(running)]
                    /\ r \in Req /\ l \in Req
    BY <2>1, RunningIsCurrent
  <2>3. CASE ScheduleRunning
    <3>1. \E n : req' = [req EXCEPT ![r].spec_token_ids = n]
      BY <2>2, <2>3 DEF ScheduleRunning
    <3> QED
      BY <3>1, <2>2 DEF QueueInv, Shapes, ReqFields
  <2>4. CASE PreemptLast
    <3>1. req' = [req EXCEPT ![l].status = "PREEMPTED", ![l].num_computed_tokens = 0]
      BY <2>2, <2>4 DEF PreemptLast
    <3>2. req'[l].status = "PREEMPTED"
      BY <3>1, <2>2 DEF QueueInv, Shapes, ReqFields
    <3>3. q # l
      BY <3>2
    <3> QED
      BY <3>1, <3>3, <2>2 DEF QueueInv, Shapes, ReqFields
  <2> QED
    BY <1>2, <2>3, <2>4
<1>3. CASE SkipLora \/ ScheduleWaiting \/ LoadRemote \/ StopAtWaiting
  <2>1. PICK r : r = Head(waiting)
    OBVIOUS
  <2>2. r \in Req /\ req[r].status \in Waits
    BY <1>3, <2>1, HeadStatus
  <2>3. q # r
    BY <2>2 DEF Waits
  <2>4. \/ \E s, n : req' = [req EXCEPT ![r].status = s, ![r].num_computed_tokens = n]
        \/ \E s : req' = [req EXCEPT ![r].status = s]
    <3>1. CASE SkipLora \/ StopAtWaiting
      <4>1. req' = ReqAtHead(r)
        BY <3>1, <2>1 DEF SkipLora, StopAtWaiting
      <4>2. PICK s, n : s = StatusAtHead(r) /\ n = ComputedAtHead(r)
        OBVIOUS
      <4>3. req' = [req EXCEPT ![r].status = s, ![r].num_computed_tokens = n]
        BY <4>1, <4>2 DEF ReqAtHead
      <4> QED
        BY <4>3
    <3>2. CASE ScheduleWaiting
      BY <3>2, <2>1 DEF ScheduleWaiting
    <3>3. CASE LoadRemote
      BY <3>3, <2>1 DEF LoadRemote
    <3> QED
      BY <1>3, <3>1, <3>2, <3>3
  <2>5. req'[q] = req[q]
    BY <2>2, <2>3, <2>4 DEF QueueInv, Shapes
  <2> QED
    BY <2>5
<1> QED
  BY <1>1, <1>2, <1>3 DEF ScheduleSteps

\* Who is scheduled stays so, and who is admitted is.
LEMMA JoinsScheduled ==
  ASSUME NEW r, NEW n, JoinsCall(r, n)
  PROVE  IsScheduled(r)' /\ \A q \in Req : IsScheduled(q) => IsScheduled(q)'
<1>1. PICK f, g : f = call.output.num_scheduled_tokens /\ g = call'.output.num_scheduled_tokens
  OBVIOUS
<1>2. /\ g[r] = n /\ n \in Nat \ {0} /\ \A q \in Req : q # r => g[q] = f[q]
  BY <1>1 DEF JoinsCall
<1>3. n > 0
  BY <1>2
<1>4. \A q \in Req : f[q] > 0 => g[q] > 0
  BY <1>2, <1>3
<1> QED
  BY <1>1, <1>2, <1>3, <1>4 DEF IsScheduled

LEMMA ScheduledStays ==
  ASSUME QueueInv, EngineInv, Modelled, ScheduleSteps
  PROVE  /\ SchedPhase /\ SchedPhase'
         /\ \A q \in Req : IsScheduled(q) => IsScheduled(q)'
         /\ \A r : r = Current /\ ScheduleRunning => IsScheduled(r)'
         /\ \A r : r = Head(waiting) /\ ScheduleWaiting => IsScheduled(r)'
<1>1. CASE ScheduleRunning
  <2>1. PICK r, n : r = Current /\ JoinsCall(r, n)
    BY <1>1, RunningJoins
  <2>2. IsScheduled(r)' /\ \A q \in Req : IsScheduled(q) => IsScheduled(q)'
    BY <2>1, JoinsScheduled
  <2>3. call.phase = "running" /\ call'.phase = call.phase
    BY <1>1, <2>1 DEF ScheduleRunning, InRunningLoop, JoinsCall
  <2>5. ~ScheduleWaiting
    BY <2>3 DEF ScheduleWaiting, LooksUpHead, ConsidersHead, InWaitingLoop
  <2> QED
    BY <2>1, <2>2, <2>3, <2>5 DEF SchedPhase
<1>2. CASE ScheduleWaiting
  <2>1. PICK r, n : r = Head(waiting) /\ JoinsCall(r, n)
    BY <1>2, WaitingJoins
  <2>2. IsScheduled(r)' /\ \A q \in Req : IsScheduled(q) => IsScheduled(q)'
    BY <2>1, JoinsScheduled
  <2>3. call.phase = "waiting" /\ call'.phase = call.phase
    BY <1>2, <2>1 DEF ScheduleWaiting, LooksUpHead, ConsidersHead, InWaitingLoop, JoinsCall
  <2>5. ~ScheduleRunning
    BY <2>3 DEF ScheduleRunning, InRunningLoop
  <2> QED
    BY <2>1, <2>2, <2>3, <2>5 DEF SchedPhase
<1>3. CASE OtherScheduleSteps /\ ~ScheduleRunning /\ ~ScheduleWaiting
  <2>1. OutputStands /\ SchedPhase /\ SchedPhase'
    BY <1>3, OutputStanding
  <2> QED
    BY <1>3, <2>1 DEF OutputStands, IsScheduled
<1> QED
  BY <1>1, <1>2, <1>3 DEF ScheduleSteps, OtherScheduleSteps

LEMMA BehindSchedule ==
  ASSUME QueueInv, EngineInv, Modelled, ScheduleSteps, [Steps]_engineVars, NEW q \in Req, Behind(q)
  PROVE  Behind(q)'
<1> SUFFICES ASSUME req'[q].status = "RUNNING"
             PROVE  InFlight(q)' \/ req'[q].num_computed_tokens < req'[q].num_tokens
  BY DEF Behind
<1>1. /\ SchedPhase /\ SchedPhase' /\ (IsScheduled(q) => IsScheduled(q)')
      /\ \A r : r = Head(waiting) /\ ScheduleWaiting => IsScheduled(r)'
  BY ScheduledStays
<1>2. CASE req[q].status = "RUNNING"
  <2>1. /\ req'[q].num_computed_tokens = req[q].num_computed_tokens
        /\ req'[q].num_tokens = req[q].num_tokens
    BY <1>2, ScheduleKeepsTokens
  <2>2. IsScheduled(q) \/ req[q].num_computed_tokens < req[q].num_tokens
    BY <1>2 DEF Behind, InFlight
  <2> QED
    BY <2>1, <2>2, <1>1 DEF InFlight
<1>3. CASE req[q].status # "RUNNING"
  <2>1. Admitted(q)
    BY <1>3, OnlyAdmitted
  <2>4. IsScheduled(q)'
    BY <2>1, <1>1 DEF Admitted
  <2> QED
    BY <2>4, <1>1 DEF InFlight
<1> QED
  BY <1>2, <1>3

\* Outside of schedule().
LEMMA BehindIdle ==
  ASSUME QueueInv, call.phase = "idle", [Steps]_engineVars, NEW q \in Req, Behind(q),
         req'[q].status = "RUNNING" =>
           /\ req'[q].num_computed_tokens = req[q].num_computed_tokens
           /\ req'[q].num_tokens = req[q].num_tokens
  PROVE  Behind(q)'
<1> SUFFICES ASSUME req'[q].status = "RUNNING"
             PROVE  req'[q].num_computed_tokens < req'[q].num_tokens
  BY DEF Behind
<1>1. ~InFlight(q)
  BY DEF InFlight, SchedPhase
<1>2. ~Admitted(q)
  BY DEF Admitted, ScheduleWaiting, LooksUpHead, ConsidersHead, InWaitingLoop
<1>3. req[q].status = "RUNNING"
  BY <1>2, OnlyAdmitted
<1> QED
  BY <1>1, <1>3 DEF Behind

LEMMA BehindClient ==
  ASSUME QueueInv, NEW r \in Req, AddRequest(r) \/ AbortRequest(r) \/ CompileGrammar(r), [Steps]_engineVars,
         NEW q \in Req, Behind(q)
  PROVE  Behind(q)'
<1>1. CASE AddRequest(r) \/ AbortRequest(r)
  <2>1. call.phase = "idle" /\ \E s : req' = [req EXCEPT ![r].status = s]
    BY <1>1 DEF AddRequest, add_request, AbortRequest, finish_requests
  <2>2. /\ req'[q].num_computed_tokens = req[q].num_computed_tokens
        /\ req'[q].num_tokens = req[q].num_tokens
    BY <2>1 DEF QueueInv, Shapes, ReqFields
  <2> QED
    BY <2>1, <2>2, BehindIdle
<1>2. CASE CompileGrammar(r)
  <2>1. UNCHANGED <<req, call, running>>
    BY <1>2 DEF CompileGrammar, GrammarCompiled
  <2> QED
    BY <2>1 DEF Behind, InFlight, IsScheduled, SchedPhase, StillToCome
<1> QED
  BY <1>1, <1>2

LEMMA BehindEngine ==
  ASSUME MaxConcurrentBatches = 1, QueueInv, EngineInv, OutputInv, [Steps]_engineVars,
         StepSchedules \/ StepDispatches \/ ExecuteModel, NEW q \in Req, Behind(q)
  PROVE  Behind(q)'
<1>1. CASE StepSchedules
  <2>1. call.phase = "idle" /\ UNCHANGED req
    BY <1>1 DEF StepSchedules
  <2> QED
    BY <2>1, BehindIdle
<1>2. CASE StepDispatches
  <2>1. /\ call.phase = "finish"
        /\ call' = [NoCall EXCEPT !.phase = "execute", !.output = OutputOfCall]
        /\ req' = [r \in Req |-> [req[r] EXCEPT
                 !.num_computed_tokens = @ + call.output.num_scheduled_tokens[r]]]
    BY <1>2 DEF StepDispatches, EndSchedule
  <2>2. PICK f, p : f = call.output.num_scheduled_tokens /\ p = OutputOfCall
    OBVIOUS
  <2>3. p.num_scheduled_tokens = f
    BY <2>2, OutputTells DEF EngineInv, OutsOK
  <2>4. call'.phase = "execute" /\ call'.output = p
    BY <2>1, <2>2 DEF NoCall
  <2>5. (IsScheduled(q) <=> f[q] > 0) /\ (IsScheduled(q)' <=> f[q] > 0)
    BY <2>2, <2>3, <2>4 DEF IsScheduled
  <2>6. CASE f[q] > 0
    BY <2>4, <2>5, <2>6 DEF Behind, InFlight
  <2>7. CASE ~(f[q] > 0)
    <3>1. f[q] = 0
      <4>1. f[q] \in Nat
        BY <2>2 DEF EngineInv, OutsOK, OutputGood
      <4> QED
        BY <4>1, <2>7
    <3>2. /\ req'[q].status = req[q].status /\ req'[q].num_tokens = req[q].num_tokens
          /\ req'[q].num_computed_tokens = req[q].num_computed_tokens + f[q]
      BY <2>1, <2>2 DEF QueueInv, Shapes, ReqFields
    <3>3. req[q].num_computed_tokens \in Nat
      BY DEF EngineInv, Progress, Fits
    <3>4. req'[q].num_computed_tokens = req[q].num_computed_tokens
      BY <3>1, <3>2, <3>3
    <3> QED
      BY <3>2, <3>4, <2>5, <2>7 DEF Behind, InFlight
  <2> QED
    BY <2>6, <2>7
<1>3. CASE ExecuteModel
  <2>1. /\ UNCHANGED <<req, running>> /\ call.phase = "execute"
        /\ \E a, b : call' = [BeginUpdate(call.output) EXCEPT !.finished_recving = a,
                                                             !.finished_sending = b]
    BY <1>3 DEF ExecuteModel
  <2>2. call'.phase = "update" /\ call'.output = call.output /\ call'.req_index = 1
    BY <2>1 DEF BeginUpdate, NoCall
  <2> SUFFICES ASSUME req'[q].status = "RUNNING"
               PROVE  InFlight(q)' \/ req'[q].num_computed_tokens < req'[q].num_tokens
    BY DEF Behind
  <2>3. q \in StillToCome'
    <3>1. q \in Members(running)
      BY <2>1, RunningNow
    <3>2. StillToCome' = {running[j] : j \in 1..Len(running)}
      BY <2>1, <2>2 DEF StillToCome
    <3>3. DOMAIN running = 1..Len(running)
      BY DEF QueueInv, Control
    <3> QED
      BY <3>1, <3>2, <3>3 DEF Members
  <2>4. IsScheduled(q)' <=> IsScheduled(q)
    BY <2>2 DEF IsScheduled
  <2> QED
    BY <2>1, <2>2, <2>3, <2>4 DEF Behind, InFlight
<1> QED
  BY <1>1, <1>2, <1>3

\* update_from_output: what is left behind of the tokens in flight is less than what the
\* request has, since a token is sampled as soon as all are computed.
LEMMA BehindContinues ==
  ASSUME QueueInv, EngineInv, OutputInv, InUpdateLoop, NEW r, r = Current, IsScheduled(r),
         NEW g \in Generated(call.output, r), NEW x, x = ComputedAfter(r, g)
  PROVE  x < req[r].num_tokens + g
<1>1. PICK nt, nc, d, l, c, o :
        /\ nt = req[r].num_tokens /\ nc = req[r].num_computed_tokens
        /\ d = call.output.spec[r] /\ l = kvm.req_to_blocks[r] /\ c = kvm.num_cached_block[r]
        /\ o = call.output
  OBVIOUS
<1>2. /\ r \in Req /\ nt \in 1..LengthCap(r) /\ nc \in Nat /\ d \in Nat /\ c \in Nat
      /\ RunsWell(nt, nc, d, l, c)
      /\ d > 0 => Samples(o, r)
  BY <1>1, CurrentInFlight
<1>3. LengthCap(r) \in Nat /\ nt \in Nat /\ nc - d <= nt
  BY <1>2, CapBounds DEF RunsWell
<1>4. x = IF d > 0 THEN nc - (d + 1 - g) ELSE nc
  BY <1>1, <1>2 DEF ComputedAfter, Rejected
<1>5. CASE Samples(o, r)
  <2>1. g \in 1..(1 + d)
    BY <1>1, <1>5 DEF Generated
  <2> QED
    BY <2>1, <1>1, <1>2, <1>3, <1>4
<1>6. CASE ~Samples(o, r)
  <2>1. g = 0 /\ ~(d > 0)
    BY <1>1, <1>2, <1>6 DEF Generated
  <2>2. r \in StillToCome /\ call.phase = "update"
    BY CurrentIsNotToCome DEF InUpdateLoop
  <2>3. Advanced(r)
    BY <2>2 DEF OutputInv, OutputRecords
  <2>4. PICK a, b, e : a = o.num_computed_tokens[r] /\ b = o.num_scheduled_tokens[r] /\ e = o.num_tokens[r]
    OBVIOUS
  <2>5. nc = a + b /\ nt = e /\ ~(a + b >= e)
    BY <2>3, <2>4, <1>1, <1>6 DEF Advanced, Samples
  <2>6. nc < nt
    BY <2>5, <1>2, <1>3
  <2> QED
    BY <2>1, <2>6, <1>1, <1>3, <1>4
<1> QED
  BY <1>5, <1>6

LEMMA BehindUpdate ==
  ASSUME QueueInv, EngineInv, OutputInv, UpdateSteps, [Steps]_engineVars, NEW q \in Req, Behind(q)
  PROVE  Behind(q)'
<1> SUFFICES ASSUME req'[q].status = "RUNNING"
             PROVE  InFlight(q)' \/ req'[q].num_computed_tokens < req'[q].num_tokens
  BY DEF Behind
<1>0. call.phase = "update" /\ DOMAIN call = CallFields
  BY DEF UpdateSteps, KeepUnscheduled, UpdateScheduled, EndUpdate, InUpdateLoop, QueueInv, Shapes
<1>1. req[q].status = "RUNNING"
  <2>1. ~Admitted(q)
    BY <1>0 DEF Admitted, ScheduleWaiting, LooksUpHead, ConsidersHead, InWaitingLoop
  <2> QED
    BY <2>1, OnlyAdmitted
<1>2. CASE EndUpdate
  <2>1. UNCHANGED req /\ ~InUpdateLoop
    BY <1>2 DEF EndUpdate
  <2>2. StillToCome = {}
    <3>1. call.req_index \in Nat /\ Len(running) \in Nat /\ ~(call.req_index <= Len(running))
      BY <2>1, <1>0 DEF InUpdateLoop, QueueInv, Control
    <3>2. call.req_index..Len(running) = {}
      BY <3>1
    <3> QED
      BY <3>2 DEF StillToCome
  <2>3. ~InFlight(q)
    BY <2>2, <1>0 DEF InFlight, SchedPhase
  <2> QED
    BY <2>1, <2>3, <1>1 DEF Behind
<1>3. ASSUME InUpdateLoop, running' = running, call'.req_index = call.req_index + 1,
             call'.phase = "update", call'.output = call.output, q # Current, req'[q] = req[q]
      PROVE  InFlight(q)' \/ req'[q].num_computed_tokens < req'[q].num_tokens
  <2>1. StillToCome' = StillToCome \ {Current}
    BY <1>3, OthersToCome
  <2>2. InFlight(q) => InFlight(q)'
    BY <1>0, <1>3, <2>1 DEF InFlight, IsScheduled, SchedPhase
  <2> QED
    BY <1>1, <1>3, <2>2 DEF Behind
<1>4. CASE KeepUnscheduled
  <2>1. /\ InUpdateLoop /\ UNCHANGED <<req, running>>
        /\ call.output.num_scheduled_tokens[Current] = 0
        /\ call' = [call EXCEPT !.req_index = @ + 1, !.new_running = Append(@, Current)]
    BY <1>4 DEF KeepUnscheduled
  <2>2. call'.req_index = call.req_index + 1 /\ call'.phase = "update" /\ call'.output = call.output
    BY <2>1, <1>0 DEF CallFields
  <2>3. CASE q = Current
    BY <2>1, <2>3, <1>1 DEF Behind, InFlight, IsScheduled
  <2>4. CASE q # Current
    BY <2>1, <2>2, <2>4, <1>3
  <2> QED
    BY <2>3, <2>4
<1>5. CASE UpdateScheduled
  <2>1. PICK r : r = Current
    OBVIOUS
  <2>2. InUpdateLoop /\ IsScheduled(r) /\ r \in Req
    BY <1>5, <2>1, CurrentRuns DEF UpdateScheduled, IsScheduled
  <2>3. PICK g \in Generated(call.output, r) :
           \/ \E d \in 0..NumSpecTokens : UpdateContinues(r, g, d)
           \/ UpdateStops(r, g)
    BY <1>5, <2>1 DEF UpdateScheduled
  <2>4. PICK x, y : x = ComputedAfter(r, g) /\ y = req[r].num_tokens + g
    OBVIOUS
  <2>5. CASE \E d \in 0..NumSpecTokens : UpdateContinues(r, g, d)
    <3>1. PICK d : /\ req' = [req EXCEPT ![r].num_tokens = y, ![r].num_computed_tokens = x,
                                         ![r].spec_token_ids = d]
                   /\ call' = [call EXCEPT !.req_index = @ + 1, !.new_running = Append(@, r)]
                   /\ running' = running
      BY <2>4, <2>5 DEF UpdateContinues
    <3>2. call'.req_index = call.req_index + 1 /\ call'.phase = "update" /\ call'.output = call.output
      BY <3>1, <1>0 DEF CallFields
    <3>3. CASE q = r
      <4>1. req'[r].num_computed_tokens = x /\ req'[r].num_tokens = y
        BY <3>1, <2>2 DEF QueueInv, Shapes, ReqFields
      <4>2. x < y
        BY <2>1, <2>2, <2>4, BehindContinues
      <4> QED
        BY <4>1, <4>2, <3>3
    <3>4. CASE q # r
      <4>1. req'[q] = req[q]
        BY <3>1, <3>4 DEF QueueInv, Shapes
      <4> QED
        BY <4>1, <3>1, <3>2, <3>4, <2>1, <2>2, <1>3
    <3> QED
      BY <3>3, <3>4
  <2>6. CASE UpdateStops(r, g)
    <3>1. PICK n : /\ req' = [req EXCEPT ![r].status = "FINISHED", ![r].num_tokens = @ + n,
                                         ![r].num_computed_tokens = x]
                   /\ call' = [call EXCEPT !.req_index = @ + 1]
                   /\ running' = running
      BY <2>4, <2>6 DEF UpdateStops
    <3>2. call'.req_index = call.req_index + 1 /\ call'.phase = "update" /\ call'.output = call.output
      BY <3>1, <1>0 DEF CallFields
    <3>3. req'[r].status = "FINISHED"
      BY <3>1, <2>2 DEF QueueInv, Shapes, ReqFields
    <3>4. q # r
      BY <3>3
    <3>5. req'[q] = req[q]
      BY <3>1, <3>4 DEF QueueInv, Shapes
    <3> QED
      BY <3>1, <3>2, <3>4, <3>5, <2>1, <2>2, <1>3
  <2> QED
    BY <2>3, <2>5, <2>6
<1> QED
  BY <1>2, <1>4, <1>5 DEF UpdateSteps

\* A running request with a LoRA that is looked at is scheduled: no encoder input holds
\* it back.
LEMMA AllTokensPlanned ==
  ASSUME NEW e, NEW r \in Req, NEW computed, NEW n, NEW budget, EncoderInputs[r] = << >>
  PROVE  try_schedule_encoder_inputs(e, r, computed, n, budget).num_new_tokens = n
<1> DEFINE needed == needed_inputs(e, r, computed, n)
           partial(i) == /\ DisableChunkedMMInput
                         /\ computed < StartOf(r, i)
                         /\ computed + n < EndOf(r, i)
           upto(i) == TokensOfInputs(InputsOf(r, {j \in needed : j <= i}))
           stops == {i \in needed : partial(i) \/ ~can_allocate(e, r, i) \/ upto(i) > budget}
<1>1. stops \subseteq needed_inputs(e, r, computed, n)
  BY Zenon
<1>2. try_schedule_encoder_inputs(e, r, computed, n, budget).num_new_tokens
        = IF stops = {} THEN n
          ELSE IF computed < StartOf(r, Min(stops)) THEN StartOf(r, Min(stops)) - computed
          ELSE 0
  BY DEF try_schedule_encoder_inputs
<1> HIDE DEF stops
<1>3. needed_inputs(e, r, computed, n) \subseteq DOMAIN EncoderInputs[r]
  BY DEF needed_inputs
<1>4. DOMAIN EncoderInputs[r] = {}
  BY InputsAre
<1> QED
  BY <1>1, <1>2, <1>3, <1>4

LoraHasNoInputs == \A r \in Req : Lora[r] # 0 => EncoderInputs[r] = << >>

LEMMA LoraIsScheduled ==
  ASSUME LoraHasNoInputs, QueueInv, EngineInv, InRunningLoop, Behind(Current), Lora[Current] # 0
  PROVE  NewTokensOfRunning(Current) # 0
<1>1. PICK r, nt, nc, st, b, x : /\ r = Current /\ nt = req[r].num_tokens
                                 /\ nc = req[r].num_computed_tokens /\ st = req[r].spec_token_ids
                                 /\ b = call.token_budget /\ x = num_tokens_with_spec(r)
  OBVIOUS
<1>2. /\ r \in Req /\ req[r].status = "RUNNING" /\ call.output.num_scheduled_tokens[r] = 0
  BY <1>1, CurrentToRun
<1>3. nt \in 1..LengthCap(r) /\ nc \in Nat /\ st \in 0..NumSpecTokens /\ b \in Nat
  BY <1>1, PlanToRun
<1>4. LengthCap(r) \in Nat /\ LengthCap(r) <= MaxModelLen /\ MaxModelLen \in Nat /\ NumSpecTokens \in Nat
  BY <1>2, CapBounds
<1>5. nc < nt
  BY <1>1, <1>2 DEF Behind, InFlight, IsScheduled
<1>6. x = nt + st
  BY <1>1 DEF num_tokens_with_spec
<1>7. PICK m : m = AtMost(AtMost(Threshold(x - nc), b), MaxModelLen - nc)
  OBVIOUS
<1>8. b > 0
  BY <1>1 DEF InRunningLoop
<1>9. m # 0
  <2>1. PICK y, z : y = x - nc /\ z = MaxModelLen - nc
    OBVIOUS
  <2>2. y \in Nat \ {0} /\ z \in Nat \ {0} /\ b \in Nat \ {0}
    BY <2>1, <1>3, <1>4, <1>5, <1>6, <1>8
  <2> QED
    BY <2>1, <2>2, <1>7, SchedulerAssumption DEF AtMost, Threshold
<1>10. NewTokensOfRunning(r)
         = try_schedule_encoder_inputs(enc, r, nc, m, call.encoder_budget).num_new_tokens
  BY <1>1, <1>7, PlanIs
<1>11. EncoderInputs[r] = << >>
  BY <1>1, <1>2 DEF LoraHasNoInputs
<1>12. NewTokensOfRunning(r) = m
  BY <1>2, <1>10, <1>11, AllTokensPlanned
<1> QED
  BY <1>1, <1>9, <1>12

\* The loop over the running requests goes on to the next.
LEMMA OthersToRun ==
  ASSUME QueueInv, InRunningLoop, running' = running, call'.req_index = call.req_index + 1
  PROVE  StillToCome \ {Current} \subseteq StillToCome'
<1>1. PICK s, i, n, r : s = running /\ i = call.req_index /\ n = Len(s) /\ r = Current
  OBVIOUS
<1>2. i \in Nat /\ n \in Nat /\ r = s[i]
  BY <1>1 DEF QueueInv, Control, Current
<1>3. StillToCome' = {s[j] : j \in (i + 1)..n} /\ StillToCome = {s[j] : j \in i..n}
  BY <1>1 DEF StillToCome
<1>4. \A j \in i..n : j = i \/ j \in (i + 1)..n
  BY <1>2
<1> QED
  BY <1>1, <1>2, <1>3, <1>4
LEMMA OthersRemain ==
  ASSUME QueueInv, InRunningLoop, running' = Front(running), call'.req_index = call.req_index
  PROVE  StillToCome \ {running[Len(running)]} \subseteq StillToCome'
<1>1. PICK s, i, n, r : s = running /\ i = call.req_index /\ n = Len(s) /\ r = s[n]
  OBVIOUS
<1>2. s \in Seq(Req) /\ i \in Nat \ {0} /\ i <= n /\ n \in Nat
  BY <1>1 DEF QueueInv, Control, InRunningLoop
<1>3. PICK f : f = Front(s)
  OBVIOUS
<1>4. Len(f) = n - 1 /\ \A j \in 1..(n - 1) : f[j] = s[j]
  BY <1>1, <1>2, <1>3 DEF Front
<1>5. \A j \in i..n : j = n \/ (j \in i..(n - 1) /\ f[j] = s[j])
  BY <1>2, <1>4
<1>6. StillToCome' = {f[j] : j \in i..(n - 1)} /\ StillToCome = {s[j] : j \in i..n}
  BY <1>1, <1>3, <1>4 DEF StillToCome
<1> QED
  BY <1>1, <1>5, <1>6

LEMMA SeenSchedule ==
  ASSUME LoraHasNoInputs, Modelled, QueueInv, EngineInv, ScheduleSteps, [Steps]_engineVars,
         NEW q \in Req, Behind(q), Seen(q)
  PROVE  Seen(q)'
<1> SUFFICES ASSUME req'[q].status = "RUNNING", Lora[q] # 0
             PROVE  /\ call'.phase = "running" => IsScheduled(q)' \/ q \in StillToCome'
                    /\ call'.phase = "waiting" /\ call'.token_budget > 0 => IsScheduled(q)'
  BY DEF Seen
<1>0. DOMAIN call = CallFields
  BY DEF QueueInv, Shapes
<1>1. /\ IsScheduled(q) => IsScheduled(q)'
      /\ \A r : r = Current /\ ScheduleRunning => IsScheduled(r)'
      /\ \A r : r = Head(waiting) /\ ScheduleWaiting => IsScheduled(r)'
  BY ScheduledStays
<1>2. req[q].status = "RUNNING" \/ Admitted(q)
  BY OnlyAdmitted
<1>3. CASE Admitted(q)
  BY <1>1, <1>3 DEF Admitted
<1>4. CASE req[q].status = "RUNNING"
  <2>1. /\ call.phase = "running" => IsScheduled(q) \/ q \in StillToCome
        /\ call.phase = "waiting" /\ call.token_budget > 0 => IsScheduled(q)
    BY <1>4 DEF Seen
  <2>2. CASE SkipRunning
    <3>1. /\ InRunningLoop /\ running' = running /\ call' = [call EXCEPT !.req_index = @ + 1]
          /\ NewTokensOfRunning(Current) = 0
      BY <2>2 DEF SkipRunning
    <3>2. call'.req_index = call.req_index + 1 /\ call'.phase = "running" /\ call.phase = "running"
      BY <3>1, <1>0 DEF CallFields, InRunningLoop
    <3>3. q # Current
      BY <3>1, LoraIsScheduled
    <3>4. StillToCome \ {Current} \subseteq StillToCome'
      BY <3>1, <3>2, OthersToRun
    <3> QED
      BY <3>2, <3>3, <3>4, <2>1, <1>1
  <2>3. CASE ScheduleRunning
    <3>1. /\ InRunningLoop /\ running' = running
      BY <2>3 DEF ScheduleRunning
    <3>2. call'.req_index = call.req_index + 1 /\ call'.phase = "running" /\ call.phase = "running"
      BY <3>1, <2>3, RunningJoins DEF InRunningLoop, JoinsCall
    <3>3. StillToCome \ {Current} \subseteq StillToCome'
      BY <3>1, <3>2, OthersToRun
    <3>4. q = Current => IsScheduled(q)'
      BY <2>3, <1>1
    <3> QED
      BY <3>2, <3>3, <3>4, <2>1, <1>1
  <2>4. CASE PreemptLast
    <3>1. PICK l : l = running[Len(running)]
      OBVIOUS
    <3>2. /\ InRunningLoop /\ running' = Front(running)
          /\ req' = [req EXCEPT ![l].status = "PREEMPTED", ![l].num_computed_tokens = 0]
          /\ \E a, b : b \in {"finish", call.phase} /\ call' = [call EXCEPT !.preempted = a, !.phase = b]
      BY <2>4, <3>1 DEF PreemptLast
    <3>3. /\ call'.req_index = call.req_index /\ call'.phase \in {"finish", "running"}
          /\ call.phase = "running"
      BY <3>2, <1>0 DEF CallFields, InRunningLoop
    <3>4. StillToCome \ {l} \subseteq StillToCome'
      BY <3>1, <3>2, <3>3, OthersRemain
    <3>5. l \in Req
      BY <3>1, <3>2, RunningIsCurrent
    <3>6. req'[l].status = "PREEMPTED"
      BY <3>2, <3>5 DEF QueueInv, Shapes, ReqFields
    <3>7. q # l
      BY <3>6
    <3> QED
      BY <3>3, <3>4, <3>7, <2>1, <1>1
  <2>5. CASE RunningLoopEnds
    <3>1. /\ call.phase = "running" /\ ~InRunningLoop /\ running' = running
          /\ \E b \in {"finish", "waiting"} : call' = [call EXCEPT !.phase = b]
      BY <2>5 DEF RunningLoopEnds
    <3>2. call'.phase # "running" /\ call'.token_budget = call.token_budget
      BY <3>1, <1>0 DEF CallFields
    <3>3. ASSUME call'.token_budget > 0 PROVE StillToCome = {}
      <4>1. call.req_index \in Nat /\ Len(running) \in Nat /\ ~(call.req_index <= Len(running))
        BY <3>1, <3>2, <3>3 DEF InRunningLoop, QueueInv, Control
      <4>2. call.req_index..Len(running) = {}
        BY <4>1
      <4> QED
        BY <4>2 DEF StillToCome
    <3> QED
      BY <3>1, <3>2, <3>3, <2>1, <1>1
  <2>6. CASE SkipWaiting \/ SkipLora \/ LoadRemote \/ StopAtWaiting \/ WaitingLoopEnds
    <3>1. OtherScheduleSteps /\ call.phase = "waiting"
      BY <2>6 DEF OtherScheduleSteps, SkipWaiting, SkipLora, LoadRemote, StopAtWaiting,
                  WaitingLoopEnds, LooksUpHead, ConsidersHead, InWaitingLoop
    <3>2. call'.token_budget = call.token_budget
      BY <3>1, OutputStanding DEF OutputStands
    <3>3. call'.phase # "running"
      <4>1. CASE SkipWaiting \/ SkipLora \/ LoadRemote
        BY <4>1, <3>1, <1>0 DEF SkipWaiting, SkipLora, LoadRemote, CallFields
      <4>2. CASE StopAtWaiting \/ WaitingLoopEnds
        BY <4>2, <3>1, <1>0 DEF StopAtWaiting, WaitingLoopEnds, CallFields
      <4> QED
        BY <2>6, <4>1, <4>2
    <3> QED
      BY <3>1, <3>2, <3>3, <2>1, <1>1
  <2>7. CASE ScheduleWaiting
    <3>1. call.phase = "waiting" /\ call.token_budget > 0
      BY <2>7 DEF ScheduleWaiting, LooksUpHead, ConsidersHead, InWaitingLoop
    <3> QED
      BY <3>1, <2>1, <1>1, <2>7, WaitingJoins DEF JoinsCall
  <2> QED
    BY <2>2, <2>3, <2>4, <2>5, <2>6, <2>7 DEF ScheduleSteps
<1> QED
  BY <1>2, <1>3, <1>4

LEMMA LorasFinite ==
  ASSUME NEW S, S \subseteq Req PROVE IsFiniteSet(LorasOf(S)) /\ Cardinality(LorasOf(S)) \in Nat
<1>1. IsFiniteSet(S)
  BY ManagerAssumption, FS_Subset
<1>2. PICK T, f : T = {Lora[r] : r \in S} /\ f = [r \in S |-> Lora[r]]
  OBVIOUS
<1>3. f \in Surjection(S, T)
  BY <1>2 DEF Surjection
<1>4. IsFiniteSet(T)
  BY <1>1, <1>3, FS_Surjection
<1>5. LorasOf(S) \in SUBSET T
  BY <1>2 DEF LorasOf
<1> QED
  BY <1>4, <1>5, FS_Subset, FS_CardinalityType

LEMMA LorasBounded ==
  ASSUME QueueInv, EngineInv, [Steps]_engineVars, \A r \in Req : Seen(r),
         Cardinality(LorasOf(Runners)) <= MaxLoras
  PROVE  Cardinality(LorasOf(Runners')) <= MaxLoras
<1>1. PICK S, T, h, A, B, x : /\ S = Runners /\ T = Runners' /\ h = Head(waiting)
                              /\ A = LorasOf(S) /\ B = LorasOf(T) /\ x = Lora[h]
  OBVIOUS
<1>2. IsFiniteSet(A) /\ Cardinality(A) \in Nat /\ Cardinality(A) <= MaxLoras
  BY <1>1, LorasFinite DEF Runners
<1>3. MaxLoras \in Nat
  BY SchedulerAssumption
<1>4. \A q \in T : q \in Req /\ req'[q].status = "RUNNING"
  BY <1>1 DEF Runners
<1>5. \A q \in T : q \in S \/ Admitted(q)
  BY <1>1, <1>4, OnlyAdmitted DEF Runners
<1>6. CASE ~ScheduleWaiting
  <2>1. T \subseteq S
    BY <1>5, <1>6 DEF Admitted
  <2>2. B \subseteq A
    BY <2>1, <1>1 DEF LorasOf
  <2>3. B \subseteq A \cup {x}
    BY <2>2
  <2>4. Cardinality(B) \in Nat /\ Cardinality(B) <= Cardinality(A)
    BY <2>2, <2>3, <1>2, OneMoreAtMost
  <2>5. Cardinality(B) <= MaxLoras
    BY <2>4, <1>2, <1>3
  <2> QED
    BY <2>5, <1>1
<1>7. CASE ScheduleWaiting
  <2>1. InWaitingLoop /\ ~ExceedsLoras(h)
    BY <1>1, <1>7 DEF ScheduleWaiting, LooksUpHead, ConsidersHead
  <2>2. T \subseteq S \cup {h}
    BY <1>1, <1>5 DEF Admitted
  <2>3. scheduled_loras = A
    <3>1. PICK f : f = call.output.num_scheduled_tokens
      OBVIOUS
    <3>2. \A r \in Req : req[r].status # "RUNNING" => ~(f[r] > 0)
      BY <2>1, <3>1 DEF EngineInv, OutsOK, SchedPhase, InWaitingLoop
    <3>3. \A r \in Req : req[r].status = "RUNNING" /\ Lora[r] # 0 => f[r] > 0
      BY <2>1, <3>1 DEF Seen, IsScheduled, InWaitingLoop
    <3>4. scheduled_loras = {Lora[r] : r \in {q \in Req : f[q] > 0}} \ {0}
      BY <3>1 DEF scheduled_loras
    <3>5. A = {Lora[r] : r \in {q \in Req : req[q].status = "RUNNING"}} \ {0}
      BY <1>1 DEF LorasOf, Runners
    <3> QED
      BY <3>2, <3>3, <3>4, <3>5
  <2>4. x = 0 \/ x \in A \/ Cardinality(A) # MaxLoras
    BY <2>1, <2>3, <1>1 DEF ExceedsLoras
  <2>5. B \subseteq A \cup {x} /\ 0 \notin B
    BY <2>2, <1>1 DEF LorasOf
  <2>6. /\ Cardinality(B) \in Nat /\ Cardinality(B) <= Cardinality(A) + 1
        /\ B \subseteq A => Cardinality(B) <= Cardinality(A)
    BY <2>5, <1>2, OneMoreAtMost
  <2>7. CASE x = 0 \/ x \in A
    <3>1. B \subseteq A
      BY <2>5, <2>7
    <3> QED
      BY <3>1, <2>6, <1>1, <1>2, <1>3
  <2>8. CASE Cardinality(A) # MaxLoras
    BY <2>6, <2>8, <1>1, <1>2, <1>3
  <2> QED
    BY <2>4, <2>7, <2>8
<1> QED
  BY <1>6, <1>7

LEMMA SeenElsewhere ==
  ASSUME QueueInv, NEW q \in Req, call'.phase \notin {"running", "waiting"} PROVE Seen(q)'
  BY DEF Seen

LEMMA LoraUnmoved ==
  ASSUME UNCHANGED <<req, running, call>>, NEW q \in Req, Behind(q), Seen(q)
  PROVE  Behind(q)' /\ Seen(q)'
<1>1. /\ StillToCome' = StillToCome /\ (SchedPhase' <=> SchedPhase)
      /\ IsScheduled(q)' <=> IsScheduled(q)
  BY DEF StillToCome, SchedPhase, IsScheduled
<1> QED
  BY <1>1 DEF Behind, Seen, InFlight

LEMMA LoraNext ==
  ASSUME MaxConcurrentBatches = 1, LoraHasNoInputs, Modelled, QueueInv, EngineInv, OutputInv,
         LoraInv, [Steps]_engineVars
  PROVE  LoraInv'
<1>1. ASSUME NEW q \in Req PROVE Behind(q)' /\ Seen(q)'
  <2>1. Behind(q) /\ Seen(q)
    BY DEF LoraInv
  <2>2. ASSUME NEW r \in Req, AddRequest(r) \/ AbortRequest(r) \/ CompileGrammar(r)
        PROVE  Behind(q)' /\ Seen(q)'
    <3>1. Behind(q)'
      BY <2>1, <2>2, BehindClient
    <3>2. CASE AddRequest(r) \/ AbortRequest(r)
      <4>1. call'.phase = "idle"
        BY <3>2 DEF AddRequest, AbortRequest, add_request, finish_requests
      <4> QED
        BY <4>1, <3>1, SeenElsewhere
    <3>3. CASE CompileGrammar(r)
      <4>1. UNCHANGED <<req, running, call>>
        BY <3>3 DEF CompileGrammar, GrammarCompiled
      <4> QED
        BY <4>1, <2>1, LoraUnmoved
    <3> QED
      BY <2>2, <3>2, <3>3
  <2>3. ASSUME NEW k \in Ranks, NEW r \in Req, TransferArrives(k, r) \/ TransferIsRead(k, r)
        PROVE  Behind(q)' /\ Seen(q)'
    BY <2>1, <2>3, LoraUnmoved DEF TransferArrives, TransferIsRead, schedulerVars
  <2>4. CASE ResetPrefixCache \/ UNCHANGED engineVars
    BY <2>1, <2>4, LoraUnmoved DEF ResetPrefixCache, engineVars, schedulerVars
  <2>5. CASE StepSchedules
    <3>1. /\ call.phase = "idle" /\ UNCHANGED <<req, running>> /\ call'.phase = "running"
          /\ call'.req_index = 1
      BY <2>5 DEF StepSchedules, BeginSchedule, NoCall
    <3>2. req[q].status = "RUNNING" => q \in StillToCome'
      <4>1. req[q].status = "RUNNING" => q \in Members(running)
        BY <3>1, RunningNow
      <4>2. StillToCome' = {running[j] : j \in 1..Len(running)}
        BY <3>1 DEF StillToCome
      <4>3. DOMAIN running = 1..Len(running)
        BY DEF QueueInv, Control
      <4> QED
        BY <4>1, <4>2, <4>3 DEF Members
    <3>3. Seen(q)'
      BY <3>1, <3>2 DEF Seen
    <3> QED
      BY <3>3, <2>1, <2>5, BehindEngine
  <2>6. CASE StepDrains
    BY <2>6 DEF StepDrains, BatchQueueFull
  <2>7. CASE StepDispatches \/ ExecuteModel
    <3>1. call'.phase \notin {"running", "waiting"}
      BY <2>7, NotScheduling DEF SchedPhase
    <3> QED
      BY <3>1, <2>1, <2>7, BehindEngine, SeenElsewhere
  <2>8. CASE ScheduleSteps
    BY <2>1, <2>8, BehindSchedule, SeenSchedule
  <2>9. CASE UpdateSteps
    <3>1. call'.phase \notin {"running", "waiting"}
      BY <2>9, NotScheduling DEF SchedPhase
    <3> QED
      BY <3>1, <2>1, <2>9, BehindUpdate, SeenElsewhere
  <2>10. CASE EngineStep
    BY <2>10, <2>5, <2>6, <2>7, <2>8, <2>9 DEF EngineStep
  <2> QED
    BY <2>2, <2>3, <2>4, <2>10 DEF Steps
<1>2. Cardinality(LorasOf(Runners')) <= MaxLoras
  BY LorasBounded DEF LoraInv
<1> QED
  BY <1>1, <1>2 DEF LoraInv

LEMMA LimitsInit == Init => LimitsInv /\ LoraInv
<1> SUFFICES ASSUME Init PROVE LimitsInv /\ LoraInv
  OBVIOUS
<1>1. call = NoCall /\ \A r \in Req : req[r].status = "NEW"
  BY DEF Init, SchedulerInit
<1>2. ~SchedPhase
  BY <1>1 DEF NoCall, SchedPhase
<1>3. Runners = {}
  BY <1>1 DEF Runners
<1>4. LorasOf(Runners) = {}
  BY <1>3 DEF LorasOf
<1>5. Cardinality({}) = 0
  BY FS_EmptySet
<1>6. \A r \in Req : Behind(r) /\ Seen(r)
  BY <1>1 DEF Behind, Seen
<1>7. 0 <= MaxNumRunningReqs /\ 0 <= MaxLoras
  BY SchedulerAssumption
<1>8. Cardinality(Runners) = 0 /\ Cardinality(LorasOf(Runners)) = 0
  BY <1>3, <1>4, <1>5
<1> QED
  BY <1>2, <1>6, <1>7, <1>8 DEF LimitsInv, LoraInv

\* The LoRA limit holds when no more LoRAs than it allows are served, and in the engine
\* that runs one batch at a time when no request with a LoRA has encoder inputs.
LorasKept ==
  \/ Cardinality(LorasOf(Req)) <= MaxLoras
  \/ MaxConcurrentBatches = 1 /\ LoraHasNoInputs

LEMMA LimitsHold ==
  ASSUME QueueInv, EngineInv, LimitsInv,
         Cardinality(LorasOf(Req)) <= MaxLoras \/ Cardinality(LorasOf(Runners)) <= MaxLoras
  PROVE  ScheduleWithinLimits
<1> SUFFICES ASSUME SchedPhase
             PROVE  /\ call.token_budget >= 0 /\ Len(running) <= MaxNumRunningReqs
                    /\ \A r \in Req : call.output.num_scheduled_tokens[r] > 0 => req[r].status = "RUNNING"
                    /\ Cardinality(scheduled_loras) <= MaxLoras
  BY DEF ScheduleWithinLimits, SchedPhase, LimitsInv
<1>1. call.token_budget \in Nat
  BY DEF EngineInv, OutsOK
<1>2. Len(running) <= MaxNumRunningReqs
  BY RunnersAreRunning DEF SchedPhase, LimitsInv
<1>3. \A r \in Req : call.output.num_scheduled_tokens[r] > 0 => req[r].status = "RUNNING"
  BY DEF EngineInv, OutsOK
<1>4. Cardinality(scheduled_loras) <= MaxLoras
  <2>1. PICK S \in SUBSET Req : /\ Cardinality(LorasOf(S)) <= MaxLoras /\ Runners \subseteq S
    BY DEF Runners
  <2>2. PICK A, B : A = LorasOf(S) /\ B = scheduled_loras
    OBVIOUS
  <2>3. B \in SUBSET A
    BY <2>1, <2>2, <1>3 DEF scheduled_loras, LorasOf, Runners
  <2>4. IsFiniteSet(A) /\ Cardinality(A) \in Nat
    BY <2>2, LorasFinite
  <2>5. IsFiniteSet(B) /\ Cardinality(B) <= Cardinality(A)
    BY <2>3, <2>4, FS_Subset
  <2>6. Cardinality(B) \in Nat /\ MaxLoras \in Nat
    BY <2>5, FS_CardinalityType, SchedulerAssumption
  <2> QED
    BY <2>1, <2>2, <2>4, <2>5, <2>6
<1>5. call.token_budget >= 0
  BY <1>1
<1> QED
  BY <1>2, <1>3, <1>4, <1>5

\* The assertions of schedule() hold in every state of the loops: the tokens handed out
\* and the budget left are max_num_scheduled_tokens, no more requests run than may, what
\* is scheduled runs, and no more LoRAs are used than fit.
THEOREM LimitsAreKept ==
  ASSUME Modelled, LorasKept PROVE Spec => []ScheduleWithinLimits
<1>1. Spec => [](QueueInv /\ TransferInv /\ EngineInv)
  BY EngineInvariant
<1>2. Init => LimitsInv
  BY LimitsInit
<1>3. (QueueInv /\ TransferInv /\ EngineInv) /\ LimitsInv /\ [Next]_vars => LimitsInv'
  BY LimitsNext, NextSteps
<1>4. Spec => []LimitsInv
  BY <1>1, <1>2, <1>3, PTL DEF Spec
<1>5. CASE Cardinality(LorasOf(Req)) <= MaxLoras
  <2>1. (QueueInv /\ TransferInv /\ EngineInv) /\ LimitsInv => ScheduleWithinLimits
    BY <1>5, LimitsHold
  <2> QED
    BY <1>1, <1>4, <2>1, PTL
<1>6. CASE MaxConcurrentBatches = 1 /\ LoraHasNoInputs
  <2>1. Spec => [](QueueInv /\ OutputInv)
    BY <1>6, OutputInvariant
  <2>2. Init => LoraInv
    BY LimitsInit
  <2>3. (QueueInv /\ TransferInv /\ EngineInv) /\ (QueueInv /\ OutputInv) /\ LoraInv /\ [Next]_vars
          => LoraInv'
    BY <1>6, LoraNext, NextSteps
  <2>4. Spec => []LoraInv
    BY <1>1, <2>1, <2>2, <2>3, PTL DEF Spec
  <2>5. (QueueInv /\ TransferInv /\ EngineInv) /\ LimitsInv /\ LoraInv => ScheduleWithinLimits
    BY LimitsHold DEF LoraInv
  <2> QED
    BY <1>1, <1>4, <2>4, <2>5, PTL
<1> QED
  BY <1>5, <1>6 DEF LorasKept

-----------------------------------------------------------------------------
\* The hashes of a request are memoised, and none is forgotten before the request ends.
\* A request that has been looked up has those of all full blocks but perhaps the last;
\* while it runs it has those of all blocks that are computed or in flight; and a request
\* that waits has a token left to compute.
Known(st, nt, nc, n, b) ==
  /\ st \in Waits => nc < nt
  /\ st = "NEW" => b = 0
  /\ EnableCaching /\ st \in Waits \cup {"RUNNING"} =>
       /\ b = 0 \/ b >= max_num_blocks(nt)
       /\ (st \in {"RUNNING", "WAITING_FOR_REMOTE_KVS"} \/ nc > 0) => b >= max_num_blocks(nt)
       /\ st = "RUNNING" => b >= n \div BlockSize
KnownOf(r) ==
  Known(req[r].status, req[r].num_tokens, req[r].num_computed_tokens,
        req[r].num_computed_tokens + Counted(r), kvm.block_hashes[r])
HashInv == \A r \in Req : KnownOf(r)

\* What the manager's calls memoise.
MemoAs(k, g, r, b) ==
  /\ g.block_hashes[r] = b
  /\ \A q \in Req \ {r} : g.block_hashes[q] = k.block_hashes[q]

LEMMA CacheForm ==
  ASSUME NEW k, DOMAIN k = ManagerFields, NEW r, NEW t
  PROVE  cache_blocks(k, r, t).block_hashes
           = [k.block_hashes EXCEPT ![r] = Memoised(k.block_hashes[r], t \div BlockSize)]
<1>1. PICK f, c, x, y, g :
        /\ f = t \div BlockSize /\ c = k.num_cached_block[r]
        /\ x = cache_full_blocks(k.pool, r, k.req_to_blocks[r],
                                 [i \in 1..(IF f < c THEN 0 ELSE f - c) |-> c + i])
        /\ y = [k.num_cached_block EXCEPT ![r] = f]
        /\ g = cache_blocks(k, r, t)
  OBVIOUS
<1>2. g = [k EXCEPT !.pool = x, !.num_cached_block = y,
                    !.block_hashes = [k.block_hashes EXCEPT ![r] = Memoised(k.block_hashes[r], f)]]
  BY <1>1 DEF cache_blocks
<1>3. g.block_hashes = [k.block_hashes EXCEPT ![r] = Memoised(k.block_hashes[r], f)]
  BY <1>2 DEF ManagerFields
<1> QED
  BY <1>1, <1>3

LEMMA CacheMemo ==
  ASSUME NEW k, ManagerOK(k), NEW r \in Req, NEW t
  PROVE  MemoAs(k, cache_blocks(k, r, t), r, Memoised(k.block_hashes[r], t \div BlockSize))
<1>1. DOMAIN k = ManagerFields /\ k.block_hashes \in [Req -> Nat]
  BY DEF ManagerOK, ManagerShape
<1>2. PICK g, m : g = cache_blocks(k, r, t) /\ m = Memoised(k.block_hashes[r], t \div BlockSize)
  OBVIOUS
<1>3. g.block_hashes = [k.block_hashes EXCEPT ![r] = m]
  BY <1>1, <1>2, CacheForm
<1> QED
  BY <1>1, <1>2, <1>3 DEF MemoAs

LEMMA AllocMemo ==
  ASSUME NEW k, ManagerOK(k), NEW r \in Req, NEW hits, NEW computed, NEW new, NEW draft,
         NEW lookahead, NEW delay \in BOOLEAN, NEW g,
         g = allocate_slots(k, r, hits, computed, new, draft, lookahead, delay)
  PROVE  MemoAs(k, g, r, IF EnableCaching /\ ~delay
                         THEN Memoised(k.block_hashes[r], (computed + new - draft) \div BlockSize)
                         ELSE k.block_hashes[r])
<1>1. DOMAIN k = ManagerFields /\ k.block_hashes \in [Req -> Nat]
  BY DEF ManagerOK, ManagerShape
<1>2. PICK n : n = num_new_blocks(k, r, hits, num_required_blocks(computed, new, lookahead))
  OBVIOUS
<1>3. PICK s, t : s = Saved(k, r, hits, n) /\ t = computed + new - draft
  OBVIOUS
<1>4. g = IF EnableCaching /\ ~delay THEN cache_blocks(s, r, t) ELSE s
  BY <1>2, <1>3 DEF allocate_slots, Saved
<1>5. DOMAIN s = ManagerFields /\ s.block_hashes = k.block_hashes
  <2>1. \E x, y, z : s = [k EXCEPT !.pool = x, !.req_to_blocks = y, !.num_cached_block = z]
    BY <1>3 DEF Saved
  <2> QED
    BY <2>1, <1>1 DEF ManagerFields
<1>6. CASE EnableCaching /\ ~delay
  <2>1. PICK m : m = Memoised(k.block_hashes[r], t \div BlockSize)
    OBVIOUS
  <2>2. cache_blocks(s, r, t).block_hashes
           = [s.block_hashes EXCEPT ![r] = Memoised(s.block_hashes[r], t \div BlockSize)]
    BY <1>5, CacheForm
  <2>3. g.block_hashes = [k.block_hashes EXCEPT ![r] = m]
    BY <1>4, <1>5, <1>6, <2>1, <2>2
  <2>4. g.block_hashes[r] = m /\ \A q \in Req \ {r} : g.block_hashes[q] = k.block_hashes[q]
    BY <1>1, <2>3
  <2>5. MemoAs(k, g, r, m)
    BY <2>4 DEF MemoAs
  <2> QED
    BY <1>3, <1>6, <2>1, <2>5
<1>7. CASE ~(EnableCaching /\ ~delay)
  BY <1>4, <1>5, <1>7 DEF MemoAs
<1> QED
  BY <1>6, <1>7

LEMMA FreeMemo ==
  ASSUME NEW k, ManagerOK(k), NEW r \in Req
  PROVE  /\ free(k, r).block_hashes = k.block_hashes
         /\ MemoAs(k, FreedManager(k, r), r, 0)
<1>1. DOMAIN k = ManagerFields /\ k.block_hashes \in [Req -> Nat]
  BY DEF ManagerOK, ManagerShape
<1>2. PICK f, g : f = free(k, r) /\ g = FreedManager(k, r)
  OBVIOUS
<1>3. \E x, y, z : f = [k EXCEPT !.pool = x, !.req_to_blocks = y, !.num_cached_block = z]
  BY <1>2 DEF free
<1>4. DOMAIN f = ManagerFields /\ f.block_hashes = k.block_hashes
  BY <1>1, <1>3 DEF ManagerFields
<1>5. g = [f EXCEPT !.block_hashes[r] = 0]
  BY <1>2 DEF FreedManager, free_block_hashes
<1>6. g.block_hashes = [k.block_hashes EXCEPT ![r] = 0]
  BY <1>4, <1>5 DEF ManagerFields
<1> QED
  BY <1>1, <1>2, <1>4, <1>6 DEF MemoAs

\* The blocks that were sent go with the hashes of their requests, and no others.
MemoKept(k, g, S) == ManagerOK(g) /\ \A q \in Req \ S : g.block_hashes[q] = k.block_hashes[q]
LEMMA FreedMemo ==
  ASSUME NEW k, ManagerOK(k), NEW S \in SUBSET Req PROVE MemoKept(k, FreedManagers(k, S), S)
<1>1. IsFiniteSet(S)
  <2>1. IsFiniteSet(Req)
    BY ManagerAssumption
  <2> QED
    BY <2>1, FS_Subset
<1>e. PICK h : FreesEach(h, k, S)
  BY <1>1, FreedIterates
<1>2. /\ h[{}] = k
      /\ \A s \in SUBSET S : s # {} => h[s] = FreedManager(h[s \ {Picked(s)}], Picked(s))
      /\ FreedManagers(k, S) = h[S]
  BY <1>e DEF FreesEach
<1> DEFINE T == {s \in SUBSET S : MemoKept(k, h[s], S)}
<1>3. {} \in T
  BY <1>2 DEF MemoKept
<1>4. ASSUME NEW s \in SUBSET S, s # {}, s \ {Picked(s)} \in T PROVE s \in T
  <2>1. PICK r, g, m : r = Picked(s) /\ g = h[s \ {Picked(s)}] /\ m = h[s]
    OBVIOUS
  <2>2. r \in Req /\ r \in S
    BY <1>1, <1>4, <2>1, AnyLeaves
  <2>3. MemoKept(k, g, S)
    BY <1>4, <2>1
  <2>4. m = FreedManager(g, r)
    BY <1>2, <1>4, <2>1
  <2>5. FreedOf(g, m, r)
    BY <2>2, <2>3, <2>4, FreedAsOK DEF MemoKept, FreedManager
  <2>6. MemoAs(g, m, r, 0)
    BY <2>2, <2>3, <2>4, FreeMemo DEF MemoKept
  <2>7. MemoKept(k, m, S)
    BY <2>2, <2>3, <2>5, <2>6 DEF MemoKept, MemoAs, FreedOf
  <2> QED
    BY <2>1, <2>7
<1>5. \A s \in SUBSET S : s \in T
  <2> HIDE DEF T
  <2> QED
    BY <1>1, <1>3, <1>4, SetInduction
<1> QED
  BY <1>2, <1>5

LEMMA KnownFrame ==
  ASSUME NEW q, KnownOf(q), req'[q].status = req[q].status,
         req'[q].num_tokens = req[q].num_tokens,
         req'[q].num_computed_tokens + Counted(q)' = req[q].num_computed_tokens + Counted(q),
         req[q].status # "RUNNING" => req'[q].num_computed_tokens = req[q].num_computed_tokens,
         kvm'.block_hashes[q] = kvm.block_hashes[q]
  PROVE  KnownOf(q)'
  BY DEF KnownOf, Known, Waits

LEMMA Memos ==
  ASSUME NEW k, ManagerOK(k), NEW r \in Req PROVE k.block_hashes[r] \in Nat
  BY DEF ManagerOK, ManagerShape

LEMMA FullBefore ==
  ASSUME NEW nt \in Nat \ {0} PROVE max_num_blocks(nt) \in Nat
<1>1. nt - 1 \in Nat
  OBVIOUS
<1> QED
  BY <1>1, WholeBlocks DEF max_num_blocks

\* A request that runs after its hashes were memoised.
LEMMA KnownRuns ==
  ASSUME NEW nt \in Nat \ {0}, NEW nc, NEW n \in Nat, NEW b \in Nat, NEW c,
         EnableCaching => b >= max_num_blocks(nt) /\ c = Memoised(b, n \div BlockSize)
  PROVE  Known("RUNNING", nt, nc, n, c)
<1>1. n \div BlockSize \in Nat /\ max_num_blocks(nt) \in Nat
  BY WholeBlocks, FullBefore
<1>2. PICK x, y : x = n \div BlockSize /\ y = max_num_blocks(nt)
  OBVIOUS
<1>3. EnableCaching => c >= x /\ c >= y
  BY <1>1, <1>2 DEF Memoised
<1> QED
  BY <1>2, <1>3 DEF Known, Waits

LEMMA HashScheduleRunning ==
  ASSUME NumSpecTokens = 0, QueueInv, EngineInv, HashInv, ScheduleRunning
  PROVE  HashInv'
<1>1. PICK r, n, nc, nt, st, b : /\ r = Current /\ n = NewTokensOfRunning(r)
                          /\ nc = req[r].num_computed_tokens /\ nt = req[r].num_tokens
                          /\ st = req[r].spec_token_ids /\ b = kvm.block_hashes[r]
  OBVIOUS
<1>2. JoinsCall(r, n)
  BY <1>1, RunningJoins
<1>3. InRunningLoop /\ n # 0
  BY <1>1 DEF ScheduleRunning
<1>4. r \in Req /\ req[r].status = "RUNNING" /\ Counted(r) = 0
  BY <1>1, <1>3, CurrentToRun
<1>5. nt \in 1..LengthCap(r) /\ nc \in Nat /\ st \in 0..NumSpecTokens /\ n \in Nat /\ nc + n <= nt + st
      /\ nc <= nt
  BY <1>1, <1>3, PlanToRun
<1>6. LengthCap(r) \in Nat
  BY <1>4, CapBounds
<1>7. st = 0 /\ nt \in Nat \ {0} /\ nc + n <= nt
  BY <1>5, <1>6
<1>8. DraftTokens(r, n) = 0
  BY <1>1, <1>5, <1>7 DEF DraftTokens
<1>9. kvm' = allocate_slots(kvm, r, << >>, nc, n, 0, num_lookahead_tokens, FALSE)
  BY <1>1, <1>8 DEF ScheduleRunning
<1>10. ManagerOK(kvm) /\ b \in Nat
  BY <1>1, <1>4, Memos DEF EngineInv
<1>11. PICK e \in BOOLEAN : e = FALSE
  OBVIOUS
<1>12. MemoAs(kvm, kvm', r, IF EnableCaching THEN Memoised(b, (nc + n) \div BlockSize) ELSE b)
  <2>1. kvm' = allocate_slots(kvm, r, << >>, nc, n, 0, num_lookahead_tokens, e)
    BY <1>9, <1>11
  <2>2. MemoAs(kvm, kvm', r, IF EnableCaching /\ ~e
                 THEN Memoised(kvm.block_hashes[r], (nc + n - 0) \div BlockSize)
                 ELSE kvm.block_hashes[r])
    BY <2>1, <1>4, <1>10, AllocMemo
  <2>3. nc + n - 0 = nc + n
    BY <1>5
  <2> QED
    BY <2>2, <2>3, <1>1, <1>11
<1>13. \E s : req' = [req EXCEPT ![r].spec_token_ids = s]
  BY <1>1 DEF ScheduleRunning
<1>14. /\ \A q \in Req : /\ req'[q].status = req[q].status /\ req'[q].num_tokens = req[q].num_tokens
                         /\ req'[q].num_computed_tokens = req[q].num_computed_tokens
  BY <1>13, <1>4 DEF QueueInv, Shapes, ReqFields
<1>15. SchedPhase /\ SchedPhase'
  BY <1>2, <1>3 DEF InRunningLoop, SchedPhase, JoinsCall
<1>16. KnownOf(r)'
  <2>1. Counted(r)' = n
    BY <1>2, <1>15 DEF Counted, JoinsCall
  <2>2. EnableCaching => b >= max_num_blocks(nt)
    BY <1>1, <1>4 DEF HashInv, KnownOf, Known
  <2>3. PICK c : c = kvm'.block_hashes[r]
    OBVIOUS
  <2>4. EnableCaching => c = Memoised(b, (nc + n) \div BlockSize)
    BY <2>3, <1>12 DEF MemoAs
  <2>5. Known("RUNNING", nt, nc, nc + n, c)
    <3>1. nc + n \in Nat
      BY <1>5
    <3> QED
      BY <3>1, <2>2, <2>4, <1>7, <1>10, KnownRuns
  <2> QED
    BY <2>1, <2>3, <2>5, <1>1, <1>4, <1>14 DEF KnownOf
<1>17. ASSUME NEW q \in Req, q # r PROVE KnownOf(q)'
  <2>1. Counted(q)' = Counted(q)
    BY <1>2, <1>15, <1>17 DEF Counted, JoinsCall
  <2>2. kvm'.block_hashes[q] = kvm.block_hashes[q]
    BY <1>12, <1>17 DEF MemoAs
  <2>3. KnownOf(q)
    BY DEF HashInv
  <2> QED
    BY <2>1, <2>2, <2>3, <1>14, KnownFrame
<1> QED
  BY <1>16, <1>17 DEF HashInv

\* The head of the waiting queue, before it is looked up ...
LEMMA HeadMemo ==
  ASSUME QueueInv, EngineInv, Modelled, HashInv, InWaitingLoop, NEW r, r = Head(waiting)
  PROVE  \E b \in Nat :
           /\ MemoAs(kvm, ManagerAtHead(r), r, b)
           /\ \A n : Known(StatusAtHead(r), req[r].num_tokens, ComputedAtHead(r), n, b)
<1>1. r \in Req /\ req[r].status \in Waits /\ Befits(r, req[r].status)
  BY HeadWaits
<1>2. PICK k, v, nt, nc, l, c, b : /\ k = kvm /\ v = req[r].status /\ nt = req[r].num_tokens
                                   /\ nc = req[r].num_computed_tokens /\ b = k.block_hashes[r]
                                   /\ l = k.req_to_blocks[r] /\ c = k.num_cached_block[r]
  OBVIOUS
<1>3. ManagerOK(k) /\ b \in Nat
  BY <1>1, <1>2, Memos DEF EngineInv
<1>4. \E n : Known(v, nt, nc, n, b)
  BY <1>1, <1>2 DEF HashInv, KnownOf
<1>5. CASE ~Received(r)
  <2>1. ManagerAtHead(r) = k /\ ComputedAtHead(r) = nc /\ v # "WAITING_FOR_REMOTE_KVS"
    BY <1>2, <1>5 DEF ManagerAtHead, ComputedAtHead, Received
  <2>2. PICK s : s = StatusAtHead(r)
    OBVIOUS
  <2>3. s \in {"WAITING", "PREEMPTED"}
    BY <2>1, <2>2, <1>1, <1>2 DEF StatusAtHead, Waits
  <2>4. \A n : Known(s, nt, nc, n, b)
    BY <2>3, <1>1, <1>2, <1>4 DEF Known, Waits
  <2>5. MemoAs(k, k, r, b)
    BY <1>2 DEF MemoAs
  <2> QED
    BY <2>1, <2>2, <2>4, <2>5, <1>2, <1>3
<1>6. CASE Received(r)
  <2>1. PICK t : t = remote_computed_tokens(k, r, nt)
    OBVIOUS
  <2>2. /\ ManagerAtHead(r) = cache_blocks(k, r, t) /\ ComputedAtHead(r) = t
        /\ v = "WAITING_FOR_REMOTE_KVS"
    BY <2>1, <1>2, <1>6 DEF ManagerAtHead, ComputedAtHead, Received
  <2>3. EnableCaching /\ StatusAtHead(r) = "WAITING"
    BY <2>2, <1>1, <1>2 DEF Befits, Modelled, StatusAtHead
  <2>4. nt \in 1..LengthCap(r) /\ c * BlockSize <= nt - 1
    <3>1. PICK n, d : Fits(r, v, nt, nc, n, d, l, c)
      BY <1>1, <1>2 DEF EngineInv, Progress
    <3> QED
      BY <3>1, <2>2 DEF Fits
  <2>5. t \in Nat /\ t <= nt - 1
    BY <2>1, <2>4, <1>1, <1>2, <1>3, ReceivedTokens
  <2>6. nt \in Nat \ {0} /\ LengthCap(r) \in Nat
    BY <2>4, <1>1, CapBounds
  <2>7. PICK f, x, m : f = t \div BlockSize /\ x = max_num_blocks(nt) /\ m = Memoised(b, f)
    OBVIOUS
  <2>8. f \in Nat /\ x \in Nat
    BY <2>5, <2>6, <2>7, WholeBlocks, FullBefore
  <2>9. b >= x
    BY <2>2, <2>3, <2>7, <1>4 DEF Known, Waits
  <2>10. m \in Nat /\ m >= x
    BY <2>7, <2>8, <2>9, <1>3 DEF Memoised
  <2>11. MemoAs(k, ManagerAtHead(r), r, m)
    BY <2>2, <2>7, <1>1, <1>2, <1>3, CacheMemo
  <2>12. t < nt
    BY <2>5, <2>6
  <2>13. \A n : Known("WAITING", nt, t, n, m)
    BY <2>7, <2>10, <2>12 DEF Known
  <2> QED
    BY <2>2, <2>3, <2>10, <2>11, <2>13, <1>2
<1> QED
  BY <1>5, <1>6

\* ... and after: it has the hashes of all blocks it may hit.
LEMMA LookedUpMemo ==
  ASSUME QueueInv, EngineInv, Modelled, HashInv, InWaitingLoop, NEW r, r = Head(waiting)
  PROVE  /\ \E c \in Nat : /\ MemoAs(kvm, Lookup(r).kvm, r, c)
                           /\ EnableCaching => c >= max_num_blocks(req[r].num_tokens)
         /\ ~LookupFails(r)
         /\ ComputedAtHead(r) < req[r].num_tokens
<1>1. r \in Req
  BY HeadWaits
<1>2. PICK b \in Nat : /\ MemoAs(kvm, ManagerAtHead(r), r, b)
                       /\ \A n : Known(StatusAtHead(r), req[r].num_tokens, ComputedAtHead(r), n, b)
  BY HeadMemo
<1>3. PICK g, nt, nc, s, x : /\ g = ManagerAtHead(r) /\ nt = req[r].num_tokens
                             /\ nc = ComputedAtHead(r) /\ s = StatusAtHead(r)
                             /\ x = max_num_blocks(nt)
  OBVIOUS
<1>4. /\ ManagerOK(g) /\ nt \in 1..LengthCap(r) /\ nc \in Nat /\ s \in {"WAITING", "PREEMPTED"}
  BY <1>3, HeadOK DEF HeadAs
<1>5. nt \in Nat \ {0} /\ x \in Nat
  <2>1. LengthCap(r) \in Nat
    BY <1>1, CapBounds
  <2>2. nt \in Nat \ {0}
    BY <2>1, <1>4
  <2> QED
    BY <2>2, <1>3, FullBefore
<1>6. /\ nc < nt /\ (EnableCaching => b = 0 \/ b >= x) /\ (EnableCaching /\ nc > 0 => b >= x)
      /\ g.block_hashes[r] = b
  BY <1>2, <1>3, <1>4 DEF Known, Waits, MemoAs
<1>7. PICK h : h = HashesAtLookup(g, r, nt)
  OBVIOUS
<1>8. h \in Nat /\ (EnableCaching => h >= x)
  <2>1. nt \div BlockSize \in Nat /\ x <= nt \div BlockSize
    <3>1. nt - 1 \in Nat /\ x = (nt - 1) \div BlockSize
      BY <1>3, <1>5 DEF max_num_blocks
    <3>2. x * BlockSize <= nt - 1
      BY <3>1, WholeBlocks
    <3>3. BlockSize \in Nat /\ x * BlockSize \in Int
      BY <1>5, ManagerAssumption
    <3>4. x * BlockSize <= nt
      BY <3>2, <3>3, <1>5
    <3> QED
      BY <3>4, <1>5, BlocksFit, WholeBlocks
  <2>2. h = IF b = 0 THEN nt \div BlockSize ELSE b
    BY <1>6, <1>7 DEF HashesAtLookup
  <2> QED
    BY <2>1, <2>2, <1>5, <1>6
<1>9. ~LookupFails(r)
  <2>1. LookupFails(r) => EnableCaching /\ h < x
    BY <1>3, <1>7 DEF LookupFails, LookupRaises
  <2> QED
    BY <2>1, <1>5, <1>8
<1>10. \E c \in Nat : MemoAs(kvm, Lookup(r).kvm, r, c) /\ (EnableCaching => c >= x)
  <2>1. CASE nc = 0 /\ EnableCaching
    <3>1. PICK k : k = [g EXCEPT !.block_hashes[r] = h]
      OBVIOUS
    <3>2. Lookup(r).kvm = k
      BY <2>1, <3>1, <1>3, <1>7 DEF Lookup, get_computed_blocks
    <3>3. DOMAIN g = ManagerFields /\ g.block_hashes \in [Req -> Nat]
      BY <1>4 DEF ManagerOK, ManagerShape
    <3>4. k.block_hashes = [g.block_hashes EXCEPT ![r] = h]
      BY <3>1, <3>3 DEF ManagerFields
    <3>5. k.block_hashes[r] = h /\ \A q \in Req \ {r} : k.block_hashes[q] = g.block_hashes[q]
      BY <3>3, <3>4, <1>1
    <3>6. MemoAs(kvm, k, r, h)
      BY <3>5, <1>2, <1>3 DEF MemoAs
    <3> QED
      BY <3>2, <3>6, <1>8
  <2>2. CASE ~(nc = 0 /\ EnableCaching)
    <3>1. Lookup(r).kvm = g
      BY <2>2, <1>3 DEF Lookup, get_computed_blocks
    <3>2. EnableCaching => b >= x
      BY <2>2, <1>4, <1>6
    <3> QED
      BY <3>1, <3>2, <1>2, <1>3
  <2> QED
    BY <2>1, <2>2
<1> QED
  BY <1>3, <1>6, <1>9, <1>10

\* The steps of schedule() that leave the output: only the request at hand is at stake.
LEMMA HashOthers ==
  ASSUME HashInv, NEW r, \A q \in Req \ {r} : req'[q] = req[q],
         \A q \in Req \ {r} : kvm'.block_hashes[q] = kvm.block_hashes[q],
         \A q \in Req \ {r} : Counted(q)' = Counted(q), KnownOf(r)'
  PROVE  HashInv'
<1>1. ASSUME NEW q \in Req, q # r PROVE KnownOf(q)'
  <2>1. KnownOf(q) /\ req'[q] = req[q] /\ kvm'.block_hashes[q] = kvm.block_hashes[q]
        /\ Counted(q)' = Counted(q)
    BY <1>1 DEF HashInv
  <2> QED
    BY <2>1, KnownFrame
<1> QED
  BY <1>1 DEF HashInv

LEMMA HashStands ==
  ASSUME QueueInv, OtherScheduleSteps PROVE \A q \in Req : Counted(q)' = Counted(q)
<1>1. OutputStands /\ SchedPhase /\ SchedPhase'
  BY OutputStanding
<1> QED
  BY <1>1 DEF OutputStands, Counted

LEMMA HashPreemptLast ==
  ASSUME QueueInv, EngineInv, HashInv, PreemptLast PROVE HashInv'
<1>1. InRunningLoop
  BY DEF PreemptLast
<1>2. PICK l : l = running[Len(running)] /\ l \in Req
  BY <1>1, RunningIsCurrent
<1>3. /\ req' = [req EXCEPT ![l].status = "PREEMPTED", ![l].num_computed_tokens = 0]
      /\ kvm' = free(kvm, l)
  BY <1>2 DEF PreemptLast
<1>4. kvm'.block_hashes = kvm.block_hashes /\ ManagerOK(kvm)
  BY <1>2, <1>3, FreeMemo DEF EngineInv
<1>5. \A q \in Req : Counted(q)' = Counted(q)
  BY HashStands DEF OtherScheduleSteps
<1>6. req[l].status = "RUNNING"
  BY <1>1, <1>2, RunningIsCurrent
<1>7. PICK nt, b : nt = req[l].num_tokens /\ b = kvm.block_hashes[l]
  OBVIOUS
<1>8. nt \in 1..LengthCap(l) /\ LengthCap(l) \in Nat
  BY <1>2, <1>7, CapBounds DEF EngineInv, Progress, Fits
<1>9. EnableCaching => b >= max_num_blocks(nt)
  BY <1>2, <1>6, <1>7 DEF HashInv, KnownOf, Known
<1>10. \A n : Known("PREEMPTED", nt, 0, n, b)
  BY <1>8, <1>9 DEF Known, Waits
<1>11. /\ req'[l].status = "PREEMPTED" /\ req'[l].num_tokens = nt /\ req'[l].num_computed_tokens = 0
       /\ \A q \in Req \ {l} : req'[q] = req[q]
  BY <1>2, <1>3, <1>7 DEF QueueInv, Shapes, ReqFields
<1>12. KnownOf(l)'
  BY <1>4, <1>7, <1>10, <1>11 DEF KnownOf
<1> QED
  BY <1>4, <1>5, <1>11, <1>12, HashOthers

LEMMA HashHead ==
  ASSUME QueueInv, EngineInv, Modelled, HashInv, SkipLora \/ StopAtWaiting PROVE HashInv'
<1>1. PICK r : r = Head(waiting)
  OBVIOUS
<1>2. InWaitingLoop /\ req' = ReqAtHead(r) /\ kvm' \in {ManagerAtHead(r), Lookup(r).kvm}
  BY <1>1 DEF SkipLora, StopAtWaiting, LooksUpHead, ConsidersHead
<1>3. r \in Req
  BY <1>1, <1>2, HeadWaits
<1>4. \A q \in Req : Counted(q)' = Counted(q)
  BY HashStands DEF OtherScheduleSteps
<1>5. PICK s, nc, nt : s = StatusAtHead(r) /\ nc = ComputedAtHead(r) /\ nt = req[r].num_tokens
  OBVIOUS
<1>6. /\ req'[r].status = s /\ req'[r].num_tokens = nt /\ req'[r].num_computed_tokens = nc
      /\ \A q \in Req \ {r} : req'[q] = req[q]
  BY <1>2, <1>3, <1>5 DEF ReqAtHead, QueueInv, Shapes, ReqFields
<1>7. s \in {"WAITING", "PREEMPTED"}
  BY <1>1, <1>2, <1>5, HeadOK DEF HeadAs
<1>8. \E b \in Nat : MemoAs(kvm, kvm', r, b) /\ \A n : Known(s, nt, nc, n, b)
  <2>1. CASE kvm' = ManagerAtHead(r)
    BY <2>1, <1>1, <1>2, <1>5, HeadMemo
  <2>2. CASE kvm' = Lookup(r).kvm
    <3>1. PICK c \in Nat : MemoAs(kvm, kvm', r, c) /\ (EnableCaching => c >= max_num_blocks(nt))
      BY <2>2, <1>1, <1>2, <1>5, LookedUpMemo
    <3>2. nc < nt
      BY <1>1, <1>2, <1>5, LookedUpMemo
    <3>3. \A n : Known(s, nt, nc, n, c)
      BY <3>1, <3>2, <1>7 DEF Known
    <3> QED
      BY <3>1, <3>3
  <2> QED
    BY <1>2, <2>1, <2>2
<1>9. KnownOf(r)' /\ \A q \in Req \ {r} : kvm'.block_hashes[q] = kvm.block_hashes[q]
  BY <1>6, <1>8 DEF KnownOf, MemoAs
<1> QED
  BY <1>4, <1>6, <1>9, HashOthers

\* What slots for the head do to the hashes.
LEMMA AllocatedMemo ==
  ASSUME QueueInv, EngineInv, Modelled, HashInv, InWaitingLoop, NEW r, r = Head(waiting),
         NEW nt, nt = req[r].num_tokens, NEW local, local = LocalComputed(r),
         NEW n, n = NewTokensOfWaiting(r), n \in Nat
  PROVE  \E c, d :
           /\ c \in Nat
           /\ MemoAs(kvm, AllocatedWaiting(r), r, d)
           /\ EnableCaching => c >= max_num_blocks(nt)
           /\ EnableCaching /\ ~load_kv_async(r) => d = Memoised(c, (local + n) \div BlockSize)
           /\ load_kv_async(r) => d = c
<1>1. PICK k, hits, e : k = Lookup(r).kvm /\ hits = Lookup(r).hits /\ e = load_kv_async(r)
  OBVIOUS
<1>2. ManagerOK(k) /\ r \in Req /\ local \in Nat
  BY <1>1, LocalOK
<1>3. PICK c \in Nat : MemoAs(kvm, k, r, c) /\ (EnableCaching => c >= max_num_blocks(nt))
  BY <1>1, LookedUpMemo
<1>4. e \in BOOLEAN
  BY <1>1 DEF load_kv_async
<1>5. PICK g : /\ g = AllocatedWaiting(r)
               /\ g = allocate_slots(k, r, hits, local, n, 0, num_lookahead_tokens, e)
  BY <1>1 DEF AllocatedWaiting
<1>6. PICK d : d = IF EnableCaching /\ ~e THEN Memoised(c, (local + n) \div BlockSize) ELSE c
  OBVIOUS
<1>7. MemoAs(k, g, r, d)
  <2>1. MemoAs(k, g, r, IF EnableCaching /\ ~e
                 THEN Memoised(k.block_hashes[r], (local + n - 0) \div BlockSize)
                 ELSE k.block_hashes[r])
    BY <1>2, <1>4, <1>5, AllocMemo
  <2>2. local + n - 0 = local + n /\ k.block_hashes[r] = c
    BY <1>2, <1>3 DEF MemoAs
  <2> QED
    BY <2>1, <2>2, <1>6
<1>8. MemoAs(kvm, g, r, d)
  BY <1>3, <1>7 DEF MemoAs
<1>9. /\ EnableCaching /\ ~e => d = Memoised(c, (local + n) \div BlockSize)
      /\ e => d = c
  BY <1>6
<1> QED
  BY <1>1, <1>3, <1>5, <1>8, <1>9

LEMMA HashLoadRemote ==
  ASSUME QueueInv, EngineInv, Modelled, HashInv, LoadRemote PROVE HashInv'
<1>1. PICK r, n, nt, nc : /\ r = Head(waiting) /\ n = NewTokensOfWaiting(r)
                          /\ nt = req[r].num_tokens /\ nc = req[r].num_computed_tokens
  OBVIOUS
<1>2. /\ InWaitingLoop /\ FitsWaiting(r) /\ load_kv_async(r) /\ kvm' = AllocatedWaiting(r)
      /\ req' = [req EXCEPT ![r].status = "WAITING_FOR_REMOTE_KVS"]
  BY <1>1 DEF LoadRemote, LooksUpHead, ConsidersHead
<1>3. r \in Req /\ req[r].status \in Waits
  BY <1>1, <1>2, HeadWaits
<1>4. \A q \in Req : Counted(q)' = Counted(q)
  BY HashStands DEF OtherScheduleSteps
<1>5. n \in Nat
  <2>1. n = ExternalComputed(r) /\ ExternalComputed(r) > 0
    BY <1>1, <1>2 DEF NewTokensOfWaiting, load_kv_async
  <2>2. PICK local : local = LocalComputed(r) /\ local \in Nat
    BY <1>1, <1>2, LocalOK
  <2>3. n = num_external_computed_tokens(conn, r, local)
    BY <2>1, <2>2 DEF ExternalComputed
  <2>4. PICK d, x : d = PromptLen[r] \div BlockSize /\ x = round_down(PromptLen[r])
    OBVIOUS
  <2>5. PromptLen[r] \in Nat
    BY <1>3, SchedulerAssumption, ManagerAssumption
  <2>6. d \in Nat /\ x = BlockSize * d
    BY <2>4, <2>5, WholeBlocks DEF round_down
  <2>7. x \in Nat
    BY <2>6, ManagerAssumption
  <2>8. n = x - local \/ n = 0
    BY <2>3, <2>4 DEF num_external_computed_tokens
  <2> QED
    BY <2>1, <2>2, <2>7, <2>8
<1>6. PICK c \in Nat : MemoAs(kvm, kvm', r, c) /\ (EnableCaching => c >= max_num_blocks(nt))
  BY <1>1, <1>2, <1>5, AllocatedMemo
<1>7. nc < nt
  BY <1>1, <1>3 DEF HashInv, KnownOf, Known
<1>8. \A m : Known("WAITING_FOR_REMOTE_KVS", nt, nc, m, c)
  BY <1>6, <1>7 DEF Known
<1>9. /\ req'[r].status = "WAITING_FOR_REMOTE_KVS" /\ req'[r].num_tokens = nt
      /\ req'[r].num_computed_tokens = nc /\ \A q \in Req \ {r} : req'[q] = req[q]
  BY <1>1, <1>2, <1>3 DEF QueueInv, Shapes, ReqFields
<1>10. KnownOf(r)' /\ \A q \in Req \ {r} : kvm'.block_hashes[q] = kvm.block_hashes[q]
  BY <1>6, <1>8, <1>9 DEF KnownOf, MemoAs
<1> QED
  BY <1>4, <1>9, <1>10, HashOthers

LEMMA HashScheduleWaiting ==
  ASSUME QueueInv, EngineInv, Modelled, HashInv, ScheduleWaiting PROVE HashInv'
<1>1. PICK r, n, nt, local : /\ r = Head(waiting) /\ n = NewTokensOfWaiting(r)
                             /\ nt = req[r].num_tokens /\ local = LocalComputed(r)
  OBVIOUS
<1>2. /\ InWaitingLoop /\ ~load_kv_async(r) /\ kvm' = AllocatedWaiting(r)
      /\ req' = [req EXCEPT ![r].status = "RUNNING", ![r].num_computed_tokens = local]
  BY <1>1 DEF ScheduleWaiting, LooksUpHead, ConsidersHead
<1>3. JoinsCall(r, n)
  BY <1>1, WaitingJoins
<1>4. r \in Req /\ n \in Nat /\ SchedPhase /\ SchedPhase'
  BY <1>2, <1>3 DEF JoinsCall, SchedPhase, InWaitingLoop
<1>5. local \in Nat /\ nt \in 1..LengthCap(r) /\ LengthCap(r) \in Nat
  BY <1>1, <1>2, <1>4, LocalOK, CapBounds
<1>6. PICK c, d :
         /\ c \in Nat
         /\ MemoAs(kvm, kvm', r, d)
         /\ EnableCaching => c >= max_num_blocks(nt)
         /\ EnableCaching => d = Memoised(c, (local + n) \div BlockSize)
  BY <1>1, <1>2, <1>4, AllocatedMemo
<1>7. nt \in Nat \ {0} /\ local + n \in Nat
  BY <1>4, <1>5
<1>8. Known("RUNNING", nt, local, local + n, d)
  BY <1>6, <1>7, KnownRuns
<1>9. /\ Counted(r)' = n /\ \A q \in Req \ {r} : Counted(q)' = Counted(q)
  BY <1>3, <1>4 DEF JoinsCall, Counted
<1>10. /\ req'[r].status = "RUNNING" /\ req'[r].num_tokens = nt
       /\ req'[r].num_computed_tokens = local /\ \A q \in Req \ {r} : req'[q] = req[q]
  BY <1>1, <1>2, <1>4 DEF QueueInv, Shapes, ReqFields
<1>11. KnownOf(r)' /\ \A q \in Req \ {r} : kvm'.block_hashes[q] = kvm.block_hashes[q]
  BY <1>6, <1>8, <1>9, <1>10 DEF KnownOf, MemoAs
<1> QED
  BY <1>9, <1>10, <1>11, HashOthers

LEMMA HashScheduleStep ==
  ASSUME NumSpecTokens = 0, QueueInv, EngineInv, Modelled, HashInv, ScheduleSteps PROVE HashInv'
<1>1. CASE SkipRunning \/ RunningLoopEnds \/ SkipWaiting \/ WaitingLoopEnds
  <2>1. UNCHANGED <<req, kvm>>
    BY <1>1 DEF SkipRunning, RunningLoopEnds, SkipWaiting, WaitingLoopEnds
  <2>2. \A q \in Req : Counted(q)' = Counted(q)
    BY <1>1, HashStands DEF OtherScheduleSteps
  <2> QED
    BY <2>1, <2>2 DEF HashInv, KnownOf
<1>2. CASE ScheduleRunning
  BY <1>2, HashScheduleRunning
<1>3. CASE PreemptLast
  BY <1>3, HashPreemptLast
<1>4. CASE SkipLora \/ StopAtWaiting
  BY <1>4, HashHead
<1>5. CASE LoadRemote
  BY <1>5, HashLoadRemote
<1>6. CASE ScheduleWaiting
  BY <1>6, HashScheduleWaiting
<1> QED
  BY <1>1, <1>2, <1>3, <1>4, <1>5, <1>6 DEF ScheduleSteps

LEMMA MoreBlocks ==
  ASSUME NEW a \in Nat, NEW b \in Nat, a <= b
  PROVE  a \div BlockSize \in Nat /\ b \div BlockSize \in Nat /\ a \div BlockSize <= b \div BlockSize
<1>1. PICK x : x = a \div BlockSize
  OBVIOUS
<1>2. x \in Nat /\ x * BlockSize <= a /\ b \div BlockSize \in Nat
  BY <1>1, WholeBlocks
<1>3. x * BlockSize \in Nat
  BY <1>2, ManagerAssumption
<1>4. x * BlockSize <= b
  BY <1>2, <1>3
<1> QED
  BY <1>1, <1>2, <1>4, BlocksFit

\* A sampled token is hashed with no more blocks than were in flight.
LEMMA HashContinues ==
  ASSUME NumSpecTokens = 0, QueueInv, EngineInv, OutputInv, HashInv, InUpdateLoop,
         NEW r, r = Current, IsScheduled(r), NEW g \in Generated(call.output, r),
         NEW x, x = ComputedAfter(r, g), NEW nt, nt = req[r].num_tokens,
         NEW b, b = kvm.block_hashes[r]
  PROVE  Known("RUNNING", nt + g, x, x + 0, b)
<1>1. PICK nc, d, l, c, o :
        /\ nc = req[r].num_computed_tokens
        /\ d = call.output.spec[r] /\ l = kvm.req_to_blocks[r] /\ c = kvm.num_cached_block[r]
        /\ o = call.output
  OBVIOUS
<1>2. /\ r \in Req /\ nt \in 1..LengthCap(r) /\ nc \in Nat /\ req[r].status = "RUNNING"
  BY <1>1, CurrentInFlight
<1>3. d = 0
  BY <1>1, <1>2, NoDrafts DEF EngineInv, OutsOK
<1>4. x = nc
  BY <1>1, <1>2, <1>3 DEF ComputedAfter, Rejected
<1>5. LengthCap(r) \in Nat /\ nt \in Nat \ {0}
  BY <1>2, CapBounds
<1>6. Counted(r) = 0
  BY DEF InUpdateLoop, Counted, SchedPhase
<1>7. Known("RUNNING", nt, nc, nc + 0, b)
  BY <1>1, <1>2, <1>6 DEF HashInv, KnownOf
<1>8. CASE ~Samples(o, r)
  <2>1. g = 0
    BY <1>1, <1>8 DEF Generated
  <2>2. nt + g = nt
    BY <2>1, <1>5
  <2> QED
    BY <2>2, <1>4, <1>7
<1>9. CASE Samples(o, r)
  <2>1. g \in 1..(1 + d)
    BY <1>1, <1>9 DEF Generated
  <2>2. g = 1
    BY <2>1, <1>3
  <2>3. nc >= nt
    <3>1. r \in StillToCome /\ call.phase = "update"
      BY CurrentIsNotToCome DEF InUpdateLoop
    <3>2. Advanced(r)
      BY <3>1 DEF OutputInv, OutputRecords
    <3> QED
      BY <3>2, <1>1, <1>9 DEF Advanced, Samples
  <2>4. PICK y, z : y = nt \div BlockSize /\ z = (nc + 0) \div BlockSize
    OBVIOUS
  <2>5. y \in Nat /\ z \in Nat /\ y <= z
    <3>1. nc + 0 = nc /\ nt <= nc
      BY <2>3, <1>2, <1>5
    <3> QED
      BY <3>1, <2>4, <1>2, <1>5, MoreBlocks
  <2>6. EnableCaching => b >= z
    BY <2>4, <1>7 DEF Known
  <2>7. b \in Nat
    BY <1>2, Memos DEF EngineInv
  <2>8. max_num_blocks(nt + g) = y
    <3>1. (nt + g) - 1 = nt
      BY <2>2, <1>5
    <3> QED
      BY <3>1, <2>4 DEF max_num_blocks
  <2>9. EnableCaching => b >= y
    BY <2>5, <2>6, <2>7
  <2>10. x + 0 = nc + 0
    BY <1>4
  <2> QED
    BY <2>4, <2>6, <2>8, <2>9, <2>10 DEF Known, Waits
<1> QED
  BY <1>8, <1>9

LEMMA HashUpdateStep ==
  ASSUME NumSpecTokens = 0, QueueInv, EngineInv, TransferInv, OutputInv, HashInv, UpdateSteps
  PROVE  HashInv'
<1>0. call.phase = "update" /\ DOMAIN call = CallFields
  BY DEF UpdateSteps, KeepUnscheduled, UpdateScheduled, EndUpdate, InUpdateLoop, QueueInv, Shapes
<1>1. ~SchedPhase /\ ~SchedPhase'
  BY <1>0, NotScheduling DEF SchedPhase
<1>2. \A q \in Req : Counted(q)' = 0 /\ Counted(q) = 0
  BY <1>1 DEF Counted
<1>3. CASE KeepUnscheduled
  <2>1. UNCHANGED <<req, kvm>>
    BY <1>3 DEF KeepUnscheduled
  <2> QED
    BY <2>1, <1>2 DEF HashInv, KnownOf
<1>4. CASE EndUpdate
  <2>1. UNCHANGED req /\ kvm' = FreedManagers(kvm, call.finished_sending)
    BY <1>4 DEF EndUpdate
  <2>2. call.finished_sending \subseteq Req /\ ManagerOK(kvm)
    BY DEF EngineInv, OutsOK
  <2>3. MemoKept(kvm, kvm', call.finished_sending)
    BY <2>1, <2>2, FreedMemo
  <2>4. \A r \in call.finished_sending : req[r].status = "FINISHED"
    BY DEF TransferInv, TransfersOK, WaitsToBeRead
  <2>5. ASSUME NEW q \in Req PROVE KnownOf(q)'
    <3>1. CASE q \in call.finished_sending
      BY <3>1, <2>1, <2>4 DEF KnownOf, Known, Waits
    <3>2. CASE q \notin call.finished_sending
      <4>1. kvm'.block_hashes[q] = kvm.block_hashes[q]
        BY <3>2, <2>3 DEF MemoKept
      <4>2. KnownOf(q)
        BY DEF HashInv
      <4> QED
        BY <4>1, <4>2, <2>1, <1>2, KnownFrame
    <3> QED
      BY <3>1, <3>2
  <2> QED
    BY <2>5 DEF HashInv
<1>5. CASE UpdateScheduled
  <2>1. PICK r : r = Current
    OBVIOUS
  <2>2. InUpdateLoop /\ IsScheduled(r) /\ r \in Req
    BY <1>5, <2>1, CurrentRuns DEF UpdateScheduled, IsScheduled
  <2>3. PICK g \in Generated(call.output, r) :
           \/ \E d \in 0..NumSpecTokens : UpdateContinues(r, g, d)
           \/ UpdateStops(r, g)
    BY <1>5, <2>1 DEF UpdateScheduled
  <2>4. PICK x, nt, b : x = ComputedAfter(r, g) /\ nt = req[r].num_tokens /\ b = kvm.block_hashes[r]
    OBVIOUS
  <2>5. CASE \E d \in 0..NumSpecTokens : UpdateContinues(r, g, d)
    <3>1. PICK d : /\ req' = [req EXCEPT ![r].num_tokens = nt + g, ![r].num_computed_tokens = x,
                                         ![r].spec_token_ids = d]
                   /\ kvm' = kvm
      BY <2>4, <2>5 DEF UpdateContinues
    <3>2. req[r].status = "RUNNING"
      BY <2>1, <2>2, CurrentInFlight
    <3>3. /\ req'[r].status = "RUNNING" /\ req'[r].num_tokens = nt + g
          /\ req'[r].num_computed_tokens = x /\ \A q \in Req \ {r} : req'[q] = req[q]
      BY <3>1, <3>2, <2>2 DEF QueueInv, Shapes, ReqFields
    <3>4. Known("RUNNING", nt + g, x, x + 0, b)
      BY <2>1, <2>2, <2>4, HashContinues
    <3>5. KnownOf(r)'
      BY <3>1, <3>3, <3>4, <2>2, <2>4, <1>2 DEF KnownOf
    <3> QED
      BY <3>1, <3>3, <3>5, <1>2, HashOthers
  <2>6. CASE UpdateStops(r, g)
    <3>1. PICK n : req' = [req EXCEPT ![r].status = "FINISHED", ![r].num_tokens = @ + n,
                                      ![r].num_computed_tokens = x]
      BY <2>4, <2>6 DEF UpdateStops
    <3>2. kvm' = kvm \/ kvm' = FreedManager(kvm, r)
      BY <2>6 DEF UpdateStops, free_request
    <3>3. req'[r].status = "FINISHED" /\ \A q \in Req \ {r} : req'[q] = req[q]
      BY <3>1, <2>2 DEF QueueInv, Shapes, ReqFields
    <3>4. \A q \in Req \ {r} : kvm'.block_hashes[q] = kvm.block_hashes[q]
      BY <3>2, <2>2, FreeMemo DEF MemoAs, EngineInv
    <3>5. KnownOf(r)'
      BY <3>3 DEF KnownOf, Known, Waits
    <3> QED
      BY <3>3, <3>4, <3>5, <1>2, HashOthers
  <2> QED
    BY <2>3, <2>5, <2>6
<1> QED
  BY <1>3, <1>4, <1>5 DEF UpdateSteps

LEMMA HashInit == Init => HashInv
<1> SUFFICES ASSUME Init, NEW r \in Req PROVE KnownOf(r)
  BY DEF HashInv
<1>1. req[r].status = "NEW" /\ kvm = InitManager
  BY DEF Init, SchedulerInit
<1>2. kvm.block_hashes[r] = 0
  BY <1>1 DEF InitManager
<1> QED
  BY <1>1, <1>2 DEF KnownOf, Known, Waits

LEMMA HashClient ==
  ASSUME QueueInv, EngineInv, HashInv, NEW r \in Req,
         AddRequest(r) \/ AbortRequest(r) \/ CompileGrammar(r)
  PROVE  HashInv'
<1>1. CASE CompileGrammar(r)
  <2>1. UNCHANGED <<req, kvm, call>>
    BY <1>1 DEF CompileGrammar, GrammarCompiled
  <2> QED
    BY <2>1 DEF HashInv, KnownOf, Counted, SchedPhase
<1>2. CASE AddRequest(r) \/ AbortRequest(r)
  <2>1. call.phase = "idle" /\ UNCHANGED call
    BY <1>2 DEF AddRequest, add_request, AbortRequest, finish_requests
  <2>2. \A q \in Req : Counted(q)' = 0 /\ Counted(q) = 0
    BY <2>1 DEF Counted, SchedPhase
  <2>3. CASE AddRequest(r)
    <3>1. PICK s \in {"WAITING_FOR_FSM", "WAITING"} :
             /\ req[r].status = "NEW" /\ req' = [req EXCEPT ![r].status = s] /\ kvm' = kvm
      BY <2>3 DEF AddRequest, add_request
    <3>2. PICK nt, b : nt = req[r].num_tokens /\ b = kvm.block_hashes[r]
      OBVIOUS
    <3>3. nt \in 1..LengthCap(r) /\ req[r].num_computed_tokens = 0 /\ LengthCap(r) \in Nat
      BY <3>1, <3>2, CapBounds DEF EngineInv, Progress, Fits
    <3>4. b = 0
      BY <3>1, <3>2 DEF HashInv, KnownOf, Known
    <3>5. /\ req'[r].status = s /\ req'[r].num_tokens = nt /\ req'[r].num_computed_tokens = 0
          /\ \A q \in Req \ {r} : req'[q] = req[q]
      BY <3>1, <3>2, <3>3 DEF QueueInv, Shapes, ReqFields
    <3>6. \A n : Known(s, nt, 0, n, 0)
      BY <3>3 DEF Known
    <3>7. KnownOf(r)'
      BY <3>1, <3>2, <3>4, <3>5, <3>6 DEF KnownOf
    <3> QED
      BY <3>1, <3>5, <3>7, <2>2, HashOthers
  <2>4. CASE AbortRequest(r)
    <3>1. req' = [req EXCEPT ![r].status = "FINISHED"] /\ kvm' = FreedManager(kvm, r)
      BY <2>4 DEF AbortRequest, finish_requests, free_request
    <3>2. req'[r].status = "FINISHED" /\ \A q \in Req \ {r} : req'[q] = req[q]
      BY <3>1 DEF QueueInv, Shapes, ReqFields
    <3>3. \A q \in Req \ {r} : kvm'.block_hashes[q] = kvm.block_hashes[q]
      BY <3>1, FreeMemo DEF MemoAs, EngineInv
    <3>4. KnownOf(r)'
      BY <3>2 DEF KnownOf, Known, Waits
    <3> QED
      BY <3>2, <3>3, <3>4, <2>2, HashOthers
  <2> QED
    BY <1>2, <2>3, <2>4
<1> QED
  BY <1>1, <1>2

\* The end of schedule(): the tokens in flight count as computed.
LEMMA HashDispatches ==
  ASSUME QueueInv, EngineInv, HashInv, StepDispatches PROVE HashInv'
<1>1. /\ call.phase = "finish" /\ kvm' = kvm
      /\ req' = [r \in Req |-> [req[r] EXCEPT
                 !.num_computed_tokens = @ + call.output.num_scheduled_tokens[r]]]
  BY DEF StepDispatches, EndSchedule
<1>2. SchedPhase /\ ~SchedPhase'
  BY <1>1, NotScheduling DEF SchedPhase
<1>3. ASSUME NEW q \in Req PROVE KnownOf(q)'
  <2>1. PICK nc, n : nc = req[q].num_computed_tokens /\ n = call.output.num_scheduled_tokens[q]
    OBVIOUS
  <2>2. Counted(q) = n /\ Counted(q)' = 0
    BY <2>1, <1>2 DEF Counted
  <2>3. /\ req'[q].status = req[q].status /\ req'[q].num_tokens = req[q].num_tokens
        /\ req'[q].num_computed_tokens = nc + n
    BY <2>1, <1>1 DEF QueueInv, Shapes, ReqFields
  <2>4. nc \in Nat /\ n \in Nat /\ (req[q].status # "RUNNING" => n = 0)
    BY <2>1, <1>2 DEF EngineInv, Progress, Fits, OutsOK, OutputGood
  <2>5. (nc + n) + 0 = nc + n /\ (n = 0 => nc + n = nc)
    BY <2>4
  <2>6. KnownOf(q)
    BY DEF HashInv
  <2> QED
    BY <2>1, <2>2, <2>3, <2>4, <2>5, <2>6, <1>1, KnownFrame
<1> QED
  BY <1>3 DEF HashInv

LEMMA HashNext ==
  ASSUME MaxConcurrentBatches = 1, NumSpecTokens = 0, Modelled, QueueInv, TransferInv, EngineInv,
         OutputInv, HashInv, [Steps]_engineVars
  PROVE  HashInv'
<1>1. CASE UNCHANGED <<req, kvm, call>>
  BY <1>1 DEF HashInv, KnownOf, Counted, SchedPhase
<1>2. ASSUME NEW r \in Req, AddRequest(r) \/ AbortRequest(r) \/ CompileGrammar(r) PROVE HashInv'
  BY <1>2, HashClient
<1>3. ASSUME NEW k \in Ranks, NEW r \in Req, TransferArrives(k, r) \/ TransferIsRead(k, r)
      PROVE  HashInv'
  BY <1>1, <1>3 DEF TransferArrives, TransferIsRead, schedulerVars
<1>4. CASE ResetPrefixCache
  <2>1. /\ UNCHANGED <<req, call>> /\ DOMAIN kvm = ManagerFields
        /\ kvm' = [kvm EXCEPT !.pool = reset_prefix_cache(@)]
    BY <1>4 DEF ResetPrefixCache, EngineInv, ManagerOK, ManagerShape
  <2>2. kvm'.block_hashes = kvm.block_hashes
    BY <2>1 DEF ManagerFields
  <2> QED
    BY <2>1, <2>2 DEF HashInv, KnownOf, Counted, SchedPhase
<1>5. CASE StepSchedules \/ ExecuteModel
  <2>1. /\ UNCHANGED <<req, kvm>> /\ call.phase \in {"idle", "execute"}
        /\ \/ call'.phase = "update"
           \/ call'.phase = "running" /\ call'.output = NoOutput
    BY <1>5 DEF StepSchedules, BeginSchedule, ExecuteModel, BeginUpdate, NoCall
  <2>2. \A q \in Req : Counted(q)' = 0 /\ Counted(q) = 0
    BY <2>1, EmptyOutput DEF Counted, SchedPhase
  <2> QED
    BY <2>1, <2>2 DEF HashInv, KnownOf
<1>6. CASE StepDrains
  BY <1>6 DEF StepDrains, BatchQueueFull
<1>7. CASE StepDispatches
  BY <1>7, HashDispatches
<1>8. CASE ScheduleSteps
  BY <1>8, HashScheduleStep
<1>9. CASE UpdateSteps
  BY <1>9, HashUpdateStep
<1>10. CASE EngineStep
  BY <1>10, <1>5, <1>6, <1>7, <1>8, <1>9 DEF EngineStep
<1>11. CASE UNCHANGED engineVars
  BY <1>1, <1>11 DEF engineVars, schedulerVars
<1> QED
  BY <1>2, <1>3, <1>4, <1>10, <1>11 DEF Steps

\* The lookup finds a hash for every block, and a token is left to compute.
LEMMA NothingRaises ==
  ASSUME Modelled, QueueInv, EngineInv, HashInv PROVE ScheduleNeverRaises
<1>1. PICK r : r = Head(waiting)
  OBVIOUS
<1> SUFFICES ASSUME ConsidersHead PROVE ~LookupFails(r) /\ TokensOfWaiting(r) > 0
  BY <1>1 DEF ScheduleNeverRaises, LookupOfHeadRaises, LooksUpHead
<1>2. InWaitingLoop /\ call.token_budget > 0
  BY DEF ConsidersHead, InWaitingLoop
<1>3. ~LookupFails(r) /\ ComputedAtHead(r) < req[r].num_tokens
  BY <1>1, <1>2, LookedUpMemo
<1>4. PICK nt, nc, n, hits, x : /\ nt = req[r].num_tokens /\ nc = ComputedAtHead(r)
                                /\ hits = Lookup(r).hits /\ n = Len(hits) /\ x = n * BlockSize
  OBVIOUS
<1>5. n \in Nat /\ x <= nt - 1
  BY <1>1, <1>2, <1>4, LookupAtHead DEF LookupAs
<1>6. nt \in 1..LengthCap(r) /\ nc \in Nat /\ LengthCap(r) \in Nat
  BY <1>1, <1>2, <1>4, HeadOK, HeadWaits, CapBounds DEF HeadAs
<1>7. LocalComputed(r) < nt /\ LocalComputed(r) \in Nat
  <2>1. x \in Nat /\ BlockSize * n = x /\ BlockSize \in Nat
    BY <1>4, <1>5, ManagerAssumption
  <2>2. LocalComputed(r) = nc + x
    BY <2>1, <1>4 DEF LocalComputed
  <2>3. CASE nc = 0
    BY <2>1, <2>2, <2>3, <1>5, <1>6
  <2>4. CASE nc # 0
    <3>1. n = 0
      BY <2>4, <1>4 DEF Lookup
    <3>2. x = 0
      BY <3>1, <1>4, ManagerAssumption
    <3> QED
      BY <3>2, <2>2, <1>3, <1>4, <1>6
  <2> QED
    BY <2>3, <2>4
<1>8. PICK y, t : y = call.token_budget /\ t = nt - LocalComputed(r)
  OBVIOUS
<1>9. t \in Nat /\ t > 0 /\ y \in Nat /\ y > 0
  <2>1. y \in Nat
    BY <1>2, <1>8 DEF EngineInv, OutsOK, SchedPhase, InWaitingLoop
  <2> QED
    BY <2>1, <1>2, <1>6, <1>7, <1>8
<1>10. TokensOfWaiting(r) = AtMost(Threshold(t), y)
  BY <1>4, <1>8 DEF TokensOfWaiting
<1>11. TokensOfWaiting(r) > 0
  BY <1>9, <1>10, SchedulerAssumption DEF AtMost, Threshold
<1> QED
  BY <1>3, <1>11

\* schedule() does not raise at a waiting request in the engine that runs one batch at a
\* time without drafts: whatever was preempted, resumed, received or evicted, the memoised
\* hashes reach as far as the lookup does, and a token is left to compute.
THEOREM LookupsSucceed ==
  ASSUME Modelled, MaxConcurrentBatches = 1, NumSpecTokens = 0
  PROVE  Spec => []ScheduleNeverRaises
<1>1. Spec => [](QueueInv /\ TransferInv /\ EngineInv)
  BY EngineInvariant
<1>2. Spec => [](QueueInv /\ OutputInv)
  BY OutputInvariant
<1>3. Init => HashInv
  BY HashInit
<1>4. (QueueInv /\ TransferInv /\ EngineInv) /\ (QueueInv /\ OutputInv) /\ HashInv /\ [Next]_vars
        => HashInv'
  BY HashNext, NextSteps
<1>5. (QueueInv /\ TransferInv /\ EngineInv) /\ HashInv => ScheduleNeverRaises
  BY NothingRaises
<1> QED
  BY <1>1, <1>2, <1>3, <1>4, <1>5, PTL DEF Spec

-----------------------------------------------------------------------------
\* The tokens of a set of encoder inputs do not depend on the order in which they are
\* added up.
LengthOf(p) == EncoderInputs[p[1]][p[2]].length
SumsLengths(w, S) ==
  /\ w[{}] = 0
  /\ \A s \in SUBSET S : s # {} => w[s] = LengthOf(Picked(s)) + w[s \ {Picked(s)}]
LEMMA TokensIterate ==
  ASSUME NEW S, IsFiniteSet(S) PROVE \E w : SumsLengths(w, S) /\ TokensOfInputs(S) = w[S]
<1>1. PICK f : f = [p \in S |-> LengthOf(p)]
  OBVIOUS
<1>2. PICK g : Sums(g, f, S)
  BY SumsExist
<1>3. \A s \in SUBSET S : s # {} => f[Picked(s)] = LengthOf(Picked(s))
  BY <1>1, AnyLeaves
<1>4. g = [s \in SUBSET S |-> IF s = {} THEN 0
             ELSE EncoderInputs[Picked(s)[1]][Picked(s)[2]].length + g[s \ {Picked(s)}]]
  BY <1>2, <1>3 DEF Sums, LengthOf
<1>5. PICK w : /\ w = [s \in SUBSET S |-> IF s = {} THEN 0
                         ELSE EncoderInputs[Picked(s)[1]][Picked(s)[2]].length + w[s \ {Picked(s)}]]
               /\ TokensOfInputs(S) = w[S]
  BY <1>4 DEF TokensOfInputs, MapThenSumSet, MapThenFoldSet, Picked
<1>6. SumsLengths(w, S)
  BY <1>5 DEF SumsLengths, LengthOf
<1> QED
  BY <1>5, <1>6

LEMMA TokensAreSums ==
  ASSUME NEW U, IsFiniteSet(U)
  PROVE  \E w : SumsLengths(w, U) /\ \A S \in SUBSET U : TokensOfInputs(S) = w[S]
<1>1. PICK w : SumsLengths(w, U)
  BY TokensIterate
<1>2. ASSUME NEW S \in SUBSET U PROVE TokensOfInputs(S) = w[S]
  <2>1. IsFiniteSet(S)
    BY FS_Subset
  <2>2. PICK v : SumsLengths(v, S) /\ TokensOfInputs(S) = v[S]
    BY <2>1, TokensIterate
  <2> DEFINE T == {s \in SUBSET S : v[s] = w[s]}
  <2>3. {} \in T
    BY <1>1, <2>2 DEF SumsLengths
  <2>4. ASSUME NEW s \in SUBSET S, s # {}, s \ {Picked(s)} \in T PROVE s \in T
    <3>1. s \in SUBSET U
      OBVIOUS
    <3>2. /\ v[s] = LengthOf(Picked(s)) + v[s \ {Picked(s)}]
          /\ w[s] = LengthOf(Picked(s)) + w[s \ {Picked(s)}]
      BY <1>1, <2>2, <2>4, <3>1 DEF SumsLengths
    <3> QED
      BY <2>4, <3>2
  <2>5. \A s \in SUBSET S : s # {} /\ s \ {Picked(s)} \in T => s \in T
    BY <2>4
  <2> HIDE DEF T
  <2>6. \A s \in SUBSET S : s \in T
    BY <2>1, <2>3, <2>5, SetInduction
  <2> QED
    BY <2>2, <2>6 DEF T
<1> QED
  BY <1>1, <1>2

HaveLengths(U) == IsFiniteSet(U) /\ \A p \in U : LengthOf(p) \in Nat

LEMMA SumsAreNumbers ==
  ASSUME NEW U, HaveLengths(U), NEW w, SumsLengths(w, U)
  PROVE  \A s \in SUBSET U : w[s] \in Nat
<1>0. IsFiniteSet(U)
  BY DEF HaveLengths
<1> DEFINE T == {s \in SUBSET U : w[s] \in Nat}
<1>1. {} \in T
  BY DEF SumsLengths
<1>2. ASSUME NEW s \in SUBSET U, s # {}, s \ {Picked(s)} \in T PROVE s \in T
  <2>1. Picked(s) \in U
    BY <1>0, <1>2, AnyLeaves
  <2>2. w[s] = LengthOf(Picked(s)) + w[s \ {Picked(s)}]
    BY <1>2 DEF SumsLengths
  <2> QED
    BY <1>2, <2>1, <2>2 DEF HaveLengths
<1>3. \A s \in SUBSET U : s # {} /\ s \ {Picked(s)} \in T => s \in T
  BY <1>2
<1> HIDE DEF T
<1>4. \A s \in SUBSET U : s \in T
  BY <1>0, <1>1, <1>3, SetInduction
<1> QED
  BY <1>4 DEF T

\* Any of the inputs may be the last to be added.
AnyOrder(w, U) == \A s \in SUBSET U : \A x \in s : w[s] = LengthOf(x) + w[s \ {x}]
LEMMA AnyIsLast ==
  ASSUME NEW U, HaveLengths(U), NEW w, SumsLengths(w, U)
  PROVE  AnyOrder(w, U)
<1>0. IsFiniteSet(U)
  BY DEF HaveLengths
<1>1. PICK n \in Nat : n = Cardinality(U)
  BY <1>0, FS_CardinalityType
<1>2. \A s \in SUBSET U : IsFiniteSet(s) /\ Cardinality(s) \in Nat /\ Cardinality(s) <= n
  BY <1>0, <1>1, FS_Subset, FS_CardinalityType
<1>3. \A s \in SUBSET U : w[s] \in Nat
  BY SumsAreNumbers
<1> DEFINE Splits(s) == \A x \in s : w[s] = LengthOf(x) + w[s \ {x}]
           T == {m \in 0..n : \A s \in SUBSET U : Cardinality(s) <= m => Splits(s)}
<1>4. 0 \in T
  <2>1. \A s \in SUBSET U : Cardinality(s) <= 0 => Cardinality(s) = 0
    BY <1>2
  <2>2. \A s \in SUBSET U : Cardinality(s) <= 0 => s = {}
    BY <2>1, <1>2, FS_EmptySet
  <2> QED
    BY <2>2
<1>5. ASSUME NEW m \in 0..(n - 1), m \in T PROVE m + 1 \in T
  <2>1. ASSUME NEW s \in SUBSET U, Cardinality(s) <= m + 1, NEW x \in s
        PROVE  w[s] = LengthOf(x) + w[s \ {x}]
    <3>1. PICK y, a, b, c : y = Picked(s) /\ a = s \ {x} /\ b = s \ {y} /\ c = (s \ {x}) \ {y}
      OBVIOUS
    <3>2. y \in s /\ y \in U /\ x \in U /\ a \in SUBSET U /\ b \in SUBSET U /\ c \in SUBSET U
      BY <3>1, <1>0, AnyLeaves
    <3>3. w[s] = LengthOf(y) + w[b]
      BY <2>1, <3>1 DEF SumsLengths
    <3>4. CASE x = y
      BY <3>1, <3>3, <3>4
    <3>5. CASE x # y
      <4>1. Cardinality(a) = Cardinality(s) - 1 /\ Cardinality(b) = Cardinality(s) - 1
        BY <3>1, <3>2, <1>2, FS_RemoveElement
      <4>2. Cardinality(a) <= m /\ Cardinality(b) <= m
        BY <4>1, <2>1, <1>2
      <4>3. y \in a /\ x \in b /\ a \ {y} = c /\ b \ {x} = c
        BY <3>1, <3>2, <3>5
      <4>4. w[a] = LengthOf(y) + w[c] /\ w[b] = LengthOf(x) + w[c]
        BY <4>2, <4>3, <3>2, <1>5
      <4>5. LengthOf(x) \in Nat /\ LengthOf(y) \in Nat /\ w[c] \in Nat
        BY <3>2, <1>3 DEF HaveLengths
      <4> QED
        BY <4>4, <4>5, <3>1, <3>3
    <3> QED
      BY <3>4, <3>5
  <2>2. m + 1 \in 0..n
    OBVIOUS
  <2> QED
    BY <2>1, <2>2
<1>6. \A m \in 0..n : m \in T
  <2> HIDE DEF T
  <2> QED
    BY <1>4, <1>5, CountUp
<1>7. n \in T
  BY <1>6
<1> QED
  BY <1>2, <1>7 DEF AnyOrder

\* The tokens of two sets of inputs with none in common.
LEMMA TokensAdd ==
  ASSUME NEW S, NEW X, HaveLengths(S \cup X), S \cap X = {}
  PROVE  /\ TokensOfInputs(S \cup X) = TokensOfInputs(S) + TokensOfInputs(X)
         /\ TokensOfInputs(S) \in Nat /\ TokensOfInputs(X) \in Nat
<1>1. PICK U : U = S \cup X
  OBVIOUS
<1>2. HaveLengths(U) /\ IsFiniteSet(U) /\ IsFiniteSet(X)
  BY <1>1, FS_Subset DEF HaveLengths
<1>3. PICK w : SumsLengths(w, U) /\ \A s \in SUBSET U : TokensOfInputs(s) = w[s]
  BY <1>2, TokensAreSums
<1>4. \A s \in SUBSET U : w[s] \in Nat
  BY <1>2, <1>3, SumsAreNumbers
<1>5. \A s \in SUBSET U : \A x \in s : w[s] = LengthOf(x) + w[s \ {x}]
  <2>1. HaveLengths(U) /\ SumsLengths(w, U)
    BY <1>2, <1>3
  <2>2. AnyOrder(w, U)
    BY <2>1, AnyIsLast
  <2> QED
    BY <2>2 DEF AnyOrder
<1> DEFINE T == {t \in SUBSET X : w[S \cup t] = w[S] + w[t]}
<1>6. {} \in T
  <2>1. S \cup {} = S /\ w[{}] = 0 /\ w[S] \in Nat
    BY <1>1, <1>3, <1>4 DEF SumsLengths
  <2> QED
    BY <2>1
<1>7. ASSUME NEW t \in SUBSET X, t # {}, t \ {Picked(t)} \in T PROVE t \in T
  <2>1. PICK x, a, b, c : x = Picked(t) /\ a = t \ {x} /\ b = S \cup t /\ c = S \cup a
    OBVIOUS
  <2>2. x \in t /\ x \in X
    BY <2>1, <1>2, <1>7, AnyLeaves
  <2>3. b \ {x} = c /\ x \in b
    BY <2>1, <2>2
  <2>4. t \in SUBSET U /\ b \in SUBSET U /\ c \in SUBSET U /\ a \in SUBSET U /\ x \in U /\ S \in SUBSET U
    BY <1>1, <2>1, <2>2
  <2>5. w[b] = LengthOf(x) + w[c] /\ w[t] = LengthOf(x) + w[a]
    BY <2>1, <2>2, <2>3, <2>4, <1>5
  <2>6. w[c] = w[S] + w[a]
    BY <2>1, <1>7
  <2>7. LengthOf(x) \in Nat /\ w[S] \in Nat /\ w[a] \in Nat
    BY <2>4, <1>2, <1>4 DEF HaveLengths
  <2>8. w[b] = w[S] + w[t]
    BY <2>5, <2>6, <2>7
  <2> QED
    BY <2>1, <2>8
<1>8. \A t \in SUBSET X : t # {} /\ t \ {Picked(t)} \in T => t \in T
  BY <1>7
<1> HIDE DEF T
<1>9. \A t \in SUBSET X : t \in T
  BY <1>2, <1>6, <1>8, SetInduction
<1>10. X \in T /\ S \in SUBSET U /\ X \in SUBSET U /\ U \in SUBSET U
  BY <1>1, <1>9
<1>11. w[U] = w[S] + w[X]
  BY <1>1, <1>10 DEF T
<1> QED
  BY <1>1, <1>3, <1>4, <1>10, <1>11

LEMMA TokensOfNone == TokensOfInputs({}) = 0
<1>1. IsFiniteSet({})
  BY FS_EmptySet
<1> QED
  BY <1>1, TokensIterate DEF SumsLengths

LEMMA TokensOfOne ==
  ASSUME NEW p, LengthOf(p) \in Nat PROVE TokensOfInputs({p}) = LengthOf(p)
<1>1. IsFiniteSet({p})
  BY FS_Singleton
<1>2. PICK w : SumsLengths(w, {p}) /\ TokensOfInputs({p}) = w[{p}]
  BY <1>1, TokensIterate
<1>3. Picked({p}) = p /\ {p} \ {p} = {}
  BY DEF Picked
<1> QED
  BY <1>2, <1>3 DEF SumsLengths

-----------------------------------------------------------------------------
\* The requests that the workers know are alive, or the workers are told of their end with
\* the next output; those that schedule() makes known to them are alive.
Told == IF call.phase = "execute" THEN call.output.finished ELSE finished_req_ids
KnowsInv ==
  /\ \A r \in worker.requests : r \in Req /\ (Live(r) \/ r \in Told)
  /\ SchedPhase \/ call.phase = "execute" =>
       /\ call.output.new \in Seq(Req)
       /\ \A r \in Members(call.output.new) : Live(r)

LEMMA KnowsInit == Init => KnowsInv
<1> SUFFICES ASSUME Init PROVE KnowsInv
  OBVIOUS
<1>1. worker.requests = {} /\ call.phase = "idle"
  BY DEF Init, SchedulerInit, NoCall
<1> QED
  BY <1>1 DEF KnowsInv, SchedPhase

\* schedule() ends no request.
LEMMA ScheduleEndsNone ==
  ASSUME QueueInv, ScheduleSteps, NEW q \in Req, Live(q) PROVE Live(q)'
<1>1. CASE StatusKept(q)
  BY <1>1 DEF Live, StatusKept
<1>2. CASE SkipRunning \/ RunningLoopEnds \/ SkipWaiting \/ WaitingLoopEnds
  BY <1>2 DEF SkipRunning, RunningLoopEnds, SkipWaiting, WaitingLoopEnds, Live
<1>3. CASE ScheduleRunning
  <2>1. PICK r : r = Current
    OBVIOUS
  <2>2. r \in Req
    BY <1>3, <2>1, RunningIsCurrent DEF ScheduleRunning
  <2>3. \E n : req' = [req EXCEPT ![r].spec_token_ids = n]
    BY <1>3, <2>1 DEF ScheduleRunning
  <2> QED
    BY <2>2, <2>3 DEF QueueInv, Shapes, ReqFields, Live
<1>4. CASE PreemptLast
  <2>1. PICK r : r = running[Len(running)]
    OBVIOUS
  <2>2. r \in Req
    BY <1>4, <2>1, RunningIsCurrent DEF PreemptLast
  <2>3. req' = [req EXCEPT ![r].status = "PREEMPTED", ![r].num_computed_tokens = 0]
    BY <1>4, <2>1 DEF PreemptLast
  <2> QED
    BY <2>2, <2>3 DEF QueueInv, Shapes, ReqFields, Live
<1>5. CASE SkipLora \/ ScheduleWaiting \/ LoadRemote \/ StopAtWaiting
  <2>1. PICK r : r = Head(waiting)
    OBVIOUS
  <2>2. r \in Req /\ \A p \in Req \ {r} : StatusKept(p)
    BY <1>5, <2>1, HeadStatus
  <2>3. InWaitingLoop
    BY <1>5 DEF SkipLora, ScheduleWaiting, LoadRemote, StopAtWaiting, LooksUpHead, ConsidersHead
  <2>4. \E s, n : /\ s \in Waits \cup {"RUNNING"}
                  /\ \/ req' = [req EXCEPT ![r].status = s, ![r].num_computed_tokens = n]
                     \/ req' = [req EXCEPT ![r].status = s]
    <3>1. PICK s, n : s = StatusAtHead(r) /\ n = ComputedAtHead(r) /\ s \in Waits
      BY <2>1, <2>3, HeadBecomes
    <3>2. CASE SkipLora \/ StopAtWaiting
      <4>1. req' = [req EXCEPT ![r].status = s, ![r].num_computed_tokens = n]
        BY <3>1, <3>2, <2>1 DEF SkipLora, StopAtWaiting, ReqAtHead
      <4> QED
        BY <4>1, <3>1
    <3>3. CASE LoadRemote
      <4>1. req' = [req EXCEPT ![r].status = "WAITING_FOR_REMOTE_KVS"]
        BY <3>3, <2>1 DEF LoadRemote
      <4>2. "WAITING_FOR_REMOTE_KVS" \in Waits
        BY DEF Waits
      <4> QED
        BY <4>1, <4>2
    <3>4. CASE ScheduleWaiting
      BY <3>4, <2>1 DEF ScheduleWaiting
    <3> QED
      BY <1>5, <3>2, <3>3, <3>4
  <2>5. req'[r].status \in Waits \cup {"RUNNING"}
    BY <2>2, <2>4 DEF QueueInv, Shapes, ReqFields
  <2>6. CASE q = r
    BY <2>5, <2>6 DEF Live, Waits
  <2>7. CASE q # r
    BY <2>2, <2>7, <1>1
  <2> QED
    BY <2>6, <2>7
<1> QED
  BY <1>2, <1>3, <1>4, <1>5 DEF ScheduleSteps

\* A request that ends is told of.
LEMMA UpdateEnds ==
  ASSUME QueueInv, UpdateSteps, NEW q \in Req, Live(q)
  PROVE  Live(q)' \/ q \in finished_req_ids'
<1>1. CASE KeepUnscheduled \/ EndUpdate
  BY <1>1 DEF KeepUnscheduled, EndUpdate, Live
<1>2. CASE UpdateScheduled
  <2>1. PICK r : r = Current
    OBVIOUS
  <2>2. r \in Req
    BY <1>2, <2>1, CurrentRuns DEF UpdateScheduled
  <2>3. PICK g : (\E d : UpdateContinues(r, g, d)) \/ UpdateStops(r, g)
    BY <1>2, <2>1 DEF UpdateScheduled
  <2>4. CASE \E d : UpdateContinues(r, g, d)
    <3>0. PICK d, t, n : /\ UpdateContinues(r, g, d)
                         /\ t = req[r].num_tokens + g /\ n = ComputedAfter(r, g)
      BY <2>4
    <3>1. req' = [req EXCEPT ![r].num_tokens = t, ![r].num_computed_tokens = n,
                             ![r].spec_token_ids = d]
      BY <3>0 DEF UpdateContinues
    <3> QED
      BY <3>1, <2>2 DEF QueueInv, Shapes, ReqFields, Live
  <2>5. CASE UpdateStops(r, g)
    <3>1. /\ \E t, n : req' = [req EXCEPT ![r].status = "FINISHED", ![r].num_tokens = t,
                                       ![r].num_computed_tokens = n]
          /\ finished_req_ids' = finished_req_ids \cup {r}
      BY <2>5 DEF UpdateStops, free_request
    <3>2. \A p \in Req \ {r} : StatusKept(p)
      BY <3>1, <2>2, StatusChanges
    <3> QED
      BY <3>1, <3>2 DEF StatusKept, Live
  <2> QED
    BY <2>3, <2>4, <2>5
<1> QED
  BY <1>1, <1>2 DEF UpdateSteps

\* The workers are told nothing, and no request ends without being kept for the next output.
LEMMA KnowsFrame ==
  ASSUME KnowsInv, worker'.requests = worker.requests, call.phase # "execute", call'.phase # "execute",
         finished_req_ids \subseteq finished_req_ids',
         \A q \in Req : Live(q) => Live(q)' \/ q \in finished_req_ids',
         ~SchedPhase'
  PROVE  KnowsInv'
BY DEF KnowsInv, Told

LEMMA KnowsSame ==
  ASSUME KnowsInv, worker'.requests = worker.requests, UNCHANGED <<call, finished_req_ids, req>>
  PROVE  KnowsInv'
BY DEF KnowsInv, Told, SchedPhase, Live

\* Whom an output makes known when a request is scheduled.
LEMMA NewRecorded ==
  ASSUME NEW k, DOMAIN k = OutputFields, NEW r \in Req, NEW n, NEW c, NEW d, NEW b, NEW I, NEW p, NEW o,
         p = Scheduled(k, r, n, c, d, b, I),
         o \in {[p EXCEPT !.ran = Append(@, r)], [p EXCEPT !.resumed = Append(@, r)],
                [p EXCEPT !.new = Append(@, r)]}
  PROVE  o.new \in {k.new, Append(k.new, r)}
<1>1. PICK X : X = InputsOf(r, I)
  OBVIOUS
<1>2. p = [k EXCEPT !.num_scheduled_tokens[r] = n, !.spec[r] = d,
                    !.num_computed_tokens[r] = c, !.encoder_inputs = @ \cup X,
                    !.num_tokens[r] = req[r].num_tokens, !.new_block_ids[r] = b]
  BY <1>1 DEF Scheduled
<1>3. DOMAIN p = OutputFields /\ p.new = k.new
  BY <1>2 DEF OutputFields
<1> QED
  BY <1>3 DEF OutputFields

\* The inputs that are scheduled with a request are those of a plan.
Planned(r, I) == \E c, n, b : I = try_schedule_encoder_inputs(enc, r, c, n, b).inputs
LEMMA ScheduledNew ==
  ASSUME QueueInv, EngineInv, ScheduleRunning \/ ScheduleWaiting
  PROVE  \E r, I : /\ r \in Req /\ req'[r].status = "RUNNING"
                  /\ call'.output.new \in {call.output.new, Append(call.output.new, r)}
                  /\ call'.phase = call.phase /\ call.phase \in {"running", "waiting"}
                  /\ Planned(r, I) /\ enc' = allocate_inputs(enc, r, I)
                  /\ Adds(call.output, call'.output, r, I)
<1>0. DOMAIN call = CallFields
  BY DEF QueueInv, Shapes
<1>k. PICK k : k = call.output
  OBVIOUS
<1>1. CASE ScheduleRunning
  <2>1. PICK r, n, I, d, b, nc :
        /\ r = Current /\ n = NewTokensOfRunning(r) /\ I = PlanOfRunning(r).inputs
        /\ d = DraftTokens(r, n) /\ nc = req[r].num_computed_tokens
        /\ b = SubSeq(kvm'.req_to_blocks[r], Len(kvm.req_to_blocks[r]) + 1,
                      Len(kvm'.req_to_blocks[r]))
    BY Zenon
  <2>2. /\ InRunningLoop /\ enc' = allocate_inputs(enc, r, I)
        /\ \E s : req' = [req EXCEPT ![r].spec_token_ids = s]
        /\ \E e : call' = [call EXCEPT !.req_index = @ + 1, !.token_budget = @ - n,
                             !.encoder_budget = e,
                             !.output = LET o == Scheduled(@, r, n, nc, d, b, I)
                                        IN [o EXCEPT !.ran = Append(@, r)]]
    BY <1>1, <2>1 DEF ScheduleRunning
  <2>3. PICK e, p, o : /\ p = Scheduled(k, r, n, nc, d, b, I)
                       /\ o = [p EXCEPT !.ran = Append(@, r)]
                       /\ call' = [call EXCEPT !.req_index = @ + 1, !.token_budget = @ - n,
                                               !.encoder_budget = e, !.output = o]
    BY <2>2, <1>k
  <2>4. call'.phase = call.phase /\ call'.output = o
    BY <2>3, <1>0 DEF CallFields
  <2>5. r \in Req /\ req[r].status = "RUNNING" /\ DOMAIN k = OutputFields
    BY <2>1, <2>2, <1>k, CurrentToRun DEF EngineInv, OutsOK, OutputGood, OutputShape
  <2>6. o.new \in {k.new, Append(k.new, r)} /\ Adds(k, o, r, I)
    BY <2>3, <2>5, NewRecorded, InputsRecorded
  <2>8. Planned(r, I)
    BY <2>1 DEF Planned, PlanOfRunning
  <2>7. req'[r].status = "RUNNING"
    BY <2>2, <2>5 DEF QueueInv, Shapes, ReqFields
  <2> QED
    BY <2>2, <2>4, <2>5, <2>6, <2>7, <2>8, <1>k DEF InRunningLoop
<1>2. CASE ScheduleWaiting
  <2>1. PICK r, n, b, I, local :
        /\ r = Head(waiting) /\ n = NewTokensOfWaiting(r) /\ b = kvm'.req_to_blocks[r]
        /\ I = PlanOfWaiting(r).inputs /\ local = LocalComputed(r)
    BY Zenon
  <2>2. /\ InWaitingLoop /\ enc' = allocate_inputs(enc, r, I)
        /\ req' = [req EXCEPT ![r].status = "RUNNING", ![r].num_computed_tokens = local]
        /\ \E e : call' = [call EXCEPT !.token_budget = @ - n, !.encoder_budget = e,
                        !.output = LET o == Scheduled(@, r, n, local, 0, b, I)
                                   IN IF StatusAtHead(r) = "PREEMPTED"
                                      THEN [o EXCEPT !.resumed = Append(@, r)]
                                      ELSE [o EXCEPT !.new = Append(@, r)]]
    BY <1>2, <2>1 DEF ScheduleWaiting, LooksUpHead, ConsidersHead
  <2>3. PICK e, p, o :
          /\ p = Scheduled(k, r, n, local, 0, b, I)
          /\ o = IF StatusAtHead(r) = "PREEMPTED" THEN [p EXCEPT !.resumed = Append(@, r)]
                 ELSE [p EXCEPT !.new = Append(@, r)]
          /\ call' = [call EXCEPT !.token_budget = @ - n, !.encoder_budget = e, !.output = o]
    BY <2>2, <1>k
  <2>x. call' = [call EXCEPT !.token_budget = @ - n, !.encoder_budget = e, !.output = o]
    BY <2>3
  <2>4. call'.phase = call.phase /\ call'.output = o
    BY <2>x, <1>0 DEF CallFields
  <2>5. r \in Req /\ DOMAIN k = OutputFields /\ call.phase = "waiting"
    BY <2>1, <2>2, <1>k, HeadWaits DEF EngineInv, OutsOK, OutputGood, OutputShape
  <2>y. o \in {[p EXCEPT !.ran = Append(@, r)], [p EXCEPT !.resumed = Append(@, r)],
                [p EXCEPT !.new = Append(@, r)]}
    BY <2>3
  <2>6. o.new \in {k.new, Append(k.new, r)} /\ Adds(k, o, r, I)
    BY <2>3, <2>5, <2>y, NewRecorded, InputsRecorded
  <2>8. Planned(r, I)
    BY <2>1 DEF Planned, PlanOfWaiting
  <2>7. req'[r].status = "RUNNING"
    BY <2>2, <2>5 DEF QueueInv, Shapes, ReqFields
  <2> QED
    BY <2>2, <2>4, <2>5, <2>6, <2>7, <2>8, <1>k
<1> QED
  BY <1>1, <1>2

LEMMA KnowsSchedule ==
  ASSUME QueueInv, EngineInv, KnowsInv, ScheduleSteps, UNCHANGED worker PROVE KnowsInv'
<1>1. \A q \in Req : Live(q) => Live(q)'
  BY ScheduleEndsNone
<1>2. finished_req_ids' = finished_req_ids
  BY DEF ScheduleSteps, SkipRunning, ScheduleRunning, PreemptLast, RunningLoopEnds, SkipWaiting,
     SkipLora, ScheduleWaiting, LoadRemote, StopAtWaiting, WaitingLoopEnds
<1>3. /\ SchedPhase /\ SchedPhase'
      /\ call'.output.new \in Seq(Req) /\ \A q \in Members(call'.output.new) : Live(q)'
  <2>1. CASE OtherScheduleSteps
    <3>1. call'.output = call.output /\ SchedPhase /\ SchedPhase'
      BY <2>1, OutputStanding DEF OutputStands
    <3>2. call.output.new \in Seq(Req) /\ \A q \in Members(call.output.new) : Live(q)
      BY <3>1 DEF KnowsInv
    <3> QED
      BY <3>1, <3>2, <1>1 DEF Members
  <2>2. CASE ScheduleRunning \/ ScheduleWaiting
    <3>1. PICK r : /\ r \in Req /\ req'[r].status = "RUNNING"
                   /\ call'.output.new \in {call.output.new, Append(call.output.new, r)}
                   /\ call'.phase = call.phase /\ call.phase \in {"running", "waiting"}
      BY <2>2, ScheduledNew
    <3>2. PICK s, t : s = call.output.new /\ t = call'.output.new
      OBVIOUS
    <3>3. SchedPhase /\ SchedPhase' /\ s \in Seq(Req) /\ \A q \in Members(s) : Live(q)
      BY <3>1, <3>2 DEF KnowsInv, SchedPhase
    <3>a. PICK a, n : a = Append(s, r) /\ n = Len(s)
      OBVIOUS
    <3>b. /\ n \in Nat /\ DOMAIN s = 1..n /\ a \in Seq(Req) /\ DOMAIN a = 1..(n + 1)
          /\ \A i \in 1..(n + 1) : a[i] = IF i = n + 1 THEN r ELSE s[i]
      BY <3>1, <3>3, <3>a
    <3>c. \A i \in 1..(n + 1) : i = n + 1 \/ i \in 1..n
      BY <3>b
    <3>d. Members(a) \subseteq Members(s) \cup {r}
      BY <3>b, <3>c DEF Members
    <3>4. t \in Seq(Req) /\ Members(t) \subseteq Members(s) \cup {r}
      BY <3>1, <3>2, <3>3, <3>a, <3>b, <3>d
    <3>5. \A q \in Members(s) : q \in Req
      BY <3>3 DEF Members
    <3>6. Live(r)'
      BY <3>1 DEF Live
    <3>7. \A q \in Members(t) : Live(q)'
      BY <3>3, <3>4, <3>5, <3>6, <1>1
    <3> QED
      BY <3>2, <3>3, <3>4, <3>7
  <2> QED
    BY <2>1, <2>2 DEF ScheduleSteps, OtherScheduleSteps
<1>4. call.phase # "execute" /\ call'.phase # "execute"
  BY <1>3 DEF SchedPhase
<1> QED
  BY <1>1, <1>2, <1>3, <1>4 DEF KnowsInv, Told

LEMMA KnowsClient ==
  ASSUME QueueInv, KnowsInv, NEW r \in Req, AddRequest(r) \/ AbortRequest(r) \/ CompileGrammar(r)
  PROVE  KnowsInv'
<1>1. CASE AddRequest(r)
  <2>1. /\ call.phase = "idle" /\ UNCHANGED <<call, finished_req_ids, worker>>
        /\ req' = [req EXCEPT ![r].status = IF r \in Guided THEN "WAITING_FOR_FSM" ELSE "WAITING"]
    BY <1>1 DEF AddRequest, add_request
  <2>2. \A q \in Req : Live(q) => Live(q)'
    BY <2>1 DEF QueueInv, Shapes, ReqFields, Live
  <2>3. ~SchedPhase' /\ call'.phase # "execute"
    BY <2>1 DEF SchedPhase
  <2> QED
    BY <2>1, <2>2, <2>3, KnowsFrame
<1>2. CASE AbortRequest(r)
  <2>1. /\ call.phase = "idle" /\ UNCHANGED <<call, worker>>
        /\ finished_req_ids' = finished_req_ids \cup {r}
        /\ req' = [req EXCEPT ![r].status = "FINISHED"]
    BY <1>2 DEF AbortRequest, finish_requests, free_request
  <2>2. \A q \in Req : Live(q) => Live(q)' \/ q \in finished_req_ids'
    BY <2>1 DEF QueueInv, Shapes, ReqFields, Live
  <2>3. ~SchedPhase' /\ call'.phase # "execute"
    BY <2>1 DEF SchedPhase
  <2> QED
    BY <2>1, <2>2, <2>3, KnowsFrame
<1>3. CASE CompileGrammar(r)
  BY <1>3, KnowsSame DEF CompileGrammar, GrammarCompiled
<1> QED
  BY <1>1, <1>2, <1>3

\* What the output of schedule() tells the workers of requests.
LEMMA OutputNames ==
  ASSUME OutputGood(call.output), NEW p, p = OutputOfCall
  PROVE  p.finished = finished_req_ids /\ p.new = call.output.new
<1>1. PICK o, f, e, m : o = call.output /\ f = finished_req_ids /\ e = enc.freed /\ m = conn.reqs_need_recv
  OBVIOUS
<1>2. DOMAIN o = OutputFields
  BY <1>1 DEF OutputGood, OutputShape
<1>3. p = [o EXCEPT !.finished = f, !.free_encoder_input_ids = e, !.kv_meta = m]
  BY <1>1 DEF OutputOfCall
<1>4. p.finished = f /\ p.new = o.new
  BY <1>2, <1>3 DEF OutputFields
<1> QED
  BY <1>1, <1>4

LEMMA KnowsDispatches ==
  ASSUME MaxConcurrentBatches = 1, QueueInv, EngineInv, KnowsInv, StepDispatches PROVE KnowsInv'
<1>1. PICK p : p = OutputOfCall
  OBVIOUS
<1>2. /\ call.phase = "finish" /\ worker' = worker
      /\ call' = [NoCall EXCEPT !.phase = "execute", !.output = p]
      /\ req' = [r \in Req |-> [req[r] EXCEPT
                   !.num_computed_tokens = @ + call.output.num_scheduled_tokens[r]]]
  BY <1>1 DEF StepDispatches, EndSchedule
<1>3. call'.phase = "execute" /\ call'.output = p /\ SchedPhase
  BY <1>2 DEF NoCall, SchedPhase
<1>4. p.finished = finished_req_ids /\ p.new = call.output.new
  <2>1. OutputGood(call.output)
    BY <1>3 DEF EngineInv, OutsOK
  <2> QED
    BY <2>1, <1>1, OutputNames
<1>5. \A q \in Req : Live(q) => Live(q)'
  BY <1>2 DEF QueueInv, Shapes, ReqFields, Live
<1>6. /\ call.output.new \in Seq(Req) /\ \A q \in Members(call.output.new) : Live(q)
      /\ \A q \in worker.requests : q \in Req /\ (Live(q) \/ q \in finished_req_ids)
  BY <1>2, <1>3 DEF KnowsInv, Told
<1>7. \A q \in Members(call.output.new) : q \in Req
  BY <1>6 DEF Members
<1> QED
  BY <1>2, <1>3, <1>4, <1>5, <1>6, <1>7 DEF KnowsInv, Told

LEMMA UpdatedRequests ==
  ASSUME DOMAIN worker = WorkerFields, NEW o, NEW x
  PROVE  [UpdatedWorker(worker, o) EXCEPT !.transfers = x].requests
           = (worker.requests \ o.finished) \cup Members(o.new)
<1>1. PICK y, z, w : /\ y = (worker.requests \ o.finished) \cup Members(o.new)
                     /\ z = CacheAfter(worker.encoder_cache, o.finished, o.free_encoder_input_ids,
                                       o.encoder_inputs)
                     /\ w = UpdatedWorker(worker, o)
  OBVIOUS
<1>2. w = [worker EXCEPT !.requests = y, !.encoder_cache = z]
  BY <1>1 DEF UpdatedWorker, CacheAfter
<1>3. DOMAIN w = WorkerFields /\ w.requests = y
  BY <1>2 DEF WorkerFields
<1>4. [w EXCEPT !.transfers = x].requests = y
  BY <1>3 DEF WorkerFields
<1> QED
  BY <1>1, <1>4

LEMMA KnowsExecute ==
  ASSUME TransferInv, KnowsInv, ExecuteModel PROVE KnowsInv'
<1>1. PICK o, x : /\ o = call.output
                  /\ worker' = [UpdatedWorker(worker, o) EXCEPT !.transfers = x]
  BY DEF ExecuteModel
<1>2. call.phase = "execute" /\ UNCHANGED <<req, finished_req_ids>> /\ call'.phase = "update"
  BY DEF ExecuteModel, BeginUpdate, NoCall
<1>3. worker'.requests = (worker.requests \ o.finished) \cup Members(o.new)
  BY <1>1, UpdatedRequests DEF TransferInv
<1>4. /\ o.new \in Seq(Req) /\ \A q \in Members(o.new) : Live(q)
      /\ \A q \in worker.requests : q \in Req /\ (Live(q) \/ q \in o.finished)
  BY <1>1, <1>2 DEF KnowsInv, Told
<1>5. \A q \in Members(o.new) : q \in Req
  BY <1>4 DEF Members
<1>6. \A q \in worker'.requests : q \in Req /\ Live(q)
  BY <1>3, <1>4, <1>5
<1> QED
  BY <1>2, <1>6 DEF KnowsInv, SchedPhase, Live

LEMMA KnowsNext ==
  ASSUME MaxConcurrentBatches = 1, QueueInv, TransferInv, EngineInv, KnowsInv, [Steps]_engineVars
  PROVE  KnowsInv'
<1>1. ASSUME NEW r \in Req, AddRequest(r) \/ AbortRequest(r) \/ CompileGrammar(r) PROVE KnowsInv'
  BY <1>1, KnowsClient
<1>2. ASSUME NEW k \in Ranks, NEW r \in Req, TransferArrives(k, r) \/ TransferIsRead(k, r)
      PROVE  KnowsInv'
  <2>1. UNCHANGED <<req, finished_req_ids, call>>
    BY <1>2 DEF TransferArrives, TransferIsRead, schedulerVars
  <2>2. \E x : worker' = [worker EXCEPT !.transfers = x]
    BY <1>2 DEF TransferArrives, TransferIsRead
  <2>3. worker'.requests = worker.requests
    BY <2>2 DEF TransferInv, WorkerFields
  <2> QED
    BY <2>1, <2>3, KnowsSame
<1>3. CASE ResetPrefixCache \/ UNCHANGED engineVars
  BY <1>3, KnowsSame DEF ResetPrefixCache, engineVars, schedulerVars
<1>4. CASE StepSchedules
  <2>1. /\ call.phase = "idle" /\ UNCHANGED <<req, finished_req_ids, worker>>
        /\ call'.phase = "running" /\ call'.output = NoOutput
    BY <1>4 DEF StepSchedules, BeginSchedule, NoCall
  <2>2. NoOutput.new = << >> /\ << >> \in Seq(Req) /\ Members(<< >>) = {}
    BY DEF NoOutput, Members
  <2>3. \A q \in Req : Live(q)' <=> Live(q)
    BY <2>1 DEF Live
  <2> QED
    BY <2>1, <2>2, <2>3 DEF KnowsInv, Told
<1>5. CASE StepDrains
  BY <1>5 DEF StepDrains, BatchQueueFull
<1>6. CASE UpdateSteps /\ UNCHANGED worker
  <2>1. \A q \in Req : Live(q) => Live(q)' \/ q \in finished_req_ids'
    BY <1>6, UpdateEnds
  <2>2. /\ call.phase = "update" /\ call'.phase \in {"update", "idle"}
        /\ finished_req_ids \subseteq finished_req_ids'
    <3>1. DOMAIN call = CallFields
      BY DEF QueueInv, Shapes
    <3>2. CASE KeepUnscheduled
      BY <3>1, <3>2 DEF KeepUnscheduled, CallFields, InUpdateLoop
    <3>3. CASE UpdateScheduled
      <4>1. /\ InUpdateLoop /\ finished_req_ids \subseteq finished_req_ids'
            /\ \/ call' = [call EXCEPT !.req_index = @ + 1, !.new_running = Append(@, Current)]
               \/ call' = [call EXCEPT !.req_index = @ + 1]
        BY <3>3 DEF UpdateScheduled, UpdateContinues, UpdateStops, free_request
      <4> QED
        BY <3>1, <4>1 DEF CallFields, InUpdateLoop
    <3>4. CASE EndUpdate
      BY <3>4 DEF EndUpdate, NoCall
    <3> QED
      BY <1>6, <3>2, <3>3, <3>4 DEF UpdateSteps
  <2>3. ~SchedPhase' /\ call.phase # "execute" /\ call'.phase # "execute"
    BY <2>2 DEF SchedPhase
  <2> QED
    BY <1>6, <2>1, <2>2, <2>3, KnowsFrame
<1>7. CASE EngineStep
  BY <1>4, <1>5, <1>6, <1>7, KnowsSchedule, KnowsDispatches, KnowsExecute DEF EngineStep
<1> QED
  BY <1>1, <1>2, <1>3, <1>7 DEF Steps

-----------------------------------------------------------------------------
\* No request has two encoder inputs: _try_schedule_encoder_inputs compares the free slots
\* with each input on its own, so that two inputs of one plan may take more than there is.
OneInput == \A r \in Req : Len(EncoderInputs[r]) <= 1

\* The workers will keep nothing that the scheduler does not count on, and the free slots
\* are what the cached inputs leave.
SlotsInv ==
  /\ AtWorkers \subseteq enc.cached
  /\ IsFiniteSet(enc.cached)
  /\ enc.num_free_slots \in Nat
  /\ enc.num_free_slots + TokensOfInputs(enc.cached) = EncoderCacheSize

LEMMA SlotsInit == Init => SlotsInv
<1> SUFFICES ASSUME Init PROVE SlotsInv
  OBVIOUS
<1>1. enc = InitEncoderCache /\ call.phase = "idle" /\ worker.encoder_cache = {}
  BY DEF Init, SchedulerInit, NoCall
<1>2. enc.cached = {} /\ enc.num_free_slots = EncoderCacheSize
  BY <1>1 DEF InitEncoderCache
<1>3. AtWorkers = {}
  BY <1>1 DEF AtWorkers, CacheAfter, NewInputs, SchedPhase
<1>4. IsFiniteSet({}) /\ TokensOfInputs({}) = 0 /\ EncoderCacheSize \in Nat
  BY FS_EmptySet, TokensOfNone, EncoderAssumption
<1> QED
  BY <1>2, <1>3, <1>4 DEF SlotsInv

LEMMA InputHasLength ==
  ASSUME NEW p, IsInput(p) PROVE LengthOf(p) \in Nat
BY InputsAre DEF IsInput, LengthOf

LEMMA CachedHaveLengths ==
  ASSUME EncoderInv, SlotsInv PROVE HaveLengths(enc.cached)
<1>1. \A p \in enc.cached : LengthOf(p) \in Nat
  BY InputHasLength DEF EncoderInv
<1> QED
  BY <1>1 DEF HaveLengths, SlotsInv

LEMMA SlotsFrame ==
  ASSUME SlotsInv, UNCHANGED <<enc, finished_req_ids>>, call.phase # "execute",
         call'.phase # "execute",
         worker'.encoder_cache = worker.encoder_cache,
         SchedPhase' => SchedPhase /\ call'.output = call.output,
         SchedPhase => SchedPhase' \/ call.output.encoder_inputs = {}
  PROVE  SlotsInv'
<1>1. NewInputs' = NewInputs
  BY DEF NewInputs
<1>2. AtWorkers' = AtWorkers
  BY <1>1 DEF AtWorkers
<1> QED
  BY <1>2 DEF SlotsInv

LEMMA SlotsSame ==
  ASSUME SlotsInv, UNCHANGED <<enc, finished_req_ids, call>>,
         worker'.encoder_cache = worker.encoder_cache
  PROVE  SlotsInv'
<1>1. AtWorkers' = AtWorkers
  BY DEF AtWorkers, NewInputs, SchedPhase
<1> QED
  BY <1>1 DEF SlotsInv

\* Cached inputs of a request are given up.
LEMMA SlotsFrees ==
  ASSUME EncoderInv, SlotsInv, NEW r \in Req, NEW I, enc' = free_inputs(enc, r, I),
         I \subseteq get_cached_input_ids(enc, r),
         call.phase # "execute", call'.phase # "execute", ~SchedPhase, ~SchedPhase',
         worker'.encoder_cache = worker.encoder_cache,
         finished_req_ids \subseteq finished_req_ids'
  PROVE  SlotsInv'
<1>1. PICK X, S, C : X = InputsOf(r, I) /\ C = enc.cached /\ S = C \ X
  OBVIOUS
<1>2. /\ enc'.cached = S /\ enc'.freed = enc.freed \cup X
      /\ enc'.num_free_slots = enc.num_free_slots + TokensOfInputs(X)
  BY <1>1 DEF free_inputs, EncoderInv, EncoderFields
<1>3. X \subseteq C
  BY <1>1 DEF InputsOf, get_cached_input_ids
<1>4. S \cup X = C /\ S \cap X = {}
  BY <1>1, <1>3
<1>5. HaveLengths(C)
  BY <1>1, CachedHaveLengths
<1>6. HaveLengths(S \cup X) /\ S \cap X = {}
  BY <1>4, <1>5
<1>7. /\ TokensOfInputs(S \cup X) = TokensOfInputs(S) + TokensOfInputs(X)
      /\ TokensOfInputs(S) \in Nat /\ TokensOfInputs(X) \in Nat
  BY <1>6, TokensAdd
<1>8. PICK n, s, x, c : /\ n = enc.num_free_slots /\ s = TokensOfInputs(S) /\ x = TokensOfInputs(X)
                        /\ c = TokensOfInputs(C)
  OBVIOUS
<1>9. n \in Nat /\ n + c = EncoderCacheSize /\ c = s + x /\ s \in Nat /\ x \in Nat
  BY <1>1, <1>4, <1>7, <1>8 DEF SlotsInv
<1>10. enc'.num_free_slots \in Nat /\ enc'.num_free_slots + TokensOfInputs(enc'.cached) = EncoderCacheSize
  <2>1. n + x \in Nat /\ (n + x) + s = EncoderCacheSize
    BY <1>9
  <2> QED
    BY <2>1, <1>2, <1>8
<1>11. IsFiniteSet(enc'.cached)
  BY <1>1, <1>2, FS_Subset DEF SlotsInv
<1>12. AtWorkers' \subseteq enc'.cached
  <2>1. CacheAfter(worker.encoder_cache, finished_req_ids, enc.freed, {}) \subseteq C
    BY <1>1 DEF SlotsInv, AtWorkers, NewInputs
  <2>2. AtWorkers' = CacheAfter(worker.encoder_cache, finished_req_ids', enc.freed \cup X, {})
    BY <1>2 DEF AtWorkers, NewInputs
  <2>3. CacheAfter(worker.encoder_cache, finished_req_ids', enc.freed \cup X, {}) \subseteq C \ X
    BY <2>1 DEF CacheAfter
  <2> QED
    BY <2>2, <2>3, <1>1, <1>2
<1> QED
  BY <1>10, <1>11, <1>12 DEF SlotsInv

\* The inputs of a plan are not cached, and each has room of its own.
LEMMA PlanFits ==
  ASSUME NEW r \in Req, NEW I, Planned(r, I)
  PROVE  \A i \in I : /\ i \in DOMAIN EncoderInputs[r] /\ <<r, i>> \notin enc.cached
                      /\ EncoderInputs[r][i].length <= enc.num_free_slots
<1>1. PICK c, n, b : I = try_schedule_encoder_inputs(enc, r, c, n, b).inputs
  BY DEF Planned
<1> DEFINE needed == needed_inputs(enc, r, c, n)
           partial(i) == /\ DisableChunkedMMInput
                         /\ c < StartOf(r, i)
                         /\ c + n < EndOf(r, i)
           upto(i) == TokensOfInputs(InputsOf(r, {j \in needed : j <= i}))
           stops == {i \in needed : partial(i) \/ ~can_allocate(enc, r, i) \/ upto(i) > b}
<1>2. I = IF stops = {} THEN needed ELSE {i \in needed : i < Min(stops)}
  BY <1>1 DEF try_schedule_encoder_inputs
<1>3. stops \subseteq needed /\ \A i \in needed : i \in stops \/ can_allocate(enc, r, i)
  BY Zenon
<1>4. PICK N, T : N = needed /\ T = stops
  OBVIOUS
<1>5. T \subseteq N
  BY <1>3, <1>4
<1>6. /\ I = IF T = {} THEN N ELSE {i \in N : i < Min(T)}
      /\ \A i \in N : i \in T \/ can_allocate(enc, r, i)
  BY <1>2, <1>3, <1>4
<1>7. \A i \in N : i \in DOMAIN EncoderInputs[r] /\ <<r, i>> \notin enc.cached
  BY <1>4 DEF needed_inputs, get_cached_input_ids
<1> HIDE DEF needed, partial, upto, stops
<1>8. N \subseteq Nat
  <2>1. PICK l : l = Len(EncoderInputs[r])
    OBVIOUS
  <2>2. l \in Nat /\ DOMAIN EncoderInputs[r] = 1..l
    BY <2>1, InputsAre
  <2>3. ASSUME NEW i \in N PROVE i \in Nat
    <3>1. i \in 1..l
      BY <2>2, <1>7
    <3> QED
      BY <3>1, <2>2
  <2> QED
    BY <2>3
<1>9. ASSUME NEW i \in I PROVE i \in N /\ i \notin T
  <2>1. CASE T = {}
    BY <2>1, <1>6
  <2>2. CASE T # {}
    <3>1. PICK k : k = Min(T)
      OBVIOUS
    <3>2. \E j \in T : \A m \in T : j <= m
      BY <2>2, <1>5, <1>8, Smallest
    <3>3. k \in T /\ \A m \in T : k <= m
      BY <3>1, <3>2 DEF Min
    <3>4. i \in N /\ i < k
      BY <2>2, <3>1, <1>6
    <3>5. i \in Nat /\ k \in Nat
      BY <3>3, <3>4, <1>5, <1>8
    <3> QED
      BY <3>3, <3>4, <3>5
  <2> QED
    BY <2>1, <2>2
<1> QED
  BY <1>6, <1>7, <1>9 DEF can_allocate

\* A request is scheduled, with the inputs of its plan.
LEMMA SlotsJoins ==
  ASSUME OneInput, EncoderInv, SlotsInv, NEW r \in Req, NEW I, Planned(r, I),
         enc' = allocate_inputs(enc, r, I), Adds(call.output, call'.output, r, I),
         call'.phase = call.phase, call.phase \in {"running", "waiting"},
         UNCHANGED <<worker, finished_req_ids>>
  PROVE  SlotsInv'
<1>1. PICK X, C, U : X = InputsOf(r, I) /\ C = enc.cached /\ U = C \cup X
  OBVIOUS
<1>2. /\ enc'.cached = U /\ enc'.freed = enc.freed
      /\ enc'.num_free_slots = enc.num_free_slots - TokensOfInputs(X)
  BY <1>1 DEF allocate_inputs, EncoderInv, EncoderFields
<1>3. \A i \in I : /\ i = 1 /\ <<r, i>> \notin C /\ EncoderInputs[r][i].length \in Nat
                   /\ EncoderInputs[r][i].length <= enc.num_free_slots
  <2>1. \A i \in I : /\ i \in DOMAIN EncoderInputs[r] /\ <<r, i>> \notin C
                     /\ EncoderInputs[r][i].length <= enc.num_free_slots
    BY <1>1, PlanFits
  <2>2. PICK l : l = Len(EncoderInputs[r])
    OBVIOUS
  <2>3. /\ l \in Nat /\ l <= 1 /\ DOMAIN EncoderInputs[r] = 1..l
        /\ \A i \in 1..l : EncoderInputs[r][i].length \in Nat
    BY <2>2, InputsAre DEF OneInput
  <2>4. ASSUME NEW i \in I PROVE i = 1 /\ EncoderInputs[r][i].length \in Nat
    <3>1. i \in 1..l
      BY <2>1, <2>3
    <3> QED
      BY <3>1, <2>3
  <2> QED
    BY <2>1, <2>4
<1>4. HaveLengths(C)
  BY <1>1, CachedHaveLengths
<1>5. PICK n, c, x : n = enc.num_free_slots /\ c = TokensOfInputs(C) /\ x = TokensOfInputs(X)
  OBVIOUS
<1>6. n \in Nat /\ n + c = EncoderCacheSize /\ IsFiniteSet(C)
  BY <1>1, <1>5 DEF SlotsInv
<1>7. /\ x \in Nat /\ x <= n /\ HaveLengths(U) /\ C \cap X = {}
  <2>1. CASE I = {}
    <3>1. X = {} /\ U = C
      BY <2>1, <1>1 DEF InputsOf
    <3> QED
      BY <3>1, <1>4, <1>5, <1>6, TokensOfNone
  <2>2. CASE I # {}
    <3>1. PICK p, m : p = <<r, 1>> /\ m = EncoderInputs[r][1].length
      OBVIOUS
    <3>2. I = {1}
      BY <2>2, <1>3
    <3>3. X = {p}
      BY <3>1, <3>2, <1>1 DEF InputsOf
    <3>4. p \notin C /\ m \in Nat /\ m <= n
      BY <3>1, <3>2, <1>3, <1>5
    <3>5. LengthOf(p) = m
      BY <3>1 DEF LengthOf
    <3>6. x = m
      BY <3>3, <3>4, <3>5, <1>5, TokensOfOne
    <3>7. IsFiniteSet(C \cup {p})
      BY <1>6, FS_AddElement
    <3>8. HaveLengths(C \cup {p})
      BY <3>4, <3>5, <3>7, <1>4 DEF HaveLengths
    <3> QED
      BY <3>3, <3>4, <3>6, <3>8, <1>1
  <2> QED
    BY <2>1, <2>2
<1>8. TokensOfInputs(U) = c + x /\ c \in Nat
  BY <1>1, <1>5, <1>7, TokensAdd
<1>9. enc'.num_free_slots \in Nat /\ enc'.num_free_slots + TokensOfInputs(enc'.cached) = EncoderCacheSize
  <2>1. n - x \in Nat /\ (n - x) + (c + x) = EncoderCacheSize
    BY <1>6, <1>7, <1>8
  <2> QED
    BY <2>1, <1>2, <1>5, <1>8
<1>10. IsFiniteSet(enc'.cached)
  BY <1>2, <1>7 DEF HaveLengths
<1>11. AtWorkers' \subseteq enc'.cached
  <2>1. PICK k, o : k = call.output.encoder_inputs /\ o = call'.output.encoder_inputs
    OBVIOUS
  <2>2. CacheAfter(worker.encoder_cache, finished_req_ids, enc.freed, k) \subseteq C
    BY <1>1, <2>1 DEF SlotsInv, AtWorkers, NewInputs, SchedPhase
  <2>3. AtWorkers' = CacheAfter(worker.encoder_cache, finished_req_ids, enc.freed, o)
    BY <1>2, <2>1 DEF AtWorkers, NewInputs, SchedPhase
  <2>4. o = k \cup X
    BY <1>1, <2>1 DEF Adds
  <2> QED
    BY <2>2, <2>3, <2>4, <1>1, <1>2 DEF CacheAfter
<1> QED
  BY <1>9, <1>10, <1>11 DEF SlotsInv

LEMMA SlotsSchedule ==
  ASSUME OneInput, QueueInv, EngineInv, EncoderInv, SlotsInv, ScheduleSteps, UNCHANGED worker
  PROVE  SlotsInv'
<1>1. CASE ScheduleRunning \/ ScheduleWaiting
  <2>1. finished_req_ids' = finished_req_ids
    BY <1>1 DEF ScheduleRunning, ScheduleWaiting
  <2>2. PICK r, I : /\ r \in Req /\ call'.phase = call.phase /\ call.phase \in {"running", "waiting"}
                    /\ Planned(r, I) /\ enc' = allocate_inputs(enc, r, I)
                    /\ Adds(call.output, call'.output, r, I)
    BY <1>1, ScheduledNew
  <2> QED
    BY <2>1, <2>2, SlotsJoins
<1>2. CASE OtherScheduleSteps
  <2>1. UNCHANGED <<enc, finished_req_ids>>
    BY <1>2 DEF OtherScheduleSteps, SkipRunning, PreemptLast, RunningLoopEnds, SkipWaiting, SkipLora,
       LoadRemote, StopAtWaiting, WaitingLoopEnds
  <2>2. call'.output = call.output /\ SchedPhase /\ SchedPhase'
    BY <1>2, OutputStanding DEF OutputStands
  <2>3. call.phase # "execute" /\ call'.phase # "execute"
    BY <2>2 DEF SchedPhase
  <2> QED
    BY <2>1, <2>2, <2>3, SlotsFrame
<1> QED
  BY <1>1, <1>2 DEF ScheduleSteps, OtherScheduleSteps

\* update_from_output gives up inputs that are cached.
LEMMA SlotsUpdate ==
  ASSUME QueueInv, EncoderInv, SlotsInv, UpdateSteps, UNCHANGED worker PROVE SlotsInv'
<1>0. call.phase = "update" /\ call'.phase \in {"update", "idle"} /\ ~SchedPhase /\ ~SchedPhase'
  <2>1. DOMAIN call = CallFields
    BY DEF QueueInv, Shapes
  <2>2. CASE KeepUnscheduled
    BY <2>1, <2>2 DEF KeepUnscheduled, CallFields, InUpdateLoop, SchedPhase
  <2>3. CASE UpdateScheduled
    <3>1. /\ InUpdateLoop
          /\ \/ call' = [call EXCEPT !.req_index = @ + 1, !.new_running = Append(@, Current)]
             \/ call' = [call EXCEPT !.req_index = @ + 1]
      BY <2>3 DEF UpdateScheduled, UpdateContinues, UpdateStops
    <3> QED
      BY <2>1, <3>1 DEF CallFields, InUpdateLoop, SchedPhase
  <2>4. CASE EndUpdate
    BY <2>4 DEF EndUpdate, NoCall, SchedPhase
  <2> QED
    BY <2>2, <2>3, <2>4 DEF UpdateSteps
<1>1. CASE KeepUnscheduled \/ EndUpdate
  <2>1. UNCHANGED <<enc, finished_req_ids>>
    BY <1>1 DEF KeepUnscheduled, EndUpdate
  <2> QED
    BY <2>1, <1>0, SlotsFrame
<1>2. CASE UpdateScheduled
  <2>1. PICK r : r = Current
    OBVIOUS
  <2>2. r \in Req
    BY <1>2, <2>1, CurrentRuns DEF UpdateScheduled
  <2>3. \E I : /\ enc' = free_inputs(enc, r, I) /\ I \subseteq get_cached_input_ids(enc, r)
               /\ finished_req_ids \subseteq finished_req_ids'
    <3>1. PICK g : \/ \E d \in 0..NumSpecTokens : UpdateContinues(r, g, d)
                   \/ UpdateStops(r, g)
      BY <1>2, <2>1 DEF UpdateScheduled
    <3>2. CASE \E d \in 0..NumSpecTokens : UpdateContinues(r, g, d)
      <4>1. PICK I : I = Processed(r, ComputedAfter(r, g))
        OBVIOUS
      <4>2. enc' = free_inputs(enc, r, I) /\ finished_req_ids' = finished_req_ids
        BY <3>2, <4>1 DEF UpdateContinues
      <4>3. I \subseteq get_cached_input_ids(enc, r)
        BY <4>1 DEF Processed
      <4> QED
        BY <4>2, <4>3
    <3>3. CASE UpdateStops(r, g)
      BY <3>3 DEF UpdateStops, free_request
    <3> QED
      BY <3>1, <3>2, <3>3
  <2> QED
    BY <2>2, <2>3, <1>0, SlotsFrees
<1> QED
  BY <1>1, <1>2 DEF UpdateSteps

LEMMA SlotsDispatches ==
  ASSUME MaxConcurrentBatches = 1, EngineInv, EncoderInv, SlotsInv, StepDispatches PROVE SlotsInv'
<1>1. call.phase = "finish" /\ finished_req_ids' = {} /\ enc' = [enc EXCEPT !.freed = {}]
  BY DEF StepDispatches, EndSchedule
<1>2. enc'.cached = enc.cached /\ enc'.freed = {} /\ enc'.num_free_slots = enc.num_free_slots
  BY <1>1 DEF EncoderInv, EncoderFields
<1>3. SchedPhase /\ OutputGood(call.output)
  BY <1>1 DEF SchedPhase, EngineInv, OutsOK
<1>4. PICK p : p = OutputOfCall
  OBVIOUS
<1>5. /\ p.finished = finished_req_ids /\ p.free_encoder_input_ids = enc.freed
      /\ p.encoder_inputs = call.output.encoder_inputs
  BY <1>3, <1>4, OutputTells
<1>6. CacheAfter(worker.encoder_cache, p.finished, p.free_encoder_input_ids, p.encoder_inputs)
        \subseteq enc.cached
  BY <1>1, <1>3, <1>5 DEF SlotsInv, AtWorkers, NewInputs
<1>7. call' = [NoCall EXCEPT !.phase = "execute", !.output = p] /\ UNCHANGED worker
  BY <1>4 DEF StepDispatches
<1>8. call'.phase = "execute" /\ call'.output = p
  BY <1>7 DEF NoCall
<1>9. AtWorkers' = CacheAfter(worker.encoder_cache, p.finished, p.free_encoder_input_ids,
                              p.encoder_inputs)
  BY <1>7, <1>8 DEF AtWorkers
<1> QED
  BY <1>2, <1>6, <1>9 DEF SlotsInv

LEMMA SlotsExecute ==
  ASSUME TransferInv, EncoderInv, SlotsInv, ExecuteModel PROVE SlotsInv'
<1>1. PICK o, x : /\ o = call.output
                  /\ worker' = [UpdatedWorker(worker, o) EXCEPT !.transfers = x]
  BY DEF ExecuteModel
<1>2. call.phase = "execute" /\ UNCHANGED <<enc, finished_req_ids>> /\ call'.phase = "update"
  BY DEF ExecuteModel, BeginUpdate, NoCall
<1>3. DOMAIN worker = WorkerFields
  BY DEF TransferInv
<1>4. PICK w : w = UpdatedWorker(worker, o)
  OBVIOUS
<1>5. /\ DOMAIN w = WorkerFields
      /\ w.encoder_cache = CacheAfter(worker.encoder_cache, o.finished, o.free_encoder_input_ids,
                                      o.encoder_inputs)
  BY <1>3, <1>4, UpdatedCache
<1>6. worker'.encoder_cache = w.encoder_cache
  BY <1>1, <1>4, <1>5 DEF WorkerFields
<1>7. worker'.encoder_cache \subseteq enc.cached
  BY <1>1, <1>2, <1>5, <1>6 DEF SlotsInv, AtWorkers
<1>8. AtWorkers' = CacheAfter(worker'.encoder_cache, finished_req_ids', enc'.freed, {})
  BY <1>2 DEF AtWorkers, NewInputs, SchedPhase
<1>9. AtWorkers' \subseteq enc'.cached
  BY <1>2, <1>7, <1>8 DEF CacheAfter
<1> QED
  BY <1>2, <1>9 DEF SlotsInv

LEMMA SlotsNext ==
  ASSUME MaxConcurrentBatches = 1, OneInput, QueueInv, TransferInv, EngineInv, EncoderInv, SlotsInv,
         [Steps]_engineVars
  PROVE  SlotsInv'
<1>1. ASSUME NEW r \in Req, AddRequest(r) \/ AbortRequest(r) \/ CompileGrammar(r) PROVE SlotsInv'
  <2>1. CASE AddRequest(r)
    BY <2>1, SlotsSame DEF AddRequest, add_request
  <2>2. CASE AbortRequest(r)
    <3>1. /\ call.phase = "idle" /\ call' = call /\ worker' = worker
          /\ enc' = free_inputs(enc, r, get_cached_input_ids(enc, r))
          /\ finished_req_ids' = finished_req_ids \cup {r}
      BY <2>2 DEF AbortRequest, finish_requests, free_request
    <3>2. ~SchedPhase /\ ~SchedPhase' /\ call.phase # "execute" /\ call'.phase # "execute"
      BY <3>1 DEF SchedPhase
    <3> QED
      BY <3>1, <3>2, SlotsFrees
  <2>3. CASE CompileGrammar(r)
    BY <2>3, SlotsSame DEF CompileGrammar, GrammarCompiled
  <2> QED
    BY <1>1, <2>1, <2>2, <2>3
<1>2. ASSUME NEW k \in Ranks, NEW r \in Req, TransferArrives(k, r) \/ TransferIsRead(k, r)
      PROVE  SlotsInv'
  <2>1. UNCHANGED <<enc, finished_req_ids, call>>
    BY <1>2 DEF TransferArrives, TransferIsRead, schedulerVars
  <2>2. \E x : worker' = [worker EXCEPT !.transfers = x]
    BY <1>2 DEF TransferArrives, TransferIsRead
  <2>3. worker'.encoder_cache = worker.encoder_cache
    BY <2>2 DEF TransferInv, WorkerFields
  <2> QED
    BY <2>1, <2>3, SlotsSame
<1>3. CASE ResetPrefixCache \/ UNCHANGED engineVars
  BY <1>3, SlotsSame DEF ResetPrefixCache, engineVars, schedulerVars
<1>4. CASE StepSchedules
  <2>1. /\ call.phase = "idle" /\ UNCHANGED <<enc, finished_req_ids, worker>>
        /\ call'.phase = "running" /\ call'.output = NoOutput
    BY <1>4 DEF StepSchedules, BeginSchedule, NoCall
  <2>2. NoOutput.encoder_inputs = {}
    BY DEF NoOutput
  <2>3. AtWorkers' = AtWorkers
    BY <2>1, <2>2 DEF AtWorkers, NewInputs, SchedPhase
  <2> QED
    BY <2>1, <2>3 DEF SlotsInv
<1>5. CASE StepDrains
  BY <1>5 DEF StepDrains, BatchQueueFull
<1>6. CASE EngineStep
  BY <1>4, <1>5, <1>6, SlotsSchedule, SlotsUpdate, SlotsDispatches, SlotsExecute DEF EngineStep
<1> QED
  BY <1>1, <1>2, <1>3, <1>6 DEF Steps

\* What the workers keep is what the scheduler counts on: the requests they know are alive
\* or their end is told with the next output, and when an output is handed over their
\* encoder outputs are the ones that the scheduler takes for cached, which with the free
\* slots fill the encoder cache.  No entry is given up twice or forgotten, whatever is
\* preempted, aborted or finished between two steps.
THEOREM WorkersKeepUp ==
  ASSUME Modelled, MaxConcurrentBatches = 1, OneInput PROVE Spec => []WorkersAgree
<1>1. Init => EncoderInv /\ KnowsInv /\ SlotsInv
  BY EncoderInit, KnowsInit, SlotsInit
<1>2. (QueueInv /\ TransferInv /\ EngineInv) /\ (EncoderInv /\ KnowsInv /\ SlotsInv) /\ [Next]_vars
        => (EncoderInv /\ KnowsInv /\ SlotsInv)'
  BY EncoderNext, KnowsNext, SlotsNext, NextSteps
<1>3. (QueueInv /\ TransferInv /\ EngineInv) /\ (EncoderInv /\ KnowsInv /\ SlotsInv) => WorkersAgree
  <2> SUFFICES ASSUME TransferInv, EngineInv, EncoderInv, KnowsInv, SlotsInv PROVE WorkersAgree
    OBVIOUS
  <2>1. \A r \in worker.requests : Live(r) \/ r \in finished_req_ids \cup call.output.finished
    BY DEF KnowsInv, Told
  <2>2. ASSUME call.phase = "finish"
        PROVE  UpdatedWorker(worker, OutputOfCall).encoder_cache = enc.cached
    <3>1. SchedPhase /\ OutputGood(call.output) /\ DOMAIN worker = WorkerFields
      BY <2>2 DEF SchedPhase, EngineInv, OutsOK, TransferInv
    <3>2. PICK p : p = OutputOfCall
      OBVIOUS
    <3>3. /\ p.finished = finished_req_ids /\ p.free_encoder_input_ids = enc.freed
          /\ p.encoder_inputs = call.output.encoder_inputs
      BY <3>1, <3>2, OutputTells
    <3>4. AtWorkers = CacheAfter(worker.encoder_cache, p.finished, p.free_encoder_input_ids,
                                 p.encoder_inputs)
      BY <2>2, <3>1, <3>3 DEF AtWorkers, NewInputs
    <3>5. UpdatedWorker(worker, p).encoder_cache
            = CacheAfter(worker.encoder_cache, p.finished, p.free_encoder_input_ids, p.encoder_inputs)
      BY <3>1, UpdatedCache
    <3>6. AtWorkers = enc.cached
      BY DEF EncoderInv, SlotsInv
    <3> QED
      BY <3>2, <3>4, <3>5, <3>6
  <2>3. /\ enc.num_free_slots + TokensOfInputs(enc.cached) = EncoderCacheSize
        /\ enc.num_free_slots >= 0
    BY DEF SlotsInv
  <2> QED
    BY <2>1, <2>2, <2>3 DEF WorkersAgree
<1> QED
  <2>1. Spec => [](QueueInv /\ TransferInv /\ EngineInv)
    BY EngineInvariant
  <2> QED
    BY <1>1, <1>2, <1>3, <2>1, PTL DEF Spec

-----------------------------------------------------------------------------
\* The ranks from which the other engine has read the blocks of a request, and those whose
\* notification has not been counted.  After the count is complete it starts anew.
ReadBy(x, r) == {k \in Ranks : <<k, r>> \in x.read}
NotedBy(x, r) == {k \in Ranks : <<k, r>> \in x.notifs}
ReadsOK(x, r) ==
  /\ NotedBy(x, r) \subseteq ReadBy(x, r)
  /\ \/ x.done_sending_count[r] + Cardinality(NotedBy(x, r)) = Cardinality(ReadBy(x, r))
     \/ ReadBy(x, r) = Ranks /\ NotedBy(x, r) = {}

LEMMA RankSets ==
  ASSUME NEW S \in SUBSET Ranks
  PROVE  /\ IsFiniteSet(S) /\ Cardinality(S) \in Nat
         /\ Cardinality(S) = TPSize => S = Ranks
  BY RanksAre, FS_Subset, FS_CardinalityType

\* What get_finished counts for a request whose blocks are read.
LEMMA CountsNoted ==
  ASSUME NEW x, TransfersOK(x), NEW r \in Req, Receiving(x, r) = {}
  PROVE  AllSend(x, r) = x.done_sending_count[r] + Cardinality(NotedBy(x, r))
<1>1. /\ x.done_recving_count[r] = 0 /\ x.done_sending_count[r] \in Nat
      /\ x.arrived \subseteq x.recving /\ \A k \in Ranks : <<k, r>> \notin x.recving
  BY DEF TransfersOK, CountsOK, Receiving
<1>2. \A k \in Ranks : <<k, r>> \notin x.arrived
  BY <1>1
<1>3. RecvNow(x, r) = 0 /\ ~IsRecving(x, r)
  BY <1>1, <1>2, RanksAre DEF RecvNow, IsRecving
<1>4. PICK N, O, c : /\ N = NotedBy(x, r) /\ c = x.done_sending_count[r]
                     /\ O = {k \in Ranks \ {FirstRank} : <<k, r>> \in x.arrived \cup x.notifs}
  OBVIOUS
<1>5. O = N \ {FirstRank} /\ (FirstRank \in N <=> <<FirstRank, r>> \in x.notifs)
  BY <1>2, <1>4, RanksAre DEF NotedBy
<1>6. IsFiniteSet(N) /\ Cardinality(N) \in Nat
  <2>1. N \in SUBSET Ranks
    BY <1>4 DEF NotedBy
  <2> QED
    BY <2>1, RankSets
<1>7. Cardinality(O) = IF FirstRank \in N THEN Cardinality(N) - 1 ELSE Cardinality(N)
  BY <1>5, <1>6, FS_RemoveElement
<1>8. SendNow(x, r) = c + (IF FirstRank \in N THEN 1 ELSE 0)
  BY <1>4, <1>5 DEF SendNow
<1>9. AllSend(x, r) = SendNow(x, r) + Cardinality(O)
  BY <1>3, <1>4 DEF AllSend, OthersNow
<1>10. PICK n, o : n = Cardinality(N) /\ o = Cardinality(O)
  OBVIOUS
<1>11. AllSend(x, r) = c + n
  BY <1>1, <1>4, <1>6, <1>7, <1>8, <1>9, <1>10
<1> QED
  BY <1>4, <1>10, <1>11

\* get_finished: a request is answered as sent only when every rank was read.
LEMMA ReadsFinish ==
  ASSUME NEW x, TransfersOK(x), NEW r \in Req, Receiving(x, r) = {}, ReadsOK(x, r),
         NEW d, d = get_finished(x)
  PROVE  /\ ReadBy(d.transfers, r) = ReadBy(x, r) /\ ReadsOK(d.transfers, r)
         /\ r \in d.sending => ReadBy(x, r) = Ranks
<1>f. DOMAIN x = TransferFields
  BY DEF TransfersOK
<1>1. PICK y, s, R, N, c : /\ y = d.transfers /\ s = AllSend(x, r) /\ R = ReadBy(x, r)
                           /\ N = NotedBy(x, r) /\ c = x.done_sending_count[r]
  OBVIOUS
<1>2. /\ r \in d.sending <=> s = TPSize
      /\ y.done_sending_count[r] = IF s = TPSize THEN 0 ELSE s
      /\ y.notifs = {}
  BY <1>1, <1>f, FinishedCounts DEF CountedAs
<1>3. y.read = x.read
  <2>1. \E a, b, e, f, g, h : y = [x EXCEPT !.recving = a, !.arrived = b, !.notifs = e, !.target = f,
                                !.done_recving_count = g, !.done_sending_count = h]
    BY <1>1 DEF get_finished
  <2> QED
    BY <2>1, <1>f DEF TransferFields
<1>4. s = c + Cardinality(N)
  BY <1>1, CountsNoted
<1>5. ReadBy(y, r) = R /\ NotedBy(y, r) = {}
  BY <1>1, <1>2, <1>3 DEF ReadBy, NotedBy
<1>6. R \in SUBSET Ranks /\ Cardinality(R) \in Nat /\ (Cardinality(R) = TPSize => R = Ranks)
  <2>1. R \in SUBSET Ranks
    BY <1>1 DEF ReadBy
  <2> QED
    BY <2>1, RankSets
<1>7. s = Cardinality(R) \/ R = Ranks
  BY <1>1, <1>4 DEF ReadsOK
<1>8. s = TPSize => R = Ranks
  BY <1>6, <1>7
<1>9. R = Ranks \/ y.done_sending_count[r] + Cardinality({}) = Cardinality(R)
  <2>1. CASE s # TPSize /\ s = Cardinality(R)
    <3>1. y.done_sending_count[r] = Cardinality(R)
      BY <2>1, <1>2
    <3>2. Cardinality({}) = 0
      BY FS_EmptySet
    <3> QED
      BY <3>1, <3>2, <1>6
  <2> QED
    BY <2>1, <1>7, <1>8
<1>10. ReadsOK(y, r)
  BY <1>5, <1>9 DEF ReadsOK
<1> QED
  BY <1>1, <1>2, <1>5, <1>8, <1>10

\* start_load_kv has no part in it.
LEMMA ReadsStart ==
  ASSUME NEW x, DOMAIN x = TransferFields, NEW meta, NEW r \in Req, ReadsOK(x, r)
  PROVE  LET y == start_load_kv(x, meta)
         IN ReadBy(y, r) = ReadBy(x, r) /\ ReadsOK(y, r)
<1>1. PICK y, a, b : y = start_load_kv(x, meta) /\ y = [x EXCEPT !.recving = a, !.target = b]
  BY DEF start_load_kv
<1>2. y.read = x.read /\ y.notifs = x.notifs /\ y.done_sending_count = x.done_sending_count
  BY <1>1 DEF TransferFields
<1>3. ReadBy(y, r) = ReadBy(x, r) /\ NotedBy(y, r) = NotedBy(x, r)
  BY <1>2 DEF ReadBy, NotedBy
<1> QED
  BY <1>1, <1>2, <1>3 DEF ReadsOK

\* The other engine reads from one more rank.
LEMMA ReadsOneMore ==
  ASSUME NEW x, DOMAIN x = TransferFields, NEW k \in Ranks, NEW q, <<k, q>> \notin x.read,
         NEW r \in Req, x.done_sending_count[r] \in Nat, ReadsOK(x, r), NEW y, y = TransferRead(x, k, q)
  PROVE  ReadBy(x, r) \subseteq ReadBy(y, r) /\ ReadsOK(y, r)
<1>1. /\ y.read = x.read \cup {<<k, q>>} /\ y.notifs = x.notifs \cup {<<k, q>>}
      /\ y.done_sending_count = x.done_sending_count
  BY DEF TransferRead, TransferFields
<1>2. PICK R, N, c : R = ReadBy(x, r) /\ N = NotedBy(x, r) /\ c = x.done_sending_count[r]
  OBVIOUS
<1>3. CASE q # r
  <2>1. ReadBy(y, r) = R /\ NotedBy(y, r) = N
    BY <1>1, <1>2, <1>3 DEF ReadBy, NotedBy
  <2> QED
    BY <2>1, <1>1, <1>2 DEF ReadsOK
<1>4. CASE q = r
  <2>1. k \notin R /\ ReadBy(y, r) = R \cup {k} /\ NotedBy(y, r) = N \cup {k}
    BY <1>1, <1>2, <1>4 DEF ReadBy, NotedBy
  <2>2. N \subseteq R /\ R # Ranks
    BY <1>2, <2>1 DEF ReadsOK
  <2>3. c + Cardinality(N) = Cardinality(R)
    BY <1>2, <2>2 DEF ReadsOK
  <2>4. R \in SUBSET Ranks /\ N \in SUBSET Ranks
    BY <1>2 DEF ReadBy, NotedBy
  <2>5. IsFiniteSet(R) /\ IsFiniteSet(N) /\ Cardinality(R) \in Nat /\ Cardinality(N) \in Nat
    BY <2>4, RankSets
  <2>6. Cardinality(R \cup {k}) = Cardinality(R) + 1 /\ Cardinality(N \cup {k}) = Cardinality(N) + 1
    BY <2>1, <2>2, <2>5, FS_AddElement
  <2>7. PICK a, b : a = Cardinality(R) /\ b = Cardinality(N)
    OBVIOUS
  <2>8. c + (b + 1) = a + 1
    BY <2>3, <2>5, <2>7, <1>2
  <2>9. c + Cardinality(N \cup {k}) = Cardinality(R \cup {k})
    BY <2>6, <2>7, <2>8
  <2>10. N \cup {k} \subseteq R \cup {k} /\ R \subseteq R \cup {k}
    BY <2>2
  <2> QED
    BY <2>1, <2>9, <2>10, <1>1, <1>2 DEF ReadsOK
<1> QED
  BY <1>3, <1>4

\* A request that is answered as sent was read from every rank.
AllRead(r) == ReadBy(worker.transfers, r) = Ranks
ReadInv ==
  /\ \A r \in RemoteDecode : ReadsOK(worker.transfers, r)
  /\ \A r \in call.finished_sending : AllRead(r)
ReadGrows == \A r \in RemoteDecode : AllRead(r) => AllRead(r)'

LEMMA ReadInit == Init => ReadInv
<1> SUFFICES ASSUME Init PROVE ReadInv
  OBVIOUS
<1>1. worker.transfers = InitTransfers /\ call = NoCall
  BY DEF Init, SchedulerInit
<1>2. PICK x : x = worker.transfers /\ x = InitTransfers
  BY <1>1
<1>3. x.read = {} /\ x.notifs = {} /\ \A r \in Req : x.done_sending_count[r] = 0
  BY <1>2 DEF InitTransfers
<1>4. \A r : ReadBy(x, r) = {} /\ NotedBy(x, r) = {}
  BY <1>3 DEF ReadBy, NotedBy
<1>5. Cardinality({}) = 0 /\ 0 + 0 = 0
  BY FS_EmptySet
<1>6. \A r \in RemoteDecode : ReadsOK(x, r)
  BY <1>3, <1>4, <1>5, ConnectorAssumption DEF ReadsOK
<1> QED
  BY <1>1, <1>2, <1>6 DEF ReadInv, NoCall

LEMMA ReadSame ==
  ASSUME ReadInv, worker'.transfers = worker.transfers,
         call'.finished_sending \subseteq call.finished_sending
  PROVE  ReadInv' /\ ReadGrows
<1>1. \A r : AllRead(r) => AllRead(r)'
  BY DEF AllRead, ReadBy
<1>2. ASSUME NEW r \in RemoteDecode PROVE ReadsOK(worker.transfers, r)'
  <2>1. ReadsOK(worker.transfers, r)
    BY DEF ReadInv
  <2> QED
    BY <2>1 DEF ReadsOK, ReadBy, NotedBy
<1> QED
  BY <1>1, <1>2 DEF ReadInv, ReadGrows

LEMMA ReadMoves ==
  ASSUME TransferInv, ReadInv, NEW k \in Ranks, NEW q \in Req,
         TransferArrives(k, q) \/ TransferIsRead(k, q)
  PROVE  ReadInv' /\ ReadGrows
<1>1. PICK x, y : x = worker.transfers /\ y = worker'.transfers
  OBVIOUS
<1>2. call' = call
  BY DEF TransferArrives, TransferIsRead, schedulerVars
<1>3. DOMAIN worker = WorkerFields /\ TransfersOK(x) /\ DOMAIN x = TransferFields
  BY <1>1 DEF TransferInv, TransfersOK
<1>4. ASSUME NEW r \in RemoteDecode PROVE ReadBy(x, r) \subseteq ReadBy(y, r) /\ ReadsOK(y, r)
  <2>1. ReadsOK(x, r) /\ r \in Req
    BY <1>1, ConnectorAssumption DEF ReadInv
  <2>2. CASE TransferArrives(k, q)
    <3>1. y = TransferArrived(x, k, q)
      BY <2>2, <1>1, <1>3 DEF TransferArrives, WorkerFields
    <3>2. y.read = x.read /\ y.notifs = x.notifs /\ y.done_sending_count = x.done_sending_count
      BY <3>1, <1>3 DEF TransferArrived, TransferFields
    <3> QED
      BY <2>1, <3>2 DEF ReadsOK, ReadBy, NotedBy
  <2>3. CASE TransferIsRead(k, q)
    <3>1. y = TransferRead(x, k, q) /\ <<k, q>> \notin x.read
      BY <2>3, <1>1, <1>3 DEF TransferIsRead, WorkerFields
    <3>2. x.done_sending_count[r] \in Nat
      BY <2>1, <1>3 DEF TransfersOK, CountsOK
    <3> QED
      BY <2>1, <3>1, <3>2, <1>3, ReadsOneMore
  <2> QED
    BY <2>2, <2>3
<1>5. \A r \in RemoteDecode : ReadsOK(worker.transfers, r)'
  BY <1>1, <1>4 DEF ReadsOK, ReadBy, NotedBy
<1>6. ASSUME NEW r \in RemoteDecode, AllRead(r) PROVE AllRead(r)'
  <2>1. ReadBy(x, r) = Ranks /\ ReadBy(x, r) \subseteq ReadBy(y, r) /\ ReadBy(y, r) \subseteq Ranks
    BY <1>1, <1>4, <1>6 DEF AllRead, ReadBy
  <2>2. ReadBy(y, r) = Ranks
    BY <2>1
  <2> QED
    BY <2>2, <1>1 DEF AllRead, ReadBy
<1>7. call.finished_sending \subseteq RemoteDecode
  BY DEF TransferInv, WaitsToBeRead
<1> QED
  BY <1>2, <1>5, <1>6, <1>7 DEF ReadInv, ReadGrows

LEMMA ReadExecutes ==
  ASSUME TransferInv, ReadInv, ExecuteModel PROVE ReadInv' /\ ReadGrows
<1>1. PICK x, o, y, z, done :
         /\ x = worker.transfers /\ o = call.output /\ y = start_load_kv(x, o.kv_meta)
         /\ done = get_finished(y) /\ z = done.transfers
  OBVIOUS
<1>2. /\ call.phase = "execute" /\ conn' = conn
      /\ worker' = [UpdatedWorker(worker, o) EXCEPT !.transfers = z]
      /\ call' = [BeginUpdate(o) EXCEPT !.finished_recving = done.recving,
                                        !.finished_sending = done.sending]
  BY <1>1 DEF ExecuteModel
<1>3. /\ DOMAIN worker = WorkerFields /\ TransfersOK(x) /\ SentFrom(x, WaitsToBeRead)
      /\ MetaOK(o.kv_meta) /\ DOMAIN x = TransferFields
  BY <1>1, <1>2 DEF TransferInv, TransfersOK
<1>4. worker'.transfers = z
  BY <1>2, <1>3 DEF WorkerFields, UpdatedWorker
<1>5. call'.finished_sending = done.sending
  BY <1>2 DEF BeginUpdate, NoCall
<1>6. \A m \in o.kv_meta : m.req \in RemotePrefill /\ Receiving(x, m.req) = {}
  BY <1>1, <1>3 DEF MetaOK, Unfetched
<1>7. /\ TransfersOK(y) /\ SentFrom(y, WaitsToBeRead)
      /\ \A r \in Req : (\A m \in o.kv_meta : m.req # r) => Receiving(y, r) = Receiving(x, r)
  BY <1>1, <1>3, <1>6, StartLoadOK
<1>8. WaitsToBeRead \in SUBSET RemoteDecode
  BY DEF WaitsToBeRead
<1>9. FinishedAs(y, done, WaitsToBeRead)
  BY <1>1, <1>7, <1>8, GetFinishedOK
<1>10. done.sending \subseteq RemoteDecode
  BY <1>8, <1>9 DEF FinishedAs
<1>11. ASSUME NEW r \in RemoteDecode
       PROVE  /\ ReadBy(z, r) = ReadBy(x, r) /\ ReadsOK(z, r)
              /\ r \in done.sending => ReadBy(z, r) = Ranks
  <2>1. r \in Req /\ r \notin RemotePrefill /\ ReadsOK(x, r)
    BY <1>1, ConnectorAssumption DEF ReadInv
  <2>2. ReadBy(y, r) = ReadBy(x, r) /\ ReadsOK(y, r)
    BY <1>1, <1>3, <2>1, ReadsStart
  <2>3. Receiving(y, r) = {}
    BY <1>7, <2>1 DEF TransfersOK, CountsOK
  <2>4. /\ ReadBy(done.transfers, r) = ReadBy(y, r) /\ ReadsOK(done.transfers, r)
        /\ r \in done.sending => ReadBy(y, r) = Ranks
    BY <1>1, <1>7, <2>1, <2>2, <2>3, ReadsFinish
  <2> QED
    BY <1>1, <2>2, <2>4
<1>12. \A r \in RemoteDecode : ReadsOK(worker.transfers, r)'
  BY <1>4, <1>11 DEF ReadsOK, ReadBy, NotedBy
<1>13. \A r : AllRead(r)' <=> ReadBy(z, r) = Ranks
  BY <1>4 DEF AllRead, ReadBy
<1>14. \A r \in RemoteDecode : AllRead(r) => AllRead(r)'
  BY <1>1, <1>11, <1>13 DEF AllRead
<1> QED
  BY <1>5, <1>10, <1>11, <1>12, <1>13, <1>14 DEF ReadInv, ReadGrows

LEMMA ReadNext ==
  ASSUME MaxConcurrentBatches = 1, QueueInv, TransferInv, ReadInv, [Steps]_engineVars
  PROVE  ReadInv' /\ ReadGrows
<1>1. ASSUME NEW r \in Req, AddRequest(r) \/ AbortRequest(r) \/ CompileGrammar(r)
      PROVE  ReadInv' /\ ReadGrows
  <2>1. UNCHANGED <<call, worker>>
    BY <1>1 DEF AddRequest, AbortRequest, CompileGrammar, add_request, finish_requests,
                GrammarCompiled
  <2> QED
    BY <2>1, ReadSame
<1>2. ASSUME NEW k \in Ranks, NEW r \in Req, TransferArrives(k, r) \/ TransferIsRead(k, r)
      PROVE  ReadInv' /\ ReadGrows
  BY <1>2, ReadMoves
<1>3. CASE ResetPrefixCache \/ UNCHANGED engineVars
  <2>1. UNCHANGED <<call, worker>>
    BY <1>3 DEF ResetPrefixCache, engineVars, schedulerVars
  <2> QED
    BY <2>1, ReadSame
<1>4. CASE ScheduleSteps /\ UNCHANGED <<batch_queue, worker>>
  <2>1. call'.finished_sending = call.finished_sending
    BY <1>4, ScheduleCall
  <2> QED
    BY <1>4, <2>1, ReadSame
<1>5. CASE UpdateSteps /\ UNCHANGED <<batch_queue, worker>>
  <2>1. call'.finished_sending \subseteq call.finished_sending
    BY <1>5, UpdateCall
  <2> QED
    BY <1>5, <2>1, ReadSame
<1>6. CASE StepSchedules \/ StepDrains
  <2>1. UNCHANGED worker /\ call'.finished_sending = {}
    BY <1>6 DEF StepSchedules, StepDrains, BeginSchedule, BeginUpdate, NoCall
  <2> QED
    BY <2>1, ReadSame
<1>7. CASE StepDispatches
  <2>1. /\ call' = [NoCall EXCEPT !.phase = "execute", !.output = OutputOfCall]
        /\ UNCHANGED worker
    BY <1>7 DEF StepDispatches
  <2>2. call'.finished_sending = {}
    BY <2>1 DEF NoCall
  <2> QED
    BY <2>1, <2>2, ReadSame
<1>8. CASE ExecuteModel
  BY <1>8, ReadExecutes
<1> QED
  BY <1>1, <1>2, <1>3, <1>4, <1>5, <1>6, <1>7, <1>8 DEF Steps, EngineStep

-----------------------------------------------------------------------------
\* The drafts of an output are the tokens it schedules beyond the last known one.
DraftsFollow(o) ==
  \A r \in Req : o.spec[r] > 0 =>
    o.num_tokens[r] + o.spec[r] <= o.num_computed_tokens[r] + o.num_scheduled_tokens[r]

LEMMA DraftsJoin ==
  ASSUME NEW k, DraftsFollow(k), NEW o, NEW r \in Req, NEW n, NEW c, NEW d, NEW nt,
         Joins(k, o, r, n, c, d, nt), d > 0 => nt + d <= c + n
  PROVE  DraftsFollow(o)
<1>1. ASSUME NEW q \in Req, o.spec[q] > 0
      PROVE  o.num_tokens[q] + o.spec[q] <= o.num_computed_tokens[q] + o.num_scheduled_tokens[q]
  <2>1. CASE q = r
    <3>1. /\ o.spec[q] = d /\ o.num_tokens[q] = nt /\ o.num_computed_tokens[q] = c
          /\ o.num_scheduled_tokens[q] = n
      BY <2>1 DEF Joins
    <3> QED
      BY <3>1, <1>1
  <2>2. CASE q # r
    <3>1. /\ o.spec[q] = k.spec[q] /\ o.num_tokens[q] = k.num_tokens[q]
          /\ o.num_computed_tokens[q] = k.num_computed_tokens[q]
          /\ o.num_scheduled_tokens[q] = k.num_scheduled_tokens[q]
      BY <2>2 DEF Joins
    <3> QED
      BY <3>1, <1>1 DEF DraftsFollow
  <2> QED
    BY <2>1, <2>2
<1> QED
  BY <1>1 DEF DraftsFollow

LEMMA DraftsRunning ==
  ASSUME QueueInv, EngineInv, ScheduleRunning, DraftsFollow(call.output)
  PROVE  DraftsFollow(call'.output)
<1>1. PICK r, n, I, d, b, nc, nt :
        /\ r = Current /\ n = NewTokensOfRunning(r) /\ I = PlanOfRunning(r).inputs
        /\ d = DraftTokens(r, n) /\ nc = req[r].num_computed_tokens /\ nt = req[r].num_tokens
        /\ b = SubSeq(kvm'.req_to_blocks[r], Len(kvm.req_to_blocks[r]) + 1, Len(kvm'.req_to_blocks[r]))
  BY Zenon
<1>2. /\ InRunningLoop /\ n # 0
      /\ \E e : call' = [call EXCEPT !.req_index = @ + 1, !.token_budget = @ - n,
                           !.encoder_budget = e,
                           !.output = LET o == Scheduled(@, r, n, nc, d, b, I)
                                      IN [o EXCEPT !.ran = Append(@, r)]]
  BY <1>1 DEF ScheduleRunning
<1>3. PICK e, k, p, o :
                     /\ k = call.output /\ p = Scheduled(k, r, n, nc, d, b, I)
                     /\ o = [p EXCEPT !.ran = Append(@, r)]
                     /\ call' = [call EXCEPT !.req_index = @ + 1, !.token_budget = @ - n,
                                             !.encoder_budget = e, !.output = o]
  BY <1>2
<1>4. call'.output = o
  BY <1>3 DEF CallFields, QueueInv, Shapes
<1>5. r \in Req
  BY <1>1, <1>2, CurrentToRun
<1>6. nt \in 1..LengthCap(r) /\ nc \in Nat /\ n \in Nat /\ LengthCap(r) \in Nat
  BY <1>1, <1>2, <1>5, PlanToRun, CapBounds
<1>7. OutputGood(k)
  BY <1>3 DEF EngineInv, OutsOK
<1>8. o \in {[p EXCEPT !.ran = Append(@, r)], [p EXCEPT !.resumed = Append(@, r)],
             [p EXCEPT !.new = Append(@, r)]}
  BY <1>3
<1>9. Joins(k, o, r, n, nc, d, req[r].num_tokens)
  BY <1>3, <1>5, <1>7, <1>8, JoinsOutput
<1>10. d = n + nc - nt \/ ~(d > 0)
  <2>1. d = n + nc - nt \/ d = 0
    BY <1>1 DEF DraftTokens
  <2> QED
    BY <2>1
<1>11. nt \in Nat
  BY <1>6
<1>12. d > 0 => nt + d <= nc + n
  BY <1>6, <1>10, <1>11
<1> QED
  BY <1>1, <1>3, <1>4, <1>5, <1>9, <1>12, DraftsJoin

LEMMA DraftsWaiting ==
  ASSUME QueueInv, EngineInv, ScheduleWaiting, DraftsFollow(call.output)
  PROVE  DraftsFollow(call'.output)
<1>1. PICK r, n, b, I, local :
        /\ r = Head(waiting) /\ n = NewTokensOfWaiting(r) /\ b = kvm'.req_to_blocks[r]
        /\ I = PlanOfWaiting(r).inputs /\ local = LocalComputed(r)
  BY Zenon
<1>2. \E e : call' = [call EXCEPT !.token_budget = @ - n, !.encoder_budget = e,
                      !.output = LET o == Scheduled(@, r, n, local, 0, b, I)
                                 IN IF StatusAtHead(r) = "PREEMPTED"
                                    THEN [o EXCEPT !.resumed = Append(@, r)]
                                    ELSE [o EXCEPT !.new = Append(@, r)]]
  BY <1>1 DEF ScheduleWaiting
<1>3. PICK e, k, p, o :
                     /\ k = call.output /\ p = Scheduled(k, r, n, local, 0, b, I)
                     /\ o = IF StatusAtHead(r) = "PREEMPTED" THEN [p EXCEPT !.resumed = Append(@, r)]
                            ELSE [p EXCEPT !.new = Append(@, r)]
                     /\ call' = [call EXCEPT !.token_budget = @ - n, !.encoder_budget = e,
                                             !.output = o]
  BY <1>2
<1>x. call' = [call EXCEPT !.token_budget = @ - n, !.encoder_budget = e, !.output = o]
  BY <1>3
<1>4. call'.output = o
  BY <1>x DEF CallFields, QueueInv, Shapes
<1>5. r \in Req
  BY <1>1, HeadStatus
<1>7. OutputGood(k)
  BY <1>3 DEF EngineInv, OutsOK
<1>8. o \in {[p EXCEPT !.ran = Append(@, r)], [p EXCEPT !.resumed = Append(@, r)],
             [p EXCEPT !.new = Append(@, r)]}
  BY <1>3
<1>9. Joins(k, o, r, n, local, 0, req[r].num_tokens)
  BY <1>3, <1>5, <1>7, <1>8, JoinsOutput
<1>10. ~(0 > 0)
  OBVIOUS
<1>11. DraftsFollow(k)
  BY <1>3
<1> QED
  BY <1>4, <1>5, <1>9, <1>10, <1>11, DraftsJoin

LEMMA NothingDrafted ==
  ASSUME NEW o, o = NoOutput
  PROVE  DraftsFollow(o)
<1>1. \A r \in Req : o.spec[r] = 0
  <2>1. o.spec = NoTokens
    BY DEF NoOutput
  <2> QED
    BY <2>1 DEF NoTokens
<1>2. \A r \in Req : ~(o.spec[r] > 0)
  BY <1>1
<1> QED
  BY <1>2 DEF DraftsFollow

LEMMA DraftsNext ==
  ASSUME MaxConcurrentBatches = 1, QueueInv, EngineInv, DraftsFollow(call.output), [Steps]_engineVars
  PROVE  DraftsFollow(call.output)'
<1>0. DOMAIN call = CallFields
  BY DEF QueueInv, Shapes
<1>s. call'.output = call.output => DraftsFollow(call'.output)
  OBVIOUS
<1>1. ASSUME NEW r \in Req, AddRequest(r) \/ AbortRequest(r) \/ CompileGrammar(r)
      PROVE  DraftsFollow(call'.output)
  BY <1>1, <1>s DEF AddRequest, AbortRequest, CompileGrammar, add_request, finish_requests,
                    GrammarCompiled
<1>2. ASSUME NEW k \in Ranks, NEW r \in Req, TransferArrives(k, r) \/ TransferIsRead(k, r)
      PROVE  DraftsFollow(call'.output)
  BY <1>2, <1>s DEF TransferArrives, TransferIsRead, schedulerVars
<1>3. CASE ResetPrefixCache \/ UNCHANGED engineVars
  BY <1>3, <1>s DEF ResetPrefixCache, engineVars, schedulerVars
<1>4. CASE ScheduleSteps
  <2>1. CASE OtherScheduleSteps
    BY <2>1, <1>s, OutputStanding DEF OutputStands
  <2> QED
    BY <1>4, <2>1, DraftsRunning, DraftsWaiting DEF ScheduleSteps, OtherScheduleSteps
<1>5. CASE UpdateSteps
  <2>1. CASE EndUpdate
    <3>1. PICK o : o = call'.output
      OBVIOUS
    <3>2. o = NoOutput
      BY <2>1, <3>1 DEF EndUpdate, NoCall
    <3>3. DraftsFollow(o)
      BY <3>2, NothingDrafted
    <3> QED
      BY <3>1, <3>3
  <2>2. CASE KeepUnscheduled
    BY <2>2, <1>0, <1>s DEF KeepUnscheduled, CallFields
  <2>3. CASE UpdateScheduled
    <3>1. \/ call' = [call EXCEPT !.req_index = @ + 1, !.new_running = Append(@, Current)]
          \/ call' = [call EXCEPT !.req_index = @ + 1]
      BY <2>3 DEF UpdateScheduled, UpdateContinues, UpdateStops
    <3>2. call'.output = call.output
      BY <3>1, <1>0 DEF CallFields
    <3> QED
      BY <3>2, <1>s
  <2> QED
    BY <1>5, <2>1, <2>2, <2>3 DEF UpdateSteps
<1>6. CASE StepSchedules
  <2>1. PICK o : o = call'.output
    OBVIOUS
  <2>2. o = NoOutput
    BY <1>6, <2>1 DEF StepSchedules, BeginSchedule, NoCall
  <2>3. DraftsFollow(o)
    BY <2>2, NothingDrafted
  <2> QED
    BY <2>1, <2>3
<1>7. CASE StepDrains
  BY <1>7 DEF StepDrains, BatchQueueFull
<1>8. CASE StepDispatches
  <2>1. call' = [NoCall EXCEPT !.phase = "execute", !.output = OutputOfCall]
    BY <1>8 DEF StepDispatches
  <2>2. PICK k, p : k = call.output /\ p = OutputOfCall
    OBVIOUS
  <2>3. call'.output = p
    BY <2>1, <2>2 DEF NoCall
  <2>4. DOMAIN k = OutputFields
    BY <2>2 DEF EngineInv, OutsOK, OutputGood, OutputShape
  <2>5. /\ p.spec = k.spec /\ p.num_tokens = k.num_tokens
        /\ p.num_computed_tokens = k.num_computed_tokens
        /\ p.num_scheduled_tokens = k.num_scheduled_tokens
    BY <2>2, <2>4 DEF OutputOfCall, OutputFields
  <2> QED
    BY <2>2, <2>3, <2>5 DEF DraftsFollow
<1>9. CASE ExecuteModel
  <2>1. call'.output = call.output
    BY <1>9 DEF ExecuteModel, BeginUpdate, NoCall
  <2> QED
    BY <2>1, <1>s
<1>10. DraftsFollow(call'.output)
  BY <1>1, <1>2, <1>3, <1>4, <1>5, <1>6, <1>7, <1>8, <1>9 DEF Steps, EngineStep
<1> QED
  BY <1>10 DEF DraftsFollow

-----------------------------------------------------------------------------
\* No request lives at its length; one that has finished there holds its blocks until
\* every rank was read.
CapInv == \A r \in Req : req[r].status # "FINISHED" => ~ReachesCap(r, req[r].num_tokens)
SentInv ==
  \A r \in RemoteDecode :
    req[r].status = "FINISHED" /\ ReachesCap(r, req[r].num_tokens) /\ kvm.req_to_blocks[r] = << >>
      => AllRead(r)

\* What a step does to a request: it keeps its tokens, and its blocks if it has finished
\* and is still to be read; it grows and goes on; or it stops, with blocks to send if it
\* has reached its length.
TokensKept(q) == req'[q].num_tokens = req[q].num_tokens
Settles(q) == TokensKept(q) /\ (req[q].status = "FINISHED" => ListKept(q) \/ AllRead(q))
GoesOn(q) == req[q].status # "FINISHED" /\ ~ReachesCap(q, req'[q].num_tokens)
StopsWell(q) ==
  /\ req[q].status # "FINISHED" /\ req'[q].status = "FINISHED"
  /\ q \in RemoteDecode /\ ReachesCap(q, req'[q].num_tokens) => kvm'.req_to_blocks[q] # << >>
SentFrame == \A q \in Req : Settles(q) \/ GoesOn(q) \/ StopsWell(q)

LEMMA CapInit == Init => CapInv /\ SentInv
<1> SUFFICES ASSUME Init PROVE CapInv /\ SentInv
  OBVIOUS
<1>1. ASSUME NEW r \in Req
      PROVE  req[r].status = "NEW" /\ ~ReachesCap(r, req[r].num_tokens)
  <2>1. req[r].status = "NEW" /\ req[r].num_tokens = PromptLen[r]
    BY <1>1 DEF Init, SchedulerInit
  <2>2. PICK p, m, t : p = PromptLen[r] /\ m = MaxModelLen /\ t = MaxTokens[r]
    OBVIOUS
  <2>3. p \in 1..(m - 1) /\ t \in Nat \ {0} /\ m \in Nat
    BY <1>1, <2>2, SchedulerAssumption, CapBounds
  <2>4. LengthCap(r) = m \/ LengthCap(r) = p + t
    BY <2>2 DEF LengthCap, AtMost
  <2>5. ~(p >= m) /\ ~(p >= p + t)
    BY <2>3
  <2> QED
    BY <2>1, <2>2, <2>4, <2>5 DEF ReachesCap
<1> QED
  BY <1>1, ConnectorAssumption DEF CapInv, SentInv

LEMMA SentStep ==
  ASSUME QueueInv, CapInv, SentInv, ReadGrows, [Steps]_engineVars, SentFrame
  PROVE  CapInv' /\ SentInv'
<1>1. ASSUME NEW q \in Req, req'[q].status # "FINISHED"
      PROVE  ~ReachesCap(q, req'[q].num_tokens)
  <2>1. req[q].status # "FINISHED"
    BY <1>1, FinishedStays
  <2>2. ~ReachesCap(q, req[q].num_tokens)
    BY <1>1, <2>1 DEF CapInv
  <2> QED
    BY <1>1, <2>2 DEF SentFrame, Settles, TokensKept, GoesOn, StopsWell
<1>2. ASSUME NEW q \in RemoteDecode, req'[q].status = "FINISHED",
             ReachesCap(q, req'[q].num_tokens), kvm'.req_to_blocks[q] = << >>
      PROVE  AllRead(q)'
  <2>1. q \in Req
    BY ConnectorAssumption
  <2>2. Settles(q)
    BY <1>2, <2>1 DEF SentFrame, GoesOn, StopsWell
  <2>3. ReachesCap(q, req[q].num_tokens)
    BY <1>2, <2>2 DEF Settles, TokensKept
  <2>4. req[q].status = "FINISHED"
    BY <2>1, <2>3 DEF CapInv
  <2>5. AllRead(q)
    BY <1>2, <2>2, <2>3, <2>4 DEF SentInv, Settles, ListKept
  <2> QED
    BY <2>5 DEF ReadGrows
<1>3. CapInv'
  <2>1. \A q \in Req : req'[q].status # "FINISHED" => ~ReachesCap(q, req'[q].num_tokens)
    BY <1>1
  <2> QED
    BY <2>1 DEF CapInv, ReachesCap, LengthCap
<1> QED
  BY <1>2, <1>3 DEF SentInv, ReachesCap, LengthCap

\* Steps that change one request that has not finished, but for its tokens.
LEMMA TokensStay ==
  ASSUME QueueInv, NEW r \in Req,
         \/ \E s : req' = [req EXCEPT ![r].status = s]
         \/ \E s, n : req' = [req EXCEPT ![r].status = s, ![r].num_computed_tokens = n]
         \/ \E d : req' = [req EXCEPT ![r].spec_token_ids = d]
  PROVE  \A q \in Req : TokensKept(q)
<1>1. CASE \E s : req' = [req EXCEPT ![r].status = s]
  BY <1>1 DEF QueueInv, Shapes, ReqFields, TokensKept
<1>2. CASE \E s, n : req' = [req EXCEPT ![r].status = s, ![r].num_computed_tokens = n]
  <2>1. PICK s, n : req' = [req EXCEPT ![r].status = s, ![r].num_computed_tokens = n]
    BY <1>2
  <2>2. req'[r].num_tokens = req[r].num_tokens /\ \A q \in Req \ {r} : req'[q] = req[q]
    BY <2>1 DEF QueueInv, Shapes, ReqFields
  <2> QED
    BY <2>2 DEF TokensKept
<1>3. CASE \E d : req' = [req EXCEPT ![r].spec_token_ids = d]
  BY <1>3 DEF QueueInv, Shapes, ReqFields, TokensKept
<1> QED
  BY <1>1, <1>2, <1>3

LEMMA OneSettles ==
  ASSUME NEW r \in Req, req[r].status # "FINISHED", OthersKeep(r), \A q \in Req : TokensKept(q)
  PROVE  SentFrame
  BY DEF SentFrame, Settles, OthersKeep

LEMMA AllSettle ==
  ASSUME \A q \in Req : TokensKept(q), \A q \in Req : ListKept(q)
  PROVE  SentFrame
  BY DEF SentFrame, Settles

LEMMA SentSchedule ==
  ASSUME Modelled, QueueInv, EngineInv, UNCHANGED batch_queue, ScheduleSteps
  PROVE  SentFrame
<1>0. "FINISHED" \notin Waits \cup {"RUNNING"}
  BY DEF Waits
<1>1. CASE SkipRunning \/ RunningLoopEnds \/ SkipWaiting \/ WaitingLoopEnds
  <2>1. UNCHANGED <<req, kvm>>
    BY <1>1 DEF SkipRunning, RunningLoopEnds, SkipWaiting, WaitingLoopEnds
  <2>2. \A q \in Req : TokensKept(q)
    BY <2>1 DEF TokensKept
  <2>3. \A q \in Req : ListKept(q)
    BY <2>1 DEF ListKept
  <2> QED
    BY <2>2, <2>3, AllSettle
<1>2. CASE ScheduleRunning
  <2>1. PICK r : r = Current
    OBVIOUS
  <2>2. InRunningLoop /\ \E n : req' = [req EXCEPT ![r].spec_token_ids = n]
    BY <1>2, <2>1 DEF ScheduleRunning
  <2>3. r \in Req /\ req[r].status = "RUNNING"
    BY <2>1, <2>2, CurrentToRun
  <2>4. OthersKeep(r)
    BY <1>2, <2>1, EngineScheduleRunning
  <2>5. \A q \in Req : TokensKept(q)
    BY <2>2, <2>3, TokensStay
  <2> QED
    BY <2>3, <2>4, <2>5, <1>0, OneSettles
<1>3. CASE PreemptLast
  <2>1. PICK r : r = running[Len(running)]
    OBVIOUS
  <2>2. InRunningLoop /\ req' = [req EXCEPT ![r].status = "PREEMPTED", ![r].num_computed_tokens = 0]
    BY <1>3, <2>1 DEF PreemptLast
  <2>3. r \in Req /\ req[r].status = "RUNNING"
    BY <2>1, <2>2, RunningIsCurrent
  <2>4. OthersKeep(r)
    BY <1>3, <2>1, EnginePreemptLast
  <2>5. \A q \in Req : TokensKept(q)
    BY <2>2, <2>3, TokensStay
  <2> QED
    BY <2>3, <2>4, <2>5, <1>0, OneSettles
<1>4. CASE SkipLora \/ ScheduleWaiting \/ LoadRemote \/ StopAtWaiting
  <2>1. PICK r : r = Head(waiting)
    OBVIOUS
  <2>2. r \in Req /\ req[r].status \in Waits
    BY <1>4, <2>1, HeadStatus
  <2>3. \/ \E s, n : req' = [req EXCEPT ![r].status = s, ![r].num_computed_tokens = n]
        \/ \E s : req' = [req EXCEPT ![r].status = s]
    <3>1. CASE SkipLora
      BY <3>1, <2>1 DEF SkipLora, ReqAtHead
    <3>2. CASE ScheduleWaiting
      BY <3>2, <2>1 DEF ScheduleWaiting
    <3>3. CASE LoadRemote
      BY <3>3, <2>1 DEF LoadRemote
    <3>4. CASE StopAtWaiting
      BY <3>4, <2>1 DEF StopAtWaiting, ReqAtHead
    <3> QED
      BY <1>4, <3>1, <3>2, <3>3, <3>4
  <2>4. OthersKeep(r)
    BY <1>4, <2>1, EngineSkipLora, EngineScheduleWaiting, EngineLoadRemote, EngineStopAtWaiting
  <2>5. \A q \in Req : TokensKept(q)
    BY <2>2, <2>3, TokensStay
  <2> QED
    BY <2>2, <2>4, <2>5, <1>0, OneSettles
<1> QED
  BY <1>1, <1>2, <1>3, <1>4 DEF ScheduleSteps

\* At least one block of tokens is computed when a request that is longer than a block
\* reaches its length; so it has a full block to send.
LEMMA BlocksToSend ==
  ASSUME NEW k, NEW r \in RemoteDecode, NEW x \in Nat, x >= BlockSize, BlockSize \in Nat \ {0},
         Len(k.req_to_blocks[r]) \in Nat, x <= BlockSize * Len(k.req_to_blocks[r])
  PROVE  request_finished(k, r, TRUE, x) /\ Len(k.req_to_blocks[r]) > 0
<1>1. PICK b, n : b = BlockSize /\ n = Len(k.req_to_blocks[r])
  OBVIOUS
<1>2. b \in Nat \ {0} /\ n \in Nat /\ x >= b /\ x <= b * n
  BY <1>1
<1>3. b * 0 = 0 /\ b * 1 = b
  BY <1>2
<1>4. n # 0
  BY <1>2, <1>3
<1>5. n = 1 => x = b
  BY <1>2, <1>3
<1>6. n = 1 => x % b = 0
  BY <1>2, <1>5
<1>7. n > 0 /\ (n = 1 \/ n > 1)
  BY <1>2, <1>4
<1>8. n > IF x % b = 0 THEN 0 ELSE 1
  BY <1>6, <1>7
<1> QED
  BY <1>1, <1>7, <1>8 DEF request_finished

\* The tokens that are computed once the answer is applied: all but the last generated.
LEMMA AllButLast ==
  ASSUME QueueInv, OutputInv, EngineInv, DraftsFollow(call.output), InUpdateLoop,
         NEW r, r = Current, call.output.num_scheduled_tokens[r] > 0,
         NEW g \in Generated(call.output, r), NEW x, x = ComputedAfter(r, g), g > 0
  PROVE  x >= req[r].num_tokens + g - 1
<1>1. PICK o, nt, nc, d, c, s :
         /\ o = call.output /\ nt = req[r].num_tokens /\ nc = req[r].num_computed_tokens
         /\ d = o.spec[r] /\ c = o.num_computed_tokens[r] /\ s = o.num_scheduled_tokens[r]
  OBVIOUS
<1>2. r \in Req /\ nt \in Nat /\ nc \in Nat /\ d \in Nat
  <2>1. PICK l, e : l = kvm.req_to_blocks[r] /\ e = kvm.num_cached_block[r]
    OBVIOUS
  <2>2. r \in Req /\ nt \in 1..LengthCap(r) /\ nc \in Nat /\ d \in Nat
    BY <1>1, <2>1, CurrentInFlight
  <2> QED
    BY <2>2, CapBounds
<1>3. r \in StillToCome /\ call.phase = "update"
  BY CurrentIsNotToCome DEF InUpdateLoop
<1>4. nc = c + s /\ o.num_tokens[r] = nt
  <2>1. Advanced(r)
    BY <1>2, <1>3 DEF OutputInv, OutputRecords, IsScheduled
  <2> QED
    BY <2>1, <1>1 DEF Advanced
<1>5. g \in Nat /\ g <= 1 + d /\ nc >= nt
  <2>1. CASE Samples(o, r)
    <3>1. g \in 1..(1 + d)
      BY <2>1, <1>1 DEF Generated
    <3>2. c + s >= nt
      BY <2>1, <1>1, <1>4 DEF Samples
    <3> QED
      BY <3>1, <3>2, <1>2, <1>4
  <2>2. CASE ~Samples(o, r)
    <3>1. g = 0
      BY <2>2, <1>1 DEF Generated
    <3> QED
      BY <3>1
  <2> QED
    BY <2>1, <2>2
<1>6. d > 0 => nt + d <= nc
  BY <1>1, <1>2, <1>4 DEF DraftsFollow
<1>7. x = IF d > 0 THEN nc - (d + 1 - g) ELSE nc
  BY <1>1, <1>2, <1>5 DEF ComputedAfter, Rejected
<1>8. CASE d > 0
  <2>1. x = nc - (d + 1 - g)
    BY <1>7, <1>8
  <2> QED
    BY <2>1, <1>1, <1>2, <1>5, <1>6, <1>8
<1>9. CASE ~(d > 0)
  <2>1. x = nc /\ d = 0
    BY <1>2, <1>7, <1>9
  <2>2. g = 1
    BY <2>1, <1>5
  <2> QED
    BY <2>1, <2>2, <1>1, <1>2, <1>5
<1> QED
  BY <1>8, <1>9

LongEnough == \A r \in RemoteDecode : LengthCap(r) > BlockSize

LEMMA SentStops ==
  ASSUME LongEnough, QueueInv, OutputInv, EngineInv, DraftsFollow(call.output), InUpdateLoop,
         UNCHANGED batch_queue, NEW r, r = Current, call.output.num_scheduled_tokens[r] > 0,
         NEW g \in Generated(call.output, r), UpdateStops(r, g)
  PROVE  SentFrame
<1>1. PICK nt, x, l, c : /\ nt = req[r].num_tokens /\ x = ComputedAfter(r, g)
                         /\ l = kvm.req_to_blocks[r] /\ c = kvm.num_cached_block[r]
  OBVIOUS
<1>2. PICK n \in 1..g :
         /\ req' = [req EXCEPT ![r].status = "FINISHED", ![r].num_tokens = nt + n,
                               ![r].num_computed_tokens = x]
         /\ free_request(r, request_finished(kvm, r, ReachesCap(r, nt + n), x))
  BY <1>1 DEF UpdateStops
<1>3. /\ g \in Nat /\ x \in Nat /\ nt \in 1..LengthCap(r) /\ r \in Req
      /\ RunsWell(nt + g, x, 0, l, c) /\ req[r].status = "RUNNING"
  BY <1>1, TakenBack
<1>4. /\ req'[r].status = "FINISHED" /\ req'[r].num_tokens = nt + n
      /\ \A q \in Req : q # r => req'[q] = req[q]
  BY <1>2, <1>3 DEF QueueInv, Shapes, ReqFields
<1>5. OthersKeep(r)
  BY EngineUpdateStops
<1>6. ASSUME r \in RemoteDecode, ReachesCap(r, nt + n) PROVE kvm'.req_to_blocks[r] # << >>
  <2>1. LengthCap(r) \in Nat /\ BlockSize \in Nat \ {0} /\ Len(l) \in Nat /\ l \in Seq(Blocks \ {NullBlock})
    BY <1>1, <1>3, CapBounds, NoneHashed DEF EngineInv
  <2>2. nt + n >= LengthCap(r) /\ LengthCap(r) > BlockSize
    BY <1>6 DEF LongEnough, ReachesCap
  <2>3. g > 0
    BY <1>2, <1>3
  <2>4. x >= nt + g - 1
    BY <1>1, <2>3, AllButLast
  <2>5. x >= BlockSize
    BY <1>2, <1>3, <2>1, <2>2, <2>4
  <2>6. x <= BlockSize * Len(l)
    BY <1>3 DEF RunsWell
  <2>7. request_finished(kvm, r, TRUE, x) /\ Len(l) > 0
    BY <1>1, <1>3, <1>6, <2>1, <2>5, <2>6, BlocksToSend
  <2>8. request_finished(kvm, r, ReachesCap(r, nt + n), x)
    BY <2>7, <1>6 DEF request_finished
  <2>9. kvm' = kvm
    BY <1>2, <2>8 DEF free_request, FreedManager
  <2>10. l # << >>
    BY <2>1, <2>7
  <2> QED
    BY <2>9, <2>10, <1>1
<1>7. StopsWell(r)
  BY <1>3, <1>4, <1>6 DEF StopsWell
<1>8. \A q \in Req \ {r} : Settles(q)
  BY <1>4, <1>5 DEF Settles, TokensKept, OthersKeep
<1> QED
  BY <1>7, <1>8 DEF SentFrame

LEMMA SentUpdate ==
  ASSUME LongEnough, QueueInv, OutputInv, TransferInv, EngineInv, ReadInv,
         DraftsFollow(call.output), UNCHANGED batch_queue, UpdateSteps
  PROVE  SentFrame
<1>1. CASE KeepUnscheduled
  <2>1. \A q \in Req : TokensKept(q)
    BY <1>1 DEF TokensKept, KeepUnscheduled
  <2>2. \A q \in Req : ListKept(q)
    BY <1>1 DEF ListKept, KeepUnscheduled
  <2> QED
    BY <2>1, <2>2, AllSettle
<1>2. CASE UpdateScheduled
  <2>1. PICK r, g : /\ r = Current /\ g \in Generated(call.output, r)
                    /\ (\E d : UpdateContinues(r, g, d)) \/ UpdateStops(r, g)
    BY <1>2 DEF UpdateScheduled
  <2>2. InUpdateLoop /\ call.output.num_scheduled_tokens[r] > 0
    BY <1>2, <2>1 DEF UpdateScheduled
  <2>3. r \in Req /\ req[r].status = "RUNNING"
    BY <2>1, <2>2, CurrentInFlight
  <2>4. CASE \E d : UpdateContinues(r, g, d)
    <3>1. PICK d, t, n : /\ UpdateContinues(r, g, d)
                         /\ t = req[r].num_tokens + g /\ n = ComputedAfter(r, g)
      BY <2>4
    <3>2. /\ kvm' = kvm /\ ~ReachesCap(r, t)
          /\ req' = [req EXCEPT ![r].num_tokens = t, ![r].num_computed_tokens = n,
                                ![r].spec_token_ids = d]
      BY <3>1 DEF UpdateContinues
    <3>3. req'[r].num_tokens = t /\ \A q \in Req \ {r} : req'[q] = req[q]
      BY <3>2, <2>3 DEF QueueInv, Shapes, ReqFields
    <3>4. GoesOn(r)
      BY <2>3, <3>2, <3>3 DEF GoesOn
    <3>5. \A q \in Req \ {r} : Settles(q)
      BY <3>2, <3>3 DEF Settles, TokensKept, ListKept
    <3> QED
      BY <3>4, <3>5 DEF SentFrame
  <2>5. CASE UpdateStops(r, g)
    BY <2>1, <2>2, <2>5, SentStops
  <2> QED
    BY <2>1, <2>4, <2>5
<1>3. CASE EndUpdate
  <2>1. PICK S : S = call.finished_sending
    OBVIOUS
  <2>2. \A r \in S : req[r].status = "FINISHED"
    BY <2>1 DEF TransferInv, WaitsToBeRead
  <2>3. Emptied(kvm, kvm', S)
    BY <1>3, <2>1, <2>2, EngineEndUpdate
  <2>4. \A q \in S : AllRead(q)
    BY <2>1 DEF ReadInv
  <2>5. \A q \in Req : TokensKept(q)
    BY <1>3 DEF EndUpdate, TokensKept
  <2>6. \A q \in Req : ListKept(q) \/ q \in S
    BY <2>3 DEF Emptied, ListKept
  <2> QED
    BY <2>4, <2>5, <2>6 DEF SentFrame, Settles
<1> QED
  BY <1>1, <1>2, <1>3 DEF UpdateSteps

LEMMA SentFrames ==
  ASSUME LongEnough, Modelled, QueueInv, OutputInv, TransferInv, EngineInv, ReadInv,
         DraftsFollow(call.output), [Steps]_engineVars
  PROVE  SentFrame
<1>1. ASSUME NEW r \in Req, AddRequest(r) \/ AbortRequest(r) \/ CompileGrammar(r)
      PROVE  SentFrame
  <2>1. CASE AddRequest(r)
    <3>1. (\E s : req' = [req EXCEPT ![r].status = s]) /\ kvm' = kvm
      BY <2>1 DEF AddRequest, add_request
    <3>2. \A q \in Req : TokensKept(q)
      BY <3>1, TokensStay
    <3>3. \A q \in Req : ListKept(q)
      BY <3>1 DEF ListKept
    <3> QED
      BY <3>2, <3>3, AllSettle
  <2>2. CASE AbortRequest(r)
    <3>1. req' = [req EXCEPT ![r].status = "FINISHED"] /\ req[r].status # "FINISHED"
      BY <2>2 DEF AbortRequest, finish_requests, Live
    <3>2. \A q \in Req : TokensKept(q)
      BY <3>1, TokensStay
    <3> QED
      BY <2>2, <3>1, <3>2, EngineAbort, OneSettles
  <2>3. CASE CompileGrammar(r)
    <3>1. UNCHANGED <<req, kvm>>
      BY <2>3 DEF CompileGrammar, GrammarCompiled
    <3>2. \A q \in Req : TokensKept(q)
      BY <3>1 DEF TokensKept
    <3>3. \A q \in Req : ListKept(q)
      BY <3>1 DEF ListKept
    <3> QED
      BY <3>2, <3>3, AllSettle
  <2> QED
    BY <1>1, <2>1, <2>2, <2>3
<1>2. ASSUME req' = req, kvm' = kvm \/ kvm' = [kvm EXCEPT !.pool = reset_prefix_cache(@)]
      PROVE  SentFrame
  <2>1. DOMAIN kvm = ManagerFields
    BY DEF EngineInv, ManagerOK, ManagerShape
  <2>2. \A q \in Req : ListKept(q)
    BY <1>2, <2>1 DEF ListKept, ManagerFields
  <2>3. \A q \in Req : TokensKept(q)
    BY <1>2 DEF TokensKept
  <2> QED
    BY <2>2, <2>3, AllSettle
<1>3. ASSUME NEW k \in Ranks, NEW r \in Req, TransferArrives(k, r) \/ TransferIsRead(k, r)
      PROVE  SentFrame
  BY <1>2, <1>3 DEF TransferArrives, TransferIsRead, schedulerVars
<1>4. CASE ResetPrefixCache
  BY <1>2, <1>4 DEF ResetPrefixCache
<1>5. CASE UNCHANGED engineVars
  BY <1>2, <1>5 DEF engineVars, schedulerVars
<1>6. CASE StepSchedules \/ StepDrains \/ ExecuteModel
  BY <1>2, <1>6 DEF StepSchedules, StepDrains, ExecuteModel
<1>7. CASE StepDispatches
  <2>1. /\ kvm' = kvm
        /\ req' = [r \in Req |-> [req[r] EXCEPT
                 !.num_computed_tokens = @ + call.output.num_scheduled_tokens[r]]]
    BY <1>7 DEF StepDispatches, EndSchedule
  <2>2. \A q \in Req : TokensKept(q)
    BY <2>1 DEF QueueInv, Shapes, ReqFields, TokensKept
  <2>3. \A q \in Req : ListKept(q)
    BY <2>1 DEF ListKept
  <2> QED
    BY <2>2, <2>3, AllSettle
<1>8. CASE ScheduleSteps /\ UNCHANGED <<batch_queue, worker>>
  BY <1>8, SentSchedule
<1>9. CASE UpdateSteps /\ UNCHANGED <<batch_queue, worker>>
  BY <1>9, SentUpdate
<1> QED
  BY <1>1, <1>3, <1>4, <1>5, <1>6, <1>7, <1>8, <1>9 DEF Steps, EngineStep

\* All that is known of the requests whose blocks are sent.
SendInv ==
  /\ QueueInv /\ OutputInv /\ TransferInv /\ EngineInv
  /\ ReadInv /\ DraftsFollow(call.output) /\ CapInv /\ SentInv

\* SentBlocksStay, for the engine that runs one batch at a time and requests longer than
\* a block (request_finished sends full blocks, and a request without one is freed at
\* once): a request that stopped at its length to be read by another engine loses its
\* blocks only when every rank has been read.
THEOREM SentBlocksAreKept ==
  ASSUME Modelled, MaxConcurrentBatches = 1, LongEnough
  PROVE  Spec => []SentBlocksStay
<1>1. Init => SendInv
  <2> SUFFICES ASSUME Init PROVE SendInv
    OBVIOUS
  <2>1. PICK o : o = call.output
    OBVIOUS
  <2>2. o = NoOutput
    BY <2>1 DEF Init, SchedulerInit, NoCall
  <2>3. DraftsFollow(o)
    BY <2>2, NothingDrafted
  <2> QED
    BY <2>1, <2>3, QueueInit, OutputInit, TransferInit, EngineInit, ReadInit, CapInit DEF SendInv
<1>2. SendInv /\ [Next]_vars => SendInv'
  <2> SUFFICES ASSUME SendInv, [Steps]_engineVars PROVE SendInv'
    BY NextSteps
  <2>1. /\ QueueInv /\ OutputInv /\ TransferInv /\ EngineInv
        /\ ReadInv /\ DraftsFollow(call.output) /\ CapInv /\ SentInv
    BY DEF SendInv
  <2>2. QueueInv' /\ TransferInv' /\ EngineInv'
    BY <2>1, QueueNext, TransferNext, EngineNext
  <2>3. OutputInv'
    BY <2>1, OutputNext
  <2>4. ReadInv' /\ ReadGrows
    BY <2>1, ReadNext
  <2>5. DraftsFollow(call.output)'
    BY <2>1, DraftsNext
  <2>6. SentFrame
    BY <2>1, SentFrames
  <2>7. CapInv' /\ SentInv'
    BY <2>1, <2>4, <2>6, SentStep
  <2> QED
    BY <2>2, <2>3, <2>4, <2>5, <2>7 DEF SendInv
<1>3. SendInv => SentBlocksStay
  <2> SUFFICES ASSUME SendInv, NEW r \in RemoteDecode, req[r].status = "FINISHED",
                      ReachesCap(r, req[r].num_tokens), ~Sending(r), NEW k \in Ranks
               PROVE  <<k, r>> \in worker.transfers.read
    BY DEF SentBlocksStay
  <2>1. AllRead(r)
    BY DEF SendInv, SentInv, Sending
  <2>2. k \in ReadBy(worker.transfers, r)
    BY <2>1 DEF AllRead
  <2> QED
    BY <2>2 DEF ReadBy
<1> QED
  BY <1>1, <1>2, <1>3, PTL DEF Spec

=============================================================================
