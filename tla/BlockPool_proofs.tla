------------------------- MODULE BlockPool_proofs -------------------------
(***************************************************************************)
(* Proofs about the block pool: for every number of blocks, every set of   *)
(* requests and every choice of their hash chains, with prefix caching on  *)
(* or off, the reference counts, the free queue, the hash index and the    *)
(* KV events agree at every step of every call.                            *)
(***************************************************************************)
EXTENDS BlockPool, FiniteSetTheorems, SequenceTheorems, TLAPS

\* The blocks of a sequence are distinct; a is before b in it.
Distinct(q) == \A i, j \in DOMAIN q : q[i] = q[j] => i = j
Before(q, a, b) == \E i, j \in DOMAIN q : i < j /\ q[i] = a /\ q[j] = b

Pools ==
  [free_block_queue : Seq(Blocks),
   ref_cnt : [Blocks -> Nat],
   block_hash : [Blocks -> Hashes \cup {NoHash}],
   cached : [Hashes -> Seq(Blocks)],
   view : SUBSET Hashes]
Todos == [req : Requests, touch : Seq(Blocks), new : Nat, cache : Nat, free : Nat]

\* The types of the variables.
Types ==
  /\ pool \in Pools
  /\ req_to_blocks \in [Requests -> Seq(Blocks)]
  /\ num_cached_block \in [Requests -> Nat]
  /\ todo \in Todos

\* A request holds a block once, never the null block, and alone as long as the
\* block has no hash; its cached blocks are the first of its list.
HeldOnce ==
  \A r \in Requests :
    /\ Distinct(req_to_blocks[r])
    /\ NullBlock \notin Members(req_to_blocks[r])
    /\ num_cached_block[r] <= Len(req_to_blocks[r])
    /\ num_cached_block[r] <= Len(HashOf[r])
HeldAlone ==
  \A r, s \in Requests : \A b \in Members(req_to_blocks[r]) \cap Members(req_to_blocks[s]) :
    pool.block_hash[b] = NoHash => r = s

\* The index lists a block once and never the null block, and is empty without
\* prefix caching.
CachedOnce ==
  /\ \A h \in Hashes : Distinct(pool.cached[h])
  /\ pool.block_hash[NullBlock] = NoHash
  /\ ~EnableCaching => \A b \in Blocks : pool.block_hash[b] = NoHash

\* What is left of a call fits the request.
CallFits ==
  LET r == todo.req
      held == Len(req_to_blocks[r])
      hits == Len(todo.touch)
  IN /\ hits > 0 => num_cached_block[r] = held
     /\ num_cached_block[r] + hits + todo.cache <= Len(HashOf[r])
     /\ num_cached_block[r] + hits + todo.cache <= held + hits + todo.new
     /\ \A i \in 1..hits : pool.block_hash[todo.touch[i]] = HashOf[r][held + i]
     /\ todo.free > 0 => todo.free = held /\ hits = 0 /\ todo.new = 0 /\ todo.cache = 0
     /\ ~EnableCaching => hits = 0 /\ todo.cache = 0

\* A free block is evicted before the blocks its hash builds on: for each of
\* them there is a block that is in use or further back in the queue.
EvictionOrder ==
  \A b \in Blocks : pool.ref_cnt[b] = 0 =>
    \A r \in Requests : \A j \in 1..Len(HashOf[r]) : pool.block_hash[b] = HashOf[r][j] =>
      \A i \in 1..(j - 1) : \E w \in Blocks :
        /\ pool.block_hash[w] = HashOf[r][i]
        /\ pool.ref_cnt[w] > 0 \/ Before(pool.free_block_queue, b, w)

\* The inductive invariant.
IInv ==
  /\ Types /\ BlocksAccounted /\ HeldOnce /\ HeldAlone /\ IndexIsExact /\ CachedOnce
  /\ CallFits /\ CallCompletes /\ EventsSound /\ EvictionOrder

-----------------------------------------------------------------------------
\* What DropAt returns: the sequence without its i-th element.
LEMMA DropAtElements ==
  ASSUME NEW S, NEW q \in Seq(S), NEW i \in 1..Len(q)
  PROVE  /\ DropAt(q, i) \in Seq(S)
         /\ Len(DropAt(q, i)) = Len(q) - 1
         /\ \A j \in 1..(Len(q) - 1) :
              DropAt(q, i)[j] = IF j < i THEN q[j] ELSE q[j + 1]
<1> DEFINE d == DropAt(q, i)
<1>1. Len(q) \in Nat /\ DOMAIN q = 1..Len(q) /\ q \in [1..Len(q) -> S]
  BY LenProperties
<1>2a. Len(q) - 1 \in Nat
  BY <1>1
<1>2. PICK n \in Nat : n = Len(q) - 1
  BY <1>2a
<1>3. d = [j \in 1..n |-> IF j < i THEN q[j] ELSE q[j + 1]]
  BY <1>2 DEF DropAt
<1>4. \A j \in 1..n : (IF j < i THEN q[j] ELSE q[j + 1]) \in S
  BY <1>1, <1>2
<1>5. d \in [1..n -> S]
  BY <1>3, <1>4
<1>6. d \in Seq(S)
  BY <1>5, SeqDef
<1>7. Len(d) = n
  BY <1>5, <1>6, LenProperties
<1> QED BY <1>2, <1>3, <1>6, <1>7

\* Dropping an element of a sequence without repetitions.
LEMMA DropAtDistinct ==
  ASSUME NEW S, NEW q \in Seq(S), Distinct(q), NEW i \in 1..Len(q)
  PROVE  /\ Distinct(DropAt(q, i))
         /\ Members(DropAt(q, i)) = Members(q) \ {q[i]}
         /\ \A x, y : x # q[i] /\ y # q[i] /\ Before(q, x, y) => Before(DropAt(q, i), x, y)
<1> DEFINE d == DropAt(q, i)
<1>1. Len(q) \in Nat /\ DOMAIN q = 1..Len(q)
  BY LenProperties
<1>2. /\ d \in Seq(S) /\ Len(d) = Len(q) - 1 /\ DOMAIN d = 1..(Len(q) - 1)
      /\ \A j \in 1..(Len(q) - 1) : d[j] = IF j < i THEN q[j] ELSE q[j + 1]
  BY DropAtElements, LenProperties
<1> HIDE DEF d
<1>3. \A j \in 1..Len(q) : j # i =>
        \E k \in DOMAIN d : d[k] = q[j] /\ k = IF j < i THEN j ELSE j - 1
  <2> SUFFICES ASSUME NEW j \in 1..Len(q), j # i
               PROVE  \E k \in DOMAIN d : d[k] = q[j] /\ k = IF j < i THEN j ELSE j - 1
    OBVIOUS
  <2>1. CASE j < i
    <3>1. j \in DOMAIN d /\ d[j] = q[j]
      BY <1>1, <1>2, <2>1
    <3> QED BY <3>1, <2>1
  <2>2. CASE j > i
    <3>1. j - 1 \in DOMAIN d /\ d[j - 1] = q[j]
      BY <1>1, <1>2, <2>2
    <3> QED BY <3>1, <2>2
  <2> QED BY <2>1, <2>2, <1>1
<1>4. \A k \in DOMAIN d : \E j \in 1..Len(q) :
        j # i /\ d[k] = q[j] /\ j = IF k < i THEN k ELSE k + 1
  <2> SUFFICES ASSUME NEW k \in DOMAIN d
               PROVE  \E j \in 1..Len(q) :
                        j # i /\ d[k] = q[j] /\ j = IF k < i THEN k ELSE k + 1
    OBVIOUS
  <2>1. CASE k < i
    BY <1>1, <1>2, <2>1
  <2>2. CASE ~(k < i)
    <3>1. k + 1 \in 1..Len(q) /\ k + 1 # i /\ d[k] = q[k + 1]
      BY <1>1, <1>2, <2>2
    <3> QED BY <3>1, <2>2
  <2> QED BY <2>1, <2>2
<1>5. Distinct(d)
  <2> SUFFICES ASSUME NEW k \in DOMAIN d, NEW l \in DOMAIN d, d[k] = d[l]
               PROVE  k = l
    BY DEF Distinct
  <2>1. PICK j \in 1..Len(q) : j # i /\ d[k] = q[j] /\ j = IF k < i THEN k ELSE k + 1
    BY <1>4
  <2>2. PICK m \in 1..Len(q) : m # i /\ d[l] = q[m] /\ m = IF l < i THEN l ELSE l + 1
    BY <1>4
  <2>3. j = m
    BY <2>1, <2>2, <1>1 DEF Distinct
  <2> QED BY <2>1, <2>2, <2>3, <1>2, <1>1
<1>6. Members(d) = Members(q) \ {q[i]}
  <2>1. ASSUME NEW x \in Members(d) PROVE x \in Members(q) \ {q[i]}
    <3>1. PICK k \in DOMAIN d : d[k] = x
      BY <2>1 DEF Members
    <3>2. PICK j \in 1..Len(q) : j # i /\ x = q[j]
      BY <1>4, <3>1
    <3> QED BY <3>2, <1>1 DEF Members, Distinct
  <2>2. ASSUME NEW x \in Members(q) \ {q[i]} PROVE x \in Members(d)
    <3>1. PICK j \in 1..Len(q) : j # i /\ x = q[j]
      BY <1>1 DEF Members
    <3> QED BY <1>3, <3>1 DEF Members
  <2> QED BY <2>1, <2>2
<1>7. ASSUME NEW x, NEW y, x # q[i], y # q[i], Before(q, x, y) PROVE Before(d, x, y)
  <2>1. PICK j \in 1..Len(q), m \in 1..Len(q) : j < m /\ q[j] = x /\ q[m] = y
    BY <1>1, <1>7 DEF Before
  <2>2. j # i /\ m # i
    BY <2>1, <1>7
  <2>3. PICK k \in DOMAIN d : d[k] = q[j] /\ k = IF j < i THEN j ELSE j - 1
    BY <1>3, <2>2
  <2>4. PICK l \in DOMAIN d : d[l] = q[m] /\ l = IF m < i THEN m ELSE m - 1
    BY <1>3, <2>2
  <2>5. k < l
    BY <2>1, <2>2, <2>3, <2>4, <1>1
  <2> QED BY <2>1, <2>3, <2>4, <2>5 DEF Before
<1> QED BY <1>5, <1>6, <1>7 DEF d

\* Removing a block of a queue without repetitions.
LEMMA WithoutBlock ==
  ASSUME NEW S, NEW q \in Seq(S), Distinct(q), NEW b \in Members(q)
  PROVE  /\ Without(q, b) \in Seq(S)
         /\ Len(Without(q, b)) = Len(q) - 1
         /\ Distinct(Without(q, b))
         /\ Members(Without(q, b)) = Members(q) \ {b}
         /\ \A x, y : x # b /\ y # b /\ Before(q, x, y) => Before(Without(q, b), x, y)
<1> DEFINE i == IndexIn(q, b)
<1>1. i \in DOMAIN q /\ q[i] = b
  BY DEF IndexIn, Members
<1>2. i \in 1..Len(q)
  BY <1>1, LenProperties
<1> HIDE DEF i
<1>3. Without(q, b) = DropAt(q, i)
  BY DEF Without, i
<1> QED BY <1>1, <1>2, <1>3, DropAtElements, DropAtDistinct

\* Appending a block to a sequence that does not hold it.
LEMMA AppendBlock ==
  ASSUME NEW S, NEW q \in Seq(S), Distinct(q), NEW b \in S, b \notin Members(q)
  PROVE  /\ Append(q, b) \in Seq(S)
         /\ Len(Append(q, b)) = Len(q) + 1
         /\ Distinct(Append(q, b))
         /\ Members(Append(q, b)) = Members(q) \cup {b}
         /\ \A i \in 1..Len(q) : Append(q, b)[i] = q[i]
         /\ Append(q, b)[Len(q) + 1] = b
         /\ \A x, y : Before(q, x, y) => Before(Append(q, b), x, y)
         /\ \A x \in Members(q) : Before(Append(q, b), x, b)
<1> DEFINE a == Append(q, b)
<1>1. Len(q) \in Nat /\ DOMAIN q = 1..Len(q)
  BY LenProperties
<1>2. /\ a \in Seq(S) /\ Len(a) = Len(q) + 1
      /\ \A i \in 1..Len(q) : a[i] = q[i]
      /\ a[Len(q) + 1] = b
  BY AppendProperties, <1>1
<1>3. DOMAIN a = 1..(Len(q) + 1)
  BY <1>2, LenProperties
<1> HIDE DEF a
<1>4. \A i \in 1..Len(q) : i \in DOMAIN a /\ a[i] = q[i] /\ q[i] # b
  BY <1>1, <1>2, <1>3 DEF Members
<1>5. \A i \in DOMAIN a : i \in 1..Len(q) \/ i = Len(q) + 1
  BY <1>1, <1>3
<1>6. Len(q) + 1 \in DOMAIN a
  BY <1>1, <1>3
<1>7. Distinct(a)
  BY <1>1, <1>2, <1>4, <1>5 DEF Distinct
<1>8. Members(a) = Members(q) \cup {b}
  BY <1>1, <1>2, <1>4, <1>5, <1>6 DEF Members
<1>9. \A x, y : Before(q, x, y) => Before(a, x, y)
  BY <1>1, <1>4 DEF Before
<1>10. \A x \in Members(q) : Before(a, x, b)
  <2> SUFFICES ASSUME NEW x \in Members(q) PROVE Before(a, x, b)
    OBVIOUS
  <2>1. PICK i \in 1..Len(q) : q[i] = x
    BY <1>1 DEF Members
  <2>2. i < Len(q) + 1
    BY <1>1
  <2> QED BY <2>1, <2>2, <1>2, <1>4, <1>6 DEF Before
<1> QED BY <1>2, <1>7, <1>8, <1>9, <1>10 DEF a

\* A sequence without repetitions is as long as the set of its elements.
LEMMA CardMembers ==
  ASSUME NEW S, NEW q \in Seq(S), Distinct(q)
  PROVE  IsFiniteSet(Members(q)) /\ Cardinality(Members(q)) = Len(q)
<1>1. Len(q) \in Nat /\ DOMAIN q = 1..Len(q) /\ q \in [1..Len(q) -> S]
  BY LenProperties
<1>2. q \in Bijection(1..Len(q), Members(q))
  BY <1>1 DEF Bijection, Injection, Surjection, IsInjective, Members, Distinct
<1>3. ExistsBijection(1..Len(q), Members(q))
  BY <1>2 DEF ExistsBijection
<1> QED BY <1>1, <1>3, FS_NatBijection, FS_CountingElements

\* The elements of a sequence, by their places.
LEMMA MembersOf ==
  ASSUME NEW S, NEW q \in Seq(S)
  PROVE  /\ Len(q) \in Nat
         /\ DOMAIN q = 1..Len(q)
         /\ \A i \in 1..Len(q) : q[i] \in S /\ q[i] \in Members(q)
         /\ Members(q) \subseteq S
         /\ Members(q) = {} <=> q = << >>
         /\ Len(q) = 0 <=> q = << >>
<1>1. Len(q) \in Nat /\ DOMAIN q = 1..Len(q) /\ q \in [1..Len(q) -> S]
  BY LenProperties
<1>2. \A i \in 1..Len(q) : q[i] \in S /\ q[i] \in Members(q)
  BY <1>1 DEF Members
<1>3. Members(q) \subseteq S
  BY <1>1 DEF Members
<1>4. Len(q) = 0 <=> q = << >>
  BY EmptySeq
<1>5. Members(q) = {} => Len(q) = 0
  BY <1>1, <1>2
<1>6. Members(<< >>) = {}
  BY DEF Members
<1> QED BY <1>1, <1>2, <1>3, <1>4, <1>5, <1>6

-----------------------------------------------------------------------------
\* The hashes of a chain are hashes, and none is NoHash.
LEMMA ChainHashes ==
  ASSUME NEW r \in Requests
  PROVE  /\ Len(HashOf[r]) \in Nat
         /\ \A i \in 1..Len(HashOf[r]) : HashOf[r][i] \in Hashes /\ HashOf[r][i] # NoHash
<1>1. HashOf[r] \in Seq(Hashes)
  BY ChainAssumption
<1>2. Len(HashOf[r]) \in Nat /\ \A i \in 1..Len(HashOf[r]) : HashOf[r][i] \in Hashes
  BY <1>1, LenProperties, ElementOfSeq
<1> QED BY <1>2, PoolAssumption

\* Equal hashes are at equal places of chains that agree up to there.
LEMMA EqualHashes ==
  ASSUME NEW r \in Requests, NEW s \in Requests,
         NEW i \in 1..Len(HashOf[r]), NEW j \in 1..Len(HashOf[s]),
         HashOf[r][i] = HashOf[s][j]
  PROVE  i = j /\ \A k \in 1..i : HashOf[r][k] = HashOf[s][k]
BY ChainAssumption

\* The fields of a pool.
LEMMA PoolFields ==
  ASSUME NEW p \in Pools
  PROVE  /\ p.free_block_queue \in Seq(Blocks)
         /\ p.ref_cnt \in [Blocks -> Nat]
         /\ p.block_hash \in [Blocks -> Hashes \cup {NoHash}]
         /\ p.cached \in [Hashes -> Seq(Blocks)]
         /\ p.view \in SUBSET Hashes
BY DEF Pools

\* Pool g is pool p after touch of block b: a reference more, and not in the queue.
Touched(p, g, b) ==
  /\ g \in Pools
  /\ g.ref_cnt = [p.ref_cnt EXCEPT ![b] = @ + 1]
  /\ g.block_hash = p.block_hash
  /\ g.cached = p.cached
  /\ g.view = p.view
  /\ g.free_block_queue = IF p.ref_cnt[b] = 0 THEN Without(p.free_block_queue, b)
                          ELSE p.free_block_queue

\* What touch does to a block that is queued exactly when it has no reference.
LEMMA TouchFields ==
  ASSUME NEW p \in Pools, NEW b \in Blocks \ {NullBlock}, Distinct(p.free_block_queue),
         b \in Members(p.free_block_queue) <=> p.ref_cnt[b] = 0
  PROVE  Touched(p, touch(p, b), b)
<1> DEFINE t == touch(p, b)
           q == IF p.ref_cnt[b] = 0 THEN Without(p.free_block_queue, b)
                ELSE p.free_block_queue
           c == [p.ref_cnt EXCEPT ![b] = @ + 1]
<1>1. q \in Seq(Blocks)
  BY PoolFields, WithoutBlock
<1>2. c \in [Blocks -> Nat]
  BY PoolFields
<1>3. t = [p EXCEPT !.free_block_queue = q, !.ref_cnt = c]
  BY DEF touch, Pools
<1> HIDE DEF q, c, t
<1>4. t = [free_block_queue |-> q, ref_cnt |-> c, block_hash |-> p.block_hash,
           cached |-> p.cached, view |-> p.view]
  BY <1>3 DEF Pools
<1>5. t \in Pools
  BY <1>1, <1>2, <1>4, PoolFields DEF Pools
<1> QED BY <1>4, <1>5 DEF q, c, t, Touched

\* Pool g is pool p after free_block of block b: a reference less, and at the end
\* of the queue when it was the last.
Freed(p, g, b) ==
  /\ g \in Pools
  /\ g.ref_cnt = [p.ref_cnt EXCEPT ![b] = @ - 1]
  /\ g.block_hash = p.block_hash
  /\ g.cached = p.cached
  /\ g.view = p.view
  /\ g.free_block_queue = IF p.ref_cnt[b] = 1 THEN Append(p.free_block_queue, b)
                          ELSE p.free_block_queue

\* What free_block does to a block with a reference.
LEMMA FreeFields ==
  ASSUME NEW p \in Pools, NEW b \in Blocks \ {NullBlock}, p.ref_cnt[b] > 0
  PROVE  Freed(p, free_block(p, b), b)
<1> DEFINE t == free_block(p, b)
           q == IF p.ref_cnt[b] = 1 THEN Append(p.free_block_queue, b)
                ELSE p.free_block_queue
           c == [p.ref_cnt EXCEPT ![b] = @ - 1]
<1>1. q \in Seq(Blocks)
  BY PoolFields, AppendProperties
<1>2. c \in [Blocks -> Nat]
  BY PoolFields
<1>3. t = [p EXCEPT !.ref_cnt = c, !.free_block_queue = q]
  BY DEF free_block, Pools
<1> HIDE DEF q, c, t
<1>4. t = [free_block_queue |-> q, ref_cnt |-> c, block_hash |-> p.block_hash,
           cached |-> p.cached, view |-> p.view]
  BY <1>3 DEF Pools
<1>5. t \in Pools
  BY <1>1, <1>2, <1>4, PoolFields DEF Pools
<1> QED BY <1>4, <1>5 DEF q, c, t, Freed

\* Pool g is pool p with hash h on block b and an entry for it in the index.
Stored(p, g, b, h) ==
  /\ g \in Pools
  /\ g.free_block_queue = p.free_block_queue
  /\ g.ref_cnt = p.ref_cnt
  /\ g.block_hash = [p.block_hash EXCEPT ![b] = h]
  /\ g.cached = [p.cached EXCEPT ![h] = Append(@, b)]
  /\ g.view = p.view \cup {h}

\* What cache_full_block does.
LEMMA CacheFields ==
  ASSUME NEW p \in Pools, NEW b \in Blocks, NEW h \in Hashes
  PROVE  Stored(p, cache_full_block(p, b, h), b, h)
<1> DEFINE t == cache_full_block(p, b, h)
           k == [p.block_hash EXCEPT ![b] = h]
           c == [p.cached EXCEPT ![h] = Append(@, b)]
           v == p.view \cup {h}
<1>1. k \in [Blocks -> Hashes \cup {NoHash}]
  BY PoolFields
<1>2. c \in [Hashes -> Seq(Blocks)]
  <2>1. Append(p.cached[h], b) \in Seq(Blocks)
    BY PoolFields, AppendProperties
  <2> QED BY <2>1, PoolFields
<1>3. v \in SUBSET Hashes
  BY PoolFields
<1>4. t = [p EXCEPT !.block_hash = k, !.cached = c, !.view = v]
  BY DEF cache_full_block, Pools
<1> HIDE DEF k, c, v, t
<1>5. t = [free_block_queue |-> p.free_block_queue, ref_cnt |-> p.ref_cnt,
           block_hash |-> k, cached |-> c, view |-> v]
  BY <1>4 DEF Pools
<1>6. t \in Pools
  BY <1>1, <1>2, <1>3, <1>5, PoolFields DEF Pools
<1> QED BY <1>5, <1>6 DEF k, c, v, t, Stored

\* reset_prefix_cache forgets every hash.
LEMMA ResetFields ==
  ASSUME NEW p \in Pools
  PROVE  /\ reset_prefix_cache(p) \in Pools
         /\ reset_prefix_cache(p).free_block_queue = p.free_block_queue
         /\ reset_prefix_cache(p).ref_cnt = p.ref_cnt
         /\ reset_prefix_cache(p).block_hash = [b \in Blocks |-> NoHash]
         /\ reset_prefix_cache(p).cached = [h \in Hashes |-> << >>]
         /\ reset_prefix_cache(p).view = {}
<1>1. << >> \in Seq(Blocks)
  BY EmptySeq
<1> QED BY <1>1 DEF reset_prefix_cache, Pools

\* popleft takes a block of the queue; with prefix caching it is the head, and no
\* block of the queue is before it.
LEMMA PopleftBlock ==
  ASSUME NEW p \in Pools, Distinct(p.free_block_queue), Len(p.free_block_queue) > 0
  PROVE  /\ popleft(p) \in Members(p.free_block_queue)
         /\ EnableCaching => \A x : ~Before(p.free_block_queue, x, popleft(p))
<1> DEFINE q == p.free_block_queue
<1>1. /\ q \in Seq(Blocks) /\ Len(q) \in Nat /\ DOMAIN q = 1..Len(q) /\ 1 \in DOMAIN q
      /\ q[1] \in Members(q) /\ Members(q) \subseteq Blocks
  <2>1. q \in Seq(Blocks) BY PoolFields
  <2> QED BY <2>1, MembersOf
<1> HIDE DEF q
<1>2. CASE EnableCaching
  <2>1. popleft(p) = q[1]
    BY <1>2 DEF popleft, q
  <2>2. ASSUME NEW x, Before(q, x, q[1]) PROVE FALSE
    <3>1. PICK i \in DOMAIN q, j \in DOMAIN q : i < j /\ q[j] = q[1]
      BY <2>2 DEF Before
    <3>2. j = 1
      BY <3>1, <1>1 DEF Distinct, q
    <3> QED BY <3>1, <3>2, <1>1
  <2> QED BY <2>1, <2>2, <1>1 DEF q
<1>3. CASE ~EnableCaching
  <2>1. PICK b \in Members(q) : \A c \in Members(q) : b <= c
    <3>1. Members(q) # {} /\ Members(q) \in SUBSET Nat
      BY <1>1, PoolAssumption DEF Blocks
    <3>2. PICK b \in Members(q) : \A c \in Members(q) : ~(<<c, b>> \in OpToRel(<, Nat))
      BY <3>1, NatLessThanWellFounded, WFMin, Zenon
    <3>3. \A c \in Nat : c < b /\ b \in Nat => <<c, b>> \in OpToRel(<, Nat)
      BY Zenon DEF OpToRel
    <3>4. \A c \in Members(q) : c \in Nat /\ b \in Nat /\ ~(c < b)
      BY <3>1, <3>2, <3>3, Zenon
    <3> QED BY <3>4
  <2>2. popleft(p) = CHOOSE a \in Members(q) : \A c \in Members(q) : a <= c
    BY <1>3 DEF popleft, q
  <2>3. popleft(p) \in Members(q)
    BY <2>1, <2>2
  <2> QED BY <2>3, <1>3 DEF q
<1> QED BY <1>2, <1>3

\* A pool whose index is exact and whose queue has a block to take.
Indexed(p) ==
  /\ Distinct(p.free_block_queue)
  /\ Len(p.free_block_queue) > 0
  /\ \A h \in Hashes : Distinct(p.cached[h])
  /\ \A h \in Hashes : \A c \in Blocks : c \in Members(p.cached[h]) <=> p.block_hash[c] = h
  /\ ~EnableCaching => \A c \in Blocks : p.block_hash[c] = NoHash

\* The index and the events of pool g are those of pool p without block b.
Evicted(p, g, b) ==
  /\ \A h \in Hashes :
       Distinct(g.cached[h]) /\ Members(g.cached[h]) = Members(p.cached[h]) \ {b}
  /\ \A h \in g.view : h \in p.view /\ p.block_hash[b] # h

\* get_new_block takes a block of the queue, counts the reference and evicts the
\* block from the index, and tells the consumer of the events.
LEMMA NewBlockFields ==
  ASSUME NEW p \in Pools, Indexed(p), NEW b, b = popleft(p)
  PROVE  /\ get_new_block(p) \in Pools
         /\ get_new_block(p).free_block_queue = Without(p.free_block_queue, b)
         /\ get_new_block(p).ref_cnt = [p.ref_cnt EXCEPT ![b] = @ + 1]
         /\ get_new_block(p).block_hash = [p.block_hash EXCEPT ![b] = NoHash]
         /\ Evicted(p, get_new_block(p), b)
<1> DEFINE w == Without(p.free_block_queue, b)
           q == [p EXCEPT !.free_block_queue = w]
           c == [p.ref_cnt EXCEPT ![b] = @ + 1]
           g == get_new_block(p)
           h == p.block_hash[b]
           nh == [p.block_hash EXCEPT ![b] = NoHash]
           nc == [p.cached EXCEPT ![h] = Without(@, b)]
<1>1. b \in Blocks /\ b \in Members(p.free_block_queue)
  BY PopleftBlock, PoolFields, MembersOf DEF Indexed
<1>2. w \in Seq(Blocks)
  BY <1>1, PoolFields, WithoutBlock DEF Indexed
<1>3. c \in [Blocks -> Nat] /\ nh \in [Blocks -> Hashes \cup {NoHash}]
  BY <1>1, PoolFields
<1> HIDE DEF w, c, nh
<1>4. q = [free_block_queue |-> w, ref_cnt |-> p.ref_cnt, block_hash |-> p.block_hash,
           cached |-> p.cached, view |-> p.view]
  <2>1. p = [free_block_queue |-> p.free_block_queue, ref_cnt |-> p.ref_cnt,
             block_hash |-> p.block_hash, cached |-> p.cached, view |-> p.view]
    BY DEF Pools
  <2> QED BY <2>1
<1> HIDE DEF q
<1>5. g = [(IF EnableCaching THEN maybe_evict_cached_block(q, b) ELSE q)
             EXCEPT !.ref_cnt[b] = @ + 1]
  BY DEF get_new_block, q, w
<1>6. p.ref_cnt \in [Blocks -> Nat] /\ p.block_hash \in [Blocks -> Hashes \cup {NoHash}]
      /\ p.cached \in [Hashes -> Seq(Blocks)] /\ p.view \in SUBSET Hashes
  BY PoolFields
<1> HIDE DEF g
<1>7. CASE h = NoHash
  <2>1. (IF EnableCaching THEN maybe_evict_cached_block(q, b) ELSE q) = q
    BY <1>4, <1>7 DEF maybe_evict_cached_block
  <2>2. g = [q EXCEPT !.ref_cnt[b] = @ + 1]
    BY <1>5, <2>1
  <2>3. g = [free_block_queue |-> w, ref_cnt |-> c, block_hash |-> p.block_hash,
             cached |-> p.cached, view |-> p.view]
    BY <1>4, <2>2 DEF c
  <2>4. nh = p.block_hash
    BY <1>1, <1>6, <1>7 DEF nh
  <2>5. g \in Pools
    BY <1>2, <1>3, <1>6, <2>3 DEF Pools
  <2>6. \A k \in Hashes : b \notin Members(p.cached[k])
    BY <1>1, <1>7, PoolAssumption DEF Indexed
  <2>7. \A k \in Hashes : Members(p.cached[k]) = Members(p.cached[k]) \ {b}
    BY <2>6
  <2>8. \A k \in p.view : p.block_hash[b] # k
    BY <1>6, <1>7, PoolAssumption
  <2>9. /\ g.free_block_queue = w /\ g.ref_cnt = c /\ g.block_hash = nh
        /\ g.cached = p.cached /\ g.view = p.view
    BY <2>3, <2>4
  <2> QED BY <2>5, <2>7, <2>8, <2>9 DEF g, w, c, nh, Indexed, Evicted
<1>8. CASE h # NoHash
  <2> HIDE DEF nc
  <2>1. h \in Hashes /\ b \in Members(p.cached[h]) /\ EnableCaching
    BY <1>1, <1>6, <1>8 DEF Indexed
  <2>2. maybe_evict_cached_block(q, b) =
          [q EXCEPT !.block_hash[b] = NoHash, !.cached[h] = Without(@, b), !.view = @ \ {h}]
    BY <1>4, <1>8, <2>1 DEF maybe_evict_cached_block
  <2>3. maybe_evict_cached_block(q, b) =
          [free_block_queue |-> w, ref_cnt |-> p.ref_cnt, block_hash |-> nh,
           cached |-> nc, view |-> p.view \ {h}]
    BY <1>4, <2>2 DEF nh, nc
  <2>4. g = [free_block_queue |-> w, ref_cnt |-> c, block_hash |-> nh,
             cached |-> nc, view |-> p.view \ {h}]
    <3>1. g = [maybe_evict_cached_block(q, b) EXCEPT !.ref_cnt[b] = @ + 1]
      BY <1>5, <2>1
    <3>2. \A v : [[free_block_queue |-> w, ref_cnt |-> p.ref_cnt, block_hash |-> nh,
                   cached |-> nc, view |-> v] EXCEPT !.ref_cnt[b] = @ + 1] =
                 [free_block_queue |-> w, ref_cnt |-> c, block_hash |-> nh,
                  cached |-> nc, view |-> v]
      BY DEF c
    <3> QED BY <3>1, <3>2, <2>3, Zenon
  <2>5. /\ Without(p.cached[h], b) \in Seq(Blocks)
        /\ Distinct(Without(p.cached[h], b))
        /\ Members(Without(p.cached[h], b)) = Members(p.cached[h]) \ {b}
    BY <1>6, <2>1, WithoutBlock DEF Indexed
  <2>6. nc \in [Hashes -> Seq(Blocks)]
    BY <1>6, <2>5 DEF nc
  <2>7. g \in Pools
    BY <1>2, <1>3, <1>6, <2>4, <2>6 DEF Pools
  <2>8. ASSUME NEW k \in Hashes
        PROVE  Distinct(nc[k]) /\ Members(nc[k]) = Members(p.cached[k]) \ {b}
    <3>1. CASE k = h
      BY <1>6, <2>5, <3>1 DEF nc
    <3>2. CASE k # h
      <4>1. nc[k] = p.cached[k]
        BY <1>6, <3>2 DEF nc
      <4>2. b \notin Members(p.cached[k])
        BY <1>1, <3>2 DEF Indexed
      <4> QED BY <4>1, <4>2 DEF Indexed
    <3> QED BY <3>1, <3>2
  <2>9. Evicted(p, g, b)
    BY <2>4, <2>8 DEF Evicted
  <2> QED BY <2>4, <2>7, <2>9 DEF g, w, c, nh
<1> QED BY <1>7, <1>8

-----------------------------------------------------------------------------
\* A block has references exactly when some request holds it.
LEMMA HoldersCount ==
  ASSUME NEW b \in Blocks, pool \in Pools, BlocksAccounted
  PROVE  /\ IsFiniteSet(Holders(b))
         /\ pool.ref_cnt[b] \in Nat
         /\ pool.ref_cnt[b] = Cardinality(Holders(b))
         /\ pool.ref_cnt[b] = 0 <=> Holders(b) = {}
         /\ \A r \in Requests : b \in Members(req_to_blocks[r]) => pool.ref_cnt[b] > 0
<1>1. IsFiniteSet(Holders(b))
  BY ChainAssumption, FS_Subset DEF Holders
<1>2. pool.ref_cnt[b] \in Nat
  BY PoolFields
<1>3. pool.ref_cnt[b] = Cardinality(Holders(b))
  BY DEF BlocksAccounted
<1>4. pool.ref_cnt[b] = 0 <=> Holders(b) = {}
  BY <1>1, <1>3, FS_EmptySet
<1>5. ASSUME NEW r \in Requests, b \in Members(req_to_blocks[r]) PROVE pool.ref_cnt[b] > 0
  <2>1. r \in Holders(b)
    BY <1>5 DEF Holders
  <2> QED BY <2>1, <1>2, <1>4
<1> QED BY <1>1, <1>2, <1>3, <1>4, <1>5

\* A hashed block that a request holds is at the place of its hash, and the
\* request holds the blocks its hash builds on.
LEMMA HeldParents ==
  ASSUME Types, HeldOnce, IndexIsExact,
         NEW s \in Requests, NEW k \in 1..Len(req_to_blocks[s]),
         NEW r \in Requests, NEW j \in 1..Len(HashOf[r]),
         pool.block_hash[req_to_blocks[s][k]] = HashOf[r][j]
  PROVE  /\ k = j
         /\ \A i \in 1..(j - 1) : /\ i \in 1..Len(req_to_blocks[s])
                                  /\ req_to_blocks[s][i] # req_to_blocks[s][k]
                                  /\ pool.block_hash[req_to_blocks[s][i]] = HashOf[r][i]
<1> DEFINE l == req_to_blocks[s]
<1>1. l \in Seq(Blocks) /\ num_cached_block[s] \in Nat
  BY DEF Types
<1>2. Len(l) \in Nat /\ DOMAIN l = 1..Len(l)
  BY <1>1, MembersOf
<1>3. \A i \in 1..Len(l) :
        pool.block_hash[l[i]] = IF i <= num_cached_block[s] THEN HashOf[s][i] ELSE NoHash
  BY <1>2 DEF IndexIsExact
<1>4. num_cached_block[s] <= Len(l) /\ num_cached_block[s] <= Len(HashOf[s]) /\ Distinct(l)
  BY DEF HeldOnce
<1>5. HashOf[r][j] # NoHash /\ Len(HashOf[r]) \in Nat /\ Len(HashOf[s]) \in Nat
  BY ChainHashes
<1> HIDE DEF l
<1>6. pool.block_hash[l[k]] = HashOf[r][j]
  BY DEF l
<1>6a. k \in 1..Len(l)
  BY DEF l
<1>7. k <= num_cached_block[s] /\ HashOf[s][k] = HashOf[r][j]
  BY <1>3, <1>5, <1>6, <1>6a
<1>8. k \in 1..Len(HashOf[s])
  BY <1>1, <1>2, <1>4, <1>5, <1>6a, <1>7
<1>9. k = j /\ \A i \in 1..k : HashOf[s][i] = HashOf[r][i]
  BY <1>7, <1>8, EqualHashes
<1>10. ASSUME NEW i \in 1..(j - 1)
       PROVE  i \in 1..Len(l) /\ l[i] # l[k] /\ pool.block_hash[l[i]] = HashOf[r][i]
  <2>1. i \in 1..Len(l) /\ i \in 1..k /\ i # k /\ i <= num_cached_block[s]
    BY <1>1, <1>2, <1>6a, <1>7, <1>9
  <2>2. pool.block_hash[l[i]] = HashOf[r][i]
    BY <2>1, <1>3, <1>9
  <2>3. l[i] # l[k]
    BY <2>1, <1>2, <1>4, <1>6a DEF Distinct
  <2> QED BY <2>1, <2>2, <2>3
<1> QED BY <1>9, <1>10 DEF l

\* What the types say of the variables, by component.
LEMMA TypeFacts ==
  ASSUME Types
  PROVE  /\ pool \in Pools
         /\ \A r \in Requests : /\ req_to_blocks[r] \in Seq(Blocks)
                                /\ Len(req_to_blocks[r]) \in Nat
                                /\ DOMAIN req_to_blocks[r] = 1..Len(req_to_blocks[r])
                                /\ num_cached_block[r] \in Nat
         /\ req_to_blocks \in [Requests -> Seq(Blocks)]
         /\ num_cached_block \in [Requests -> Nat]
         /\ todo.req \in Requests
         /\ todo.touch \in Seq(Blocks)
         /\ Len(todo.touch) \in Nat
         /\ DOMAIN todo.touch = 1..Len(todo.touch)
         /\ todo.new \in Nat /\ todo.cache \in Nat /\ todo.free \in Nat
         /\ todo = [req |-> todo.req, touch |-> todo.touch, new |-> todo.new,
                    cache |-> todo.cache, free |-> todo.free]
         /\ Len(pool.free_block_queue) \in Nat
<1>1. \A r \in Requests : req_to_blocks[r] \in Seq(Blocks) /\ num_cached_block[r] \in Nat
  BY DEF Types
<1>2. todo \in [req : Requests, touch : Seq(Blocks), new : Nat, cache : Nat, free : Nat]
  BY DEF Types, Todos
<1>3. pool \in Pools /\ pool.free_block_queue \in Seq(Blocks)
  BY PoolFields DEF Types
<1> QED BY <1>1, <1>2, <1>3, MembersOf DEF Types

\* The blocks are finitely many.
LEMMA BlocksFinite == IsFiniteSet(Blocks) /\ Cardinality(Blocks) = NumBlocks
<1>1. 0 \in Int /\ NumBlocks - 1 \in Int /\ NumBlocks \in Nat /\ NumBlocks > 0
  BY PoolAssumption
<1>2. IsFiniteSet(0..(NumBlocks - 1)) /\
      Cardinality(0..(NumBlocks - 1)) =
        IF 0 > NumBlocks - 1 THEN 0 ELSE (NumBlocks - 1) - 0 + 1
  BY <1>1, FS_Interval
<1> QED BY <1>1, <1>2 DEF Blocks

\* No hit is left to touch: no block of them is evictable.
LEMMA NoneEvictable ==
  ASSUME NEW f PROVE Cardinality({b \in Members(<< >>) : f[b] = 0 /\ b # NullBlock}) = 0
<1>1. Members(<< >>) = {}
  BY DEF Members
<1>2. {b \in Members(<< >>) : f[b] = 0 /\ b # NullBlock} = {}
  BY <1>1
<1> QED BY <1>2, FS_EmptySet

\* The invariant holds initially.
LEMMA InitInv == Init => IInv
<1> SUFFICES ASSUME Init PROVE IInv
  OBVIOUS
<1>1. PICK r0 \in Requests : todo = NoCall(r0)
  BY DEF Init
<1>2. /\ pool = InitPool
      /\ req_to_blocks = [r \in Requests |-> << >>]
      /\ num_cached_block = [r \in Requests |-> 0]
  BY DEF Init
<1> DEFINE q == [i \in 1..(NumBlocks - 1) |-> i]
<1>3. NumBlocks \in Nat /\ NumBlocks - 1 \in Nat /\ NumBlocks > 0
  BY PoolAssumption
<1>4. q \in [1..(NumBlocks - 1) -> Blocks] /\ DOMAIN q = 1..(NumBlocks - 1)
  BY <1>3 DEF Blocks
<1>5. q \in Seq(Blocks)
  BY <1>3, <1>4, SeqDef
<1>6. \A i \in DOMAIN q : q[i] = i
  OBVIOUS
<1> HIDE DEF q
<1>7. Members(q) = 1..(NumBlocks - 1)
  BY <1>4, <1>6 DEF Members
<1>8. Members(<< >>) = {} /\ << >> \in Seq(Blocks) /\ Len(<< >>) = 0 /\ DOMAIN << >> = {}
  BY EmptySeq DEF Members
<1>9. /\ pool.free_block_queue = q
      /\ pool.ref_cnt = [b \in Blocks |-> 0]
      /\ pool.block_hash = [b \in Blocks |-> NoHash]
      /\ pool.cached = [h \in Hashes |-> << >>]
      /\ pool.view = {}
      /\ pool = [free_block_queue |-> pool.free_block_queue, ref_cnt |-> pool.ref_cnt,
                 block_hash |-> pool.block_hash, cached |-> pool.cached,
                 view |-> pool.view]
  BY <1>2 DEF InitPool, q
<1>10. /\ todo.req = r0 /\ todo.touch = << >> /\ todo.new = 0
       /\ todo.cache = 0 /\ todo.free = 0
  BY <1>1 DEF NoCall
<1>11. Types
  <2>1. pool \in Pools
    <3>1. pool.ref_cnt \in [Blocks -> Nat]
      BY <1>9
    <3>2. pool.block_hash \in [Blocks -> Hashes \cup {NoHash}]
      BY <1>9
    <3>3. pool.cached \in [Hashes -> Seq(Blocks)]
      BY <1>8, <1>9
    <3>4. pool.view \in SUBSET Hashes /\ pool.free_block_queue \in Seq(Blocks)
      BY <1>5, <1>9
    <3> HIDE DEF Pools
    <3> QED BY <3>1, <3>2, <3>3, <3>4, <1>9 DEF Pools
  <2>2. todo \in Todos
    BY <1>1, <1>8 DEF NoCall, Todos
  <2> QED BY <2>1, <2>2, <1>2, <1>8 DEF Types
<1>12. \A b \in Blocks : Holders(b) = {}
  BY <1>2, <1>8 DEF Holders
<1>13. BlocksAccounted
  <2>1. \A b \in Blocks : pool.ref_cnt[b] = 0 /\ pool.ref_cnt[b] = Cardinality(Holders(b))
    BY <1>9, <1>12, FS_EmptySet
  <2>2. \A b \in Blocks : b \in Members(q) <=> b # NullBlock
    BY <1>3, <1>7 DEF Blocks, NullBlock
  <2> QED BY <2>1, <2>2, <1>6, <1>9 DEF BlocksAccounted
<1>14. HeldOnce
  BY <1>2, <1>8, ChainHashes DEF HeldOnce, Distinct
<1>15. HeldAlone
  BY <1>2, <1>8 DEF HeldAlone
<1>16. IndexIsExact
  BY <1>2, <1>8, <1>9, PoolAssumption DEF IndexIsExact
<1>17. CachedOnce
  BY <1>3, <1>8, <1>9 DEF CachedOnce, Distinct, Blocks, NullBlock
<1>18. CallFits
  <2>1. Len(req_to_blocks[r0]) = 0 /\ num_cached_block[r0] = 0 /\ Len(HashOf[r0]) \in Nat
    BY <1>2, <1>8, ChainHashes
  <2> QED BY <2>1, <1>8, <1>10 DEF CallFits
<1>19. CallCompletes
  <2>1. num_evictable(todo.touch) = 0
    BY <1>10, NoneEvictable DEF num_evictable
  <2>2. Len(pool.free_block_queue) \in Nat
    BY <1>11, TypeFacts
  <2> QED BY <2>1, <2>2, <1>10 DEF CallCompletes
<1>20. EventsSound
  BY <1>9 DEF EventsSound
<1>21. EvictionOrder
  BY <1>9, ChainHashes DEF EvictionOrder
<1> QED BY <1>11, <1>13, <1>14, <1>15, <1>16, <1>17, <1>18, <1>19, <1>20, <1>21 DEF IInv

\* The parts of the invariant that do not speak of the call in progress.
LEMMA CallOnly ==
  ASSUME UNCHANGED <<pool, req_to_blocks, num_cached_block>>
  PROVE  /\ BlocksAccounted => BlocksAccounted'
         /\ HeldOnce => HeldOnce'
         /\ HeldAlone => HeldAlone'
         /\ IndexIsExact => IndexIsExact'
         /\ CachedOnce => CachedOnce'
         /\ EventsSound => EventsSound'
         /\ EvictionOrder => EvictionOrder'
BY DEF BlocksAccounted, Holders, HeldOnce, HeldAlone, IndexIsExact, CachedOnce,
       EventsSound, EvictionOrder, HasCached

\* free of a request.
LEMMA FreeInv ==
  ASSUME IInv, NEW r \in Requests, Free(r) PROVE IInv'
<1>1. /\ Types /\ BlocksAccounted /\ HeldOnce /\ HeldAlone /\ IndexIsExact /\ CachedOnce
      /\ CallFits /\ CallCompletes /\ EventsSound /\ EvictionOrder
  BY DEF IInv
<1>2. /\ UNCHANGED <<pool, req_to_blocks, num_cached_block>>
      /\ todo' = [NoCall(r) EXCEPT !.free = Len(req_to_blocks[r])]
  BY DEF Free
<1>3. todo' = [req |-> r, touch |-> << >>, new |-> 0, cache |-> 0,
               free |-> Len(req_to_blocks[r])]
  BY <1>2 DEF NoCall
<1>4. << >> \in Seq(Blocks) /\ Len(<< >>) = 0
  BY EmptySeq
<1>5. Types'
  <2>1. Len(req_to_blocks[r]) \in Nat
    BY <1>1, TypeFacts
  <2>2. todo' \in Todos
    BY <2>1, <1>3, <1>4 DEF Todos
  <2> QED BY <2>2, <1>1, <1>2 DEF Types
<1>6. CallFits'
  <2>1. /\ Len(req_to_blocks[r]) \in Nat /\ num_cached_block[r] \in Nat
        /\ Len(HashOf[r]) \in Nat
    BY <1>1, TypeFacts, ChainHashes
  <2>2. num_cached_block[r] <= Len(req_to_blocks[r]) /\ num_cached_block[r] <= Len(HashOf[r])
    BY <1>1 DEF HeldOnce
  <2> QED BY <2>1, <2>2, <1>2, <1>3, <1>4 DEF CallFits
<1>7. CallCompletes'
  <2>1. num_evictable(todo.touch)' = 0
    BY <1>3, NoneEvictable DEF num_evictable
  <2>2. Len(pool'.free_block_queue) \in Nat
    BY <1>1, <1>2, TypeFacts
  <2> QED BY <2>1, <2>2, <1>3 DEF CallCompletes
<1> QED BY <1>1, <1>2, <1>5, <1>6, <1>7, CallOnly DEF IInv

\* allocate_slots, up to the loops of its calls.
LEMMA AllocateSlotsInv ==
  ASSUME IInv, NEW r \in Requests, NEW k \in 0..Len(HashOf[r]), NEW c \in 0..Len(HashOf[r]),
         NEW n \in 0..NumBlocks, AllocateSlots(r, k, n, c)
  PROVE  IInv'
<1> DEFINE held == req_to_blocks[r]
           t == computed_blocks(r, k)
<1>1. /\ Types /\ BlocksAccounted /\ HeldOnce /\ HeldAlone /\ IndexIsExact /\ CachedOnce
      /\ CallFits /\ CallCompletes /\ EventsSound /\ EvictionOrder
  BY DEF IInv
<1>2. /\ UNCHANGED <<pool, req_to_blocks, num_cached_block>>
      /\ todo' = [req |-> r, touch |-> t, new |-> n, cache |-> c, free |-> 0]
      /\ Hits(r, k)
      /\ held # << >> => k = 0
      /\ CanAllocate(t, n)
      /\ EnableCaching \/ c = 0
      /\ num_cached_block[r] + k + c <= Len(HashOf[r])
      /\ num_cached_block[r] + k + c <= Len(held) + k + n
  BY DEF AllocateSlots
<1>3. k \in Nat /\ c \in Nat /\ n \in Nat /\ Len(HashOf[r]) \in Nat
  BY PoolAssumption, ChainHashes
<1>4. ASSUME NEW i \in 1..k
      PROVE  t[i] \in Blocks /\ pool.block_hash[t[i]] = HashOf[r][i]
  <2>1. HashOf[r][i] \in Hashes
    BY <1>3, ChainHashes
  <2>2. pool.cached[HashOf[r][i]] # << >>
    BY <1>2 DEF Hits, HasCached
  <2>3. pool.cached[HashOf[r][i]] \in Seq(Blocks)
    BY <2>1, <1>1, TypeFacts, PoolFields
  <2>4. Len(pool.cached[HashOf[r][i]]) # 0 /\ Len(pool.cached[HashOf[r][i]]) \in Nat
    BY <2>2, <2>3, MembersOf
  <2>5. 1 \in 1..Len(pool.cached[HashOf[r][i]])
    BY <2>4
  <2>6. pool.cached[HashOf[r][i]][1] \in Members(pool.cached[HashOf[r][i]])
        /\ pool.cached[HashOf[r][i]][1] \in Blocks
    BY <2>3, <2>5, MembersOf
  <2>7. t[i] = pool.cached[HashOf[r][i]][1]
    BY DEF computed_blocks, get_cached_block
  <2> QED BY <2>1, <2>6, <2>7, <1>1 DEF IndexIsExact
<1>5. t \in Seq(Blocks) /\ Len(t) = k
  <2>1. t = [i \in 1..k |-> t[i]]
    BY DEF computed_blocks
  <2> HIDE DEF t
  <2>2. t \in [1..k -> Blocks]
    BY <2>1, <1>4
  <2>3. t \in Seq(Blocks)
    BY <2>2, <1>3, SeqDef
  <2> QED BY <2>2, <2>3, <1>3, LenProperties
<1> HIDE DEF t
<1>6. Types'
  <2>1. todo' \in Todos
    BY <1>2, <1>3, <1>5 DEF Todos
  <2> QED BY <2>1, <1>1, <1>2 DEF Types
<1>7. CallFits'
  <2>1. /\ Len(held) \in Nat /\ num_cached_block[r] \in Nat
        /\ num_cached_block[r] <= Len(held) /\ (Len(held) = 0 <=> held = << >>)
    BY <1>1, TypeFacts, MembersOf DEF HeldOnce
  <2>2. k > 0 => num_cached_block[r] = 0 /\ Len(held) = 0
    BY <2>1, <1>2, <1>3
  <2>3. \A i \in 1..k : HashOf[r][i] = HashOf[r][Len(held) + i]
    BY <2>2, <1>3
  <2>4. ~EnableCaching => k = 0 /\ c = 0
    BY <1>2 DEF Hits
  <2>5. todo'.req = r /\ todo'.touch = t /\ todo'.new = n /\ todo'.cache = c /\ todo'.free = 0
    BY <1>2
  <2>6. \A i \in 1..k : pool'.block_hash[t[i]] = HashOf[r][Len(held) + i]
    BY <2>3, <1>2, <1>4
  <2> QED BY <2>1, <2>2, <2>4, <2>5, <2>6, <1>2, <1>5 DEF CallFits
<1>8. CallCompletes'
  BY <1>2 DEF CallCompletes, CanAllocate, num_evictable
<1> QED BY <1>1, <1>2, <1>6, <1>7, <1>8, CallOnly DEF IInv

\* One iteration of touch.
LEMMA TouchStepInv == ASSUME IInv, TouchStep PROVE IInv'
<1>1. /\ Types /\ BlocksAccounted /\ HeldOnce /\ HeldAlone /\ IndexIsExact /\ CachedOnce
      /\ CallFits /\ CallCompletes /\ EventsSound /\ EvictionOrder
  BY DEF IInv
<1>a. todo.touch # << >>
  BY DEF TouchStep
<1>b. /\ todo.req \in Requests /\ todo.touch \in Seq(Blocks) /\ Len(todo.touch) \in Nat
      /\ todo.touch[1] \in Blocks
  BY <1>a, <1>1, TypeFacts, MembersOf
<1>c. PICK r \in Requests, b \in Blocks, t \in Seq(Blocks), held \in Seq(Blocks),
           q \in Seq(Blocks) :
        /\ r = todo.req /\ t = todo.touch /\ b = t[1]
        /\ held = req_to_blocks[r] /\ q = pool.free_block_queue
  BY <1>b, <1>1, TypeFacts, PoolFields
<1>d. PICK n \in Nat, m \in Nat : n = Len(held) /\ m = Len(t)
  BY LenProperties
<1>2. /\ pool' = touch(pool, b)
      /\ req_to_blocks' = [req_to_blocks EXCEPT ![r] = Append(held, b)]
      /\ num_cached_block' = [num_cached_block EXCEPT ![r] = @ + 1]
      /\ todo' = [todo EXCEPT !.touch = Tail(t)]
  BY <1>c DEF TouchStep
<1>3. /\ pool \in Pools /\ DOMAIN held = 1..n /\ DOMAIN t = 1..m /\ m > 0
      /\ num_cached_block[r] \in Nat /\ Len(HashOf[r]) \in Nat
      /\ todo.new \in Nat /\ todo.cache \in Nat /\ todo.free \in Nat /\ Len(q) \in Nat
      /\ Members(held) = Members(req_to_blocks[r])
  BY <1>1, <1>a, <1>c, <1>d, TypeFacts, MembersOf, ChainHashes
<1>4. b \in Members(t)
  BY <1>3, <1>c, <1>d, MembersOf
\* The hit carries the hash of the request's next block.
<1>5. /\ num_cached_block[r] = n
      /\ num_cached_block[r] + m + todo.cache <= Len(HashOf[r])
      /\ num_cached_block[r] + m + todo.cache <= n + m + todo.new
      /\ \A i \in 1..m : pool.block_hash[t[i]] = HashOf[r][n + i]
      /\ todo.free = 0 /\ EnableCaching
  <2>1. /\ m > 0 => num_cached_block[r] = n
        /\ num_cached_block[r] + m + todo.cache <= Len(HashOf[r])
        /\ num_cached_block[r] + m + todo.cache <= n + m + todo.new
        /\ \A i \in 1..m : pool.block_hash[t[i]] = HashOf[r][n + i]
        /\ todo.free > 0 => todo.free = n /\ m = 0 /\ todo.new = 0 /\ todo.cache = 0
        /\ ~EnableCaching => m = 0 /\ todo.cache = 0
    BY <1>1, <1>c, <1>d DEF CallFits
  <2>2. m > 0 /\ m # 0 /\ todo.free \in Nat
    BY <1>3
  <2> QED BY <2>1, <2>2
<1>6. pool.block_hash[b] = HashOf[r][n + 1] /\ n + 1 \in 1..Len(HashOf[r])
  <2>1. 1 \in 1..m
    BY <1>3
  <2>2. n + 1 \in 1..Len(HashOf[r])
    BY <1>3, <1>5
  <2> QED BY <2>1, <2>2, <1>c, <1>5
<1>7. pool.block_hash[b] # NoHash /\ b # NullBlock
  BY <1>1, <1>3, <1>6, ChainHashes DEF CachedOnce
<1>7a. \A i \in 1..n : pool.block_hash[held[i]] = HashOf[r][i]
  <2>1. \A i \in DOMAIN req_to_blocks[r] :
          pool.block_hash[req_to_blocks[r][i]] =
            IF i <= num_cached_block[r] THEN HashOf[r][i] ELSE NoHash
    BY <1>1 DEF IndexIsExact
  <2>2. \A i \in 1..n : i \in DOMAIN req_to_blocks[r] /\ i <= num_cached_block[r]
    BY <1>3, <1>5, <1>c
  <2> QED BY <2>1, <2>2, <1>c
<1>8. b \notin Members(held)
  <2> SUFFICES ASSUME NEW i \in 1..n, held[i] = b PROVE FALSE
    BY <1>3 DEF Members
  <2>1. pool.block_hash[b] = HashOf[r][i]
    BY <1>7a
  <2>2. i \in 1..Len(HashOf[r])
    BY <1>3, <1>6
  <2>3. i = n + 1
    <3>1. HashOf[r][i] = HashOf[r][n + 1] /\ n + 1 \in 1..Len(HashOf[r])
      BY <2>1, <1>6
    <3> QED BY <3>1, <2>2, EqualHashes
  <2> QED BY <2>3, <1>3
<1>9. Distinct(held) /\ NullBlock \notin Members(held)
  BY <1>1, <1>c DEF HeldOnce
<1>10. Distinct(q)
  BY <1>1, <1>c DEF BlocksAccounted, Distinct
<1>11. \A x \in Blocks : x \in Members(q) <=> x # NullBlock /\ pool.ref_cnt[x] = 0
  BY <1>1, <1>c DEF BlocksAccounted
<1>12. /\ pool' \in Pools
       /\ pool'.ref_cnt = [pool.ref_cnt EXCEPT ![b] = @ + 1]
       /\ pool'.block_hash = pool.block_hash
       /\ pool'.cached = pool.cached
       /\ pool'.view = pool.view
       /\ pool'.free_block_queue = IF pool.ref_cnt[b] = 0 THEN Without(q, b) ELSE q
  <2>1. b \in Blocks \ {NullBlock}
    BY <1>7
  <2>2. pool \in Pools /\ pool' = touch(pool, b) /\ q = pool.free_block_queue
    BY <1>2, <1>3, <1>c
  <2>3. Distinct(q) /\ (b \in Members(q) <=> pool.ref_cnt[b] = 0)
    BY <1>7, <1>10, <1>11
  <2>4. Touched(pool, pool', b)
    BY <2>1, <2>2, <2>3, TouchFields
  <2> QED BY <2>2, <2>4 DEF Touched
<1>13. pool.ref_cnt \in [Blocks -> Nat] /\ pool.block_hash \in [Blocks -> Hashes \cup {NoHash}]
  BY <1>3, PoolFields
<1>14. /\ pool'.ref_cnt[b] = pool.ref_cnt[b] + 1
       /\ \A x \in Blocks : x # b => pool'.ref_cnt[x] = pool.ref_cnt[x]
       /\ \A x \in Blocks : pool'.ref_cnt[x] \in Nat
  BY <1>4, <1>12, <1>13
\* The request's list with the hit, and those of the others.
<1>15. /\ req_to_blocks'[r] = Append(held, b)
       /\ \A s \in Requests : s # r => req_to_blocks'[s] = req_to_blocks[s]
       /\ num_cached_block'[r] = n + 1
       /\ \A s \in Requests : s # r => num_cached_block'[s] = num_cached_block[s]
  BY <1>1, <1>2, <1>5, TypeFacts
<1>16. /\ Append(held, b) \in Seq(Blocks) /\ Len(Append(held, b)) = n + 1
       /\ Distinct(Append(held, b)) /\ Members(Append(held, b)) = Members(held) \cup {b}
       /\ \A i \in 1..n : Append(held, b)[i] = held[i]
       /\ Append(held, b)[n + 1] = b
  BY <1>d, <1>8, <1>9, AppendBlock
<1>17. DOMAIN Append(held, b) = 1..(n + 1)
  BY <1>16, MembersOf
\* The queue loses the hit when it was free.
<1>18. /\ pool.ref_cnt[b] = 0 => Len(pool'.free_block_queue) = Len(q) - 1
       /\ pool.ref_cnt[b] # 0 => Len(pool'.free_block_queue) = Len(q)
       /\ Distinct(pool'.free_block_queue)
       /\ Members(pool'.free_block_queue) = Members(q) \ {b}
       /\ \A x, y : x # b /\ y # b /\ Before(q, x, y) => Before(pool'.free_block_queue, x, y)
  <2>1. CASE pool.ref_cnt[b] = 0
    <3>1. b \in Members(q)
      BY <2>1, <1>4, <1>7, <1>11
    <3> QED BY <2>1, <3>1, <1>3, <1>10, <1>12, WithoutBlock
  <2>2. CASE pool.ref_cnt[b] # 0
    <3>1. b \notin Members(q)
      BY <2>2, <1>4, <1>11
    <3> QED BY <2>2, <3>1, <1>10, <1>12
  <2> QED BY <2>1, <2>2
\* What is left of the call.
<1>19. /\ todo'.req = r /\ todo'.touch = Tail(t) /\ todo'.new = todo.new
       /\ todo'.cache = todo.cache /\ todo'.free = todo.free
       /\ todo' = [req |-> r, touch |-> Tail(t), new |-> todo.new,
                   cache |-> todo.cache, free |-> todo.free]
  BY <1>1, <1>2, <1>c, TypeFacts
<1>20. /\ Tail(t) \in Seq(Blocks) /\ Len(Tail(t)) = m - 1
       /\ \A i \in 1..(m - 1) : Tail(t)[i] = t[i + 1]
       /\ Members(Tail(t)) \subseteq Members(t)
       /\ Members(t) \subseteq Blocks
  <2>1. /\ Tail(t) \in Seq(Blocks) /\ Len(Tail(t)) = m - 1
        /\ \A i \in 1..(m - 1) : Tail(t)[i] = t[i + 1]
    BY <1>a, <1>c, <1>d, HeadTailProperties
  <2>2. DOMAIN Tail(t) = 1..(m - 1)
    BY <2>1, MembersOf
  <2>3. \A i \in 1..(m - 1) : i + 1 \in DOMAIN t
    BY <1>3, <1>d
  <2>4. Members(Tail(t)) \subseteq Members(t)
    BY <2>1, <2>2, <2>3 DEF Members
  <2>5. Members(t) \subseteq Blocks
    BY MembersOf
  <2> QED BY <2>1, <2>4, <2>5
<1>21. Types'
  <2>1. todo' \in Todos
    BY <1>3, <1>19, <1>20 DEF Todos
  <2>2. req_to_blocks' \in [Requests -> Seq(Blocks)]
    BY <1>1, <1>2, <1>16, TypeFacts
  <2>3. num_cached_block' \in [Requests -> Nat]
    <3>1. num_cached_block \in [Requests -> Nat] /\ num_cached_block[r] + 1 \in Nat
      BY <1>1, <1>3, TypeFacts
    <3> QED BY <3>1, <1>2
  <2> QED BY <2>1, <2>2, <2>3, <1>12 DEF Types
<1>21a. \A s \in Requests : Members(req_to_blocks'[s]) =
          IF s = r THEN Members(req_to_blocks[s]) \cup {b} ELSE Members(req_to_blocks[s])
  BY <1>c, <1>15, <1>16
<1>22. BlocksAccounted'
  <2>1. Holders(b)' = Holders(b) \cup {r}
    BY <1>21a DEF Holders
  <2>2. r \notin Holders(b)
    BY <1>8, <1>c DEF Holders
  <2>3. \A x \in Blocks : x # b => Holders(x)' = Holders(x)
    BY <1>21a DEF Holders
  <2>4. pool'.ref_cnt[b] = Cardinality(Holders(b)')
    <3>1. IsFiniteSet(Holders(b)) /\ pool.ref_cnt[b] = Cardinality(Holders(b))
      BY <1>1, <1>3, HoldersCount
    <3>2. Cardinality(Holders(b) \cup {r}) = Cardinality(Holders(b)) + 1
      BY <3>1, <2>2, FS_AddElement
    <3> QED BY <3>1, <3>2, <2>1, <1>14
  <2>5. \A x \in Blocks : pool'.ref_cnt[x] = Cardinality(Holders(x)')
    BY <2>3, <2>4, <1>1, <1>14 DEF BlocksAccounted
  <2>6. pool.ref_cnt[b] \in Nat
    BY <1>13
  <2>7. \A x \in Blocks : x \in Members(pool'.free_block_queue)
                            <=> x # NullBlock /\ pool'.ref_cnt[x] = 0
    BY <2>6, <1>11, <1>14, <1>18
  <2> QED BY <2>5, <2>7, <1>18 DEF BlocksAccounted, Distinct
<1>23. HeldOnce'
  <2> SUFFICES ASSUME NEW s \in Requests
               PROVE  /\ Distinct(req_to_blocks'[s])
                      /\ NullBlock \notin Members(req_to_blocks'[s])
                      /\ num_cached_block'[s] <= Len(req_to_blocks'[s])
                      /\ num_cached_block'[s] <= Len(HashOf[s])
    BY DEF HeldOnce
  <2>1. CASE s = r
    BY <2>1, <1>3, <1>6, <1>7, <1>9, <1>15, <1>16
  <2>2. CASE s # r
    BY <2>2, <1>1, <1>15 DEF HeldOnce
  <2> QED BY <2>1, <2>2
<1>24. HeldAlone'
  <2>1. \A s \in Requests : \A x \in Members(req_to_blocks'[s]) :
          x = b \/ x \in Members(req_to_blocks[s])
    BY <1>21a
  <2> QED BY <2>1, <1>1, <1>7, <1>12 DEF HeldAlone
<1>25. IndexIsExact'
  <2>1. ASSUME NEW s \in Requests, NEW i \in DOMAIN req_to_blocks'[s]
        PROVE  pool'.block_hash[req_to_blocks'[s][i]] =
                 IF i <= num_cached_block'[s] THEN HashOf[s][i] ELSE NoHash
    <3>1. CASE s # r
      BY <3>1, <1>1, <1>12, <1>15 DEF IndexIsExact
    <3>2. CASE s = r /\ i \in 1..n
      <4>1. pool.block_hash[held[i]] = HashOf[r][i]
        BY <3>2, <1>7a
      <4> QED BY <4>1, <3>2, <1>3, <1>12, <1>15, <1>16
    <3>3. CASE s = r /\ i = n + 1
      BY <3>3, <1>3, <1>6, <1>12, <1>15, <1>16
    <3> QED BY <3>1, <3>2, <3>3, <1>3, <1>15, <1>17
  <2> QED BY <2>1, <1>1, <1>12 DEF IndexIsExact
<1>26. CachedOnce'
  BY <1>1, <1>12 DEF CachedOnce
<1>27. CallFits'
  <2>1. \A i \in 1..(m - 1) :
          pool'.block_hash[todo'.touch[i]] = HashOf[r][n + 1 + i]
    <3> SUFFICES ASSUME NEW i \in 1..(m - 1)
                 PROVE  pool'.block_hash[todo'.touch[i]] = HashOf[r][n + 1 + i]
      OBVIOUS
    <3>1. i + 1 \in 1..m /\ n + (i + 1) = n + 1 + i
      BY <1>3
    <3> QED BY <3>1, <1>5, <1>12, <1>19, <1>20
  <2>2. Len(req_to_blocks'[r]) = n + 1 /\ Len(todo'.touch) = m - 1
    BY <1>15, <1>16, <1>19, <1>20
  <2>3. /\ n + 1 + (m - 1) + todo.cache <= Len(HashOf[r])
        /\ n + 1 + (m - 1) + todo.cache
             <= n + 1 + (m - 1) + todo.new
    BY <1>3, <1>5
  <2>4. todo'.req = r /\ num_cached_block'[r] = n + 1 /\ todo'.free = 0
        /\ todo'.new = todo.new /\ todo'.cache = todo.cache
    BY <1>5, <1>15, <1>19
  <2>5. ~(0 > 0)
    OBVIOUS
  <2> QED BY <2>1, <2>2, <2>3, <2>4, <2>5, <1>5 DEF CallFits
<1>28. CallCompletes'
  <2> DEFINE E == {x \in Members(t) : pool.ref_cnt[x] = 0 /\ x # NullBlock}
             F == {x \in Members(todo'.touch) : pool'.ref_cnt[x] = 0 /\ x # NullBlock}
  <2>1. IsFiniteSet(E) /\ Cardinality(E) \in Nat
    BY <1>20, BlocksFinite, FS_Subset, FS_CardinalityType
  <2>2. pool.ref_cnt[b] \in Nat
    BY <1>4, <1>13
  <2>3. F \subseteq E \ {b}
    BY <2>2, <1>14, <1>19, <1>20
  <2>4. todo.new + Cardinality(E) <= Len(q)
    BY <1>1, <1>c DEF CallCompletes, num_evictable
  <2>5. num_evictable(todo.touch)' = Cardinality(F)
    BY DEF num_evictable
  <2> HIDE DEF E, F
  <2>6. IsFiniteSet(E \ {b}) /\ Cardinality(F) <= Cardinality(E \ {b}) /\ Cardinality(F) \in Nat
    BY <2>1, <2>3, FS_RemoveElement, FS_Subset, FS_CardinalityType
  <2>7. CASE pool.ref_cnt[b] = 0
    <3>1. b \in E
      BY <2>7, <1>4, <1>7 DEF E
    <3>2. Cardinality(E \ {b}) = Cardinality(E) - 1
      BY <3>1, <2>1, FS_RemoveElement
    <3> QED BY <3>2, <2>1, <2>4, <2>5, <2>6, <2>7, <1>3, <1>18, <1>19 DEF CallCompletes
  <2>8. CASE pool.ref_cnt[b] # 0
    <3>1. b \notin E
      BY <2>8 DEF E
    <3>2. Cardinality(E \ {b}) = Cardinality(E)
      BY <3>1, <2>1, FS_RemoveElement
    <3> QED BY <3>2, <2>1, <2>4, <2>5, <2>6, <2>8, <1>3, <1>18, <1>19 DEF CallCompletes
  <2> QED BY <2>7, <2>8
<1>29. EventsSound'
  BY <1>1, <1>12 DEF EventsSound, HasCached
<1>30. EvictionOrder'
  <2> SUFFICES ASSUME NEW x \in Blocks, pool'.ref_cnt[x] = 0,
                      NEW s \in Requests, NEW j \in 1..Len(HashOf[s]),
                      pool'.block_hash[x] = HashOf[s][j], NEW i \in 1..(j - 1)
               PROVE  \E w \in Blocks :
                        /\ pool'.block_hash[w] = HashOf[s][i]
                        /\ pool'.ref_cnt[w] > 0 \/ Before(pool'.free_block_queue, x, w)
    BY DEF EvictionOrder
  <2>1. pool.ref_cnt[b] \in Nat /\ x # b /\ pool.ref_cnt[x] = 0
    BY <1>4, <1>13, <1>14
  <2>2. PICK w \in Blocks : /\ pool.block_hash[w] = HashOf[s][i]
                            /\ pool.ref_cnt[w] > 0 \/ Before(q, x, w)
    BY <2>1, <1>1, <1>c, <1>12 DEF EvictionOrder
  <2>3. CASE w = b
    BY <2>1, <2>2, <2>3, <1>12, <1>14
  <2>4. CASE w # b
    BY <2>1, <2>2, <2>4, <1>12, <1>14, <1>18
  <2> QED BY <2>3, <2>4
<1> QED BY <1>21, <1>22, <1>23, <1>24, <1>25, <1>26, <1>27, <1>28, <1>29, <1>30 DEF IInv

\* One iteration of get_new_blocks.
LEMMA NewBlockStepInv == ASSUME IInv, NewBlockStep PROVE IInv'
<1>1. /\ Types /\ BlocksAccounted /\ HeldOnce /\ HeldAlone /\ IndexIsExact /\ CachedOnce
      /\ CallFits /\ CallCompletes /\ EventsSound /\ EvictionOrder
  BY DEF IInv
<1>a. todo.touch = << >> /\ todo.new > 0
  BY DEF NewBlockStep
<1>b. /\ todo.req \in Requests /\ req_to_blocks[todo.req] \in Seq(Blocks) /\ pool \in Pools
      /\ pool.free_block_queue \in Seq(Blocks) /\ Len(pool.free_block_queue) \in Nat
      /\ todo.new \in Nat /\ todo.cache \in Nat /\ todo.free \in Nat
  BY <1>1, TypeFacts, PoolFields
\* The check of allocate_slots left a block in the queue.
<1>c. todo.new <= Len(pool.free_block_queue) /\ Len(pool.free_block_queue) > 0
  <2>1. num_evictable(todo.touch) = 0
    BY <1>a, NoneEvictable DEF num_evictable
  <2>2. todo.new + num_evictable(todo.touch) <= Len(pool.free_block_queue)
    BY <1>1 DEF CallCompletes
  <2> QED BY <2>1, <2>2, <1>a, <1>b
<1>d. Distinct(pool.free_block_queue)
  BY <1>1 DEF BlocksAccounted, Distinct
<1>e. popleft(pool) \in Members(pool.free_block_queue) /\ popleft(pool) \in Blocks
  BY <1>b, <1>c, <1>d, PopleftBlock, MembersOf
<1>f. PICK r \in Requests, b \in Blocks, held \in Seq(Blocks), q \in Seq(Blocks) :
        /\ r = todo.req /\ b = popleft(pool)
        /\ held = req_to_blocks[r] /\ q = pool.free_block_queue
  BY <1>b, <1>e
<1>g. PICK n \in Nat : n = Len(held)
  BY LenProperties
<1>2. /\ pool' = get_new_block(pool)
      /\ req_to_blocks' = [req_to_blocks EXCEPT ![r] = Append(held, b)]
      /\ num_cached_block' = num_cached_block
      /\ todo' = [todo EXCEPT !.new = @ - 1]
  BY <1>f DEF NewBlockStep
<1>3. DOMAIN held = 1..n /\ num_cached_block[r] \in Nat /\ Len(HashOf[r]) \in Nat
  BY <1>1, <1>f, <1>g, TypeFacts, MembersOf, ChainHashes
<1>4. \A x \in Blocks : x \in Members(q) <=> x # NullBlock /\ pool.ref_cnt[x] = 0
  BY <1>1, <1>f DEF BlocksAccounted
<1>5. b \in Members(q) /\ b # NullBlock /\ pool.ref_cnt[b] = 0
  BY <1>4, <1>e, <1>f
\* Nobody holds the block.
<1>6. Holders(b) = {}
  BY <1>1, <1>b, <1>5, HoldersCount
<1>7. \A s \in Requests : b \notin Members(req_to_blocks[s])
  BY <1>6 DEF Holders
<1>8. b \notin Members(held) /\ Distinct(held) /\ NullBlock \notin Members(held)
  BY <1>1, <1>7, <1>f DEF HeldOnce
<1>9. /\ \A h \in Hashes : Distinct(pool.cached[h])
      /\ \A h \in Hashes : \A c \in Blocks :
           c \in Members(pool.cached[h]) <=> pool.block_hash[c] = h
      /\ ~EnableCaching => \A c \in Blocks : pool.block_hash[c] = NoHash
  BY <1>1 DEF CachedOnce, IndexIsExact
<1>10. /\ pool' \in Pools
       /\ pool'.free_block_queue = Without(q, b)
       /\ pool'.ref_cnt = [pool.ref_cnt EXCEPT ![b] = @ + 1]
       /\ pool'.block_hash = [pool.block_hash EXCEPT ![b] = NoHash]
       /\ \A h \in Hashes : /\ Distinct(pool'.cached[h])
                            /\ Members(pool'.cached[h]) = Members(pool.cached[h]) \ {b}
       /\ \A h \in pool'.view : h \in pool.view /\ pool.block_hash[b] # h
  <2>1. b = popleft(pool) /\ q = pool.free_block_queue
    BY <1>f
  <2>2. Indexed(pool)
    BY <1>c, <1>d, <1>9 DEF Indexed
  <2>3. Evicted(pool, pool', b)
    BY <2>1, <2>2, <1>b, <1>2, NewBlockFields
  <2>4. /\ pool' \in Pools
        /\ pool'.free_block_queue = Without(q, b)
        /\ pool'.ref_cnt = [pool.ref_cnt EXCEPT ![b] = @ + 1]
        /\ pool'.block_hash = [pool.block_hash EXCEPT ![b] = NoHash]
    BY <2>1, <2>2, <1>b, <1>2, NewBlockFields
  <2> QED BY <2>3, <2>4 DEF Evicted
<1>11. /\ pool.ref_cnt \in [Blocks -> Nat] /\ pool.view \in SUBSET Hashes
       /\ pool.block_hash \in [Blocks -> Hashes \cup {NoHash}]
       /\ pool.cached \in [Hashes -> Seq(Blocks)]
       /\ pool'.cached \in [Hashes -> Seq(Blocks)]
  BY <1>b, <1>10, PoolFields
<1>12. /\ pool'.ref_cnt[b] = 1 /\ pool'.block_hash[b] = NoHash
       /\ \A x \in Blocks : x # b => /\ pool'.ref_cnt[x] = pool.ref_cnt[x]
                                     /\ pool'.block_hash[x] = pool.block_hash[x]
  BY <1>5, <1>10, <1>11
<1>13. /\ Len(pool'.free_block_queue) = Len(q) - 1
       /\ Distinct(pool'.free_block_queue)
       /\ Members(pool'.free_block_queue) = Members(q) \ {b}
       /\ \A x, y : x # b /\ y # b /\ Before(q, x, y) => Before(pool'.free_block_queue, x, y)
  BY <1>d, <1>f, <1>5, <1>10, WithoutBlock
<1>14. /\ req_to_blocks'[r] = Append(held, b)
       /\ \A s \in Requests : s # r => req_to_blocks'[s] = req_to_blocks[s]
  BY <1>1, <1>2, TypeFacts
<1>15. /\ Append(held, b) \in Seq(Blocks) /\ Len(Append(held, b)) = n + 1
       /\ Distinct(Append(held, b)) /\ Members(Append(held, b)) = Members(held) \cup {b}
       /\ \A i \in 1..n : Append(held, b)[i] = held[i]
       /\ Append(held, b)[n + 1] = b
  BY <1>g, <1>8, AppendBlock
<1>16. DOMAIN Append(held, b) = 1..(n + 1)
  BY <1>15, MembersOf
<1>17. \A s \in Requests : Members(req_to_blocks'[s]) =
         IF s = r THEN Members(req_to_blocks[s]) \cup {b} ELSE Members(req_to_blocks[s])
  BY <1>f, <1>14, <1>15
<1>18. /\ todo'.req = r /\ todo'.touch = << >> /\ todo'.new = todo.new - 1
       /\ todo'.cache = todo.cache /\ todo'.free = todo.free
       /\ todo' = [req |-> r, touch |-> << >>, new |-> todo.new - 1,
                   cache |-> todo.cache, free |-> todo.free]
  BY <1>1, <1>2, <1>a, <1>f, TypeFacts
<1>19. todo.new - 1 \in Nat /\ << >> \in Seq(Blocks) /\ Len(<< >>) = 0
  BY <1>a, <1>b, EmptySeq
<1>20. Types'
  <2>1. todo' \in Todos
    BY <1>b, <1>18, <1>19 DEF Todos
  <2>2. req_to_blocks' \in [Requests -> Seq(Blocks)]
    BY <1>1, <1>2, <1>15, TypeFacts
  <2> QED BY <2>1, <2>2, <1>1, <1>2, <1>10 DEF Types
<1>21. BlocksAccounted'
  <2>1. Holders(b)' = {r}
    BY <1>7, <1>17 DEF Holders
  <2>2. \A x \in Blocks : x # b => Holders(x)' = Holders(x)
    BY <1>17 DEF Holders
  <2>3. pool'.ref_cnt[b] = Cardinality(Holders(b)')
    BY <2>1, <1>12, FS_Singleton
  <2>4. \A x \in Blocks : pool'.ref_cnt[x] = Cardinality(Holders(x)')
    BY <2>2, <2>3, <1>1, <1>12 DEF BlocksAccounted
  <2>5. \A x \in Blocks : x \in Members(pool'.free_block_queue)
                            <=> x # NullBlock /\ pool'.ref_cnt[x] = 0
    BY <1>4, <1>12, <1>13
  <2> QED BY <2>4, <2>5, <1>13 DEF BlocksAccounted, Distinct
<1>22. HeldOnce'
  <2> SUFFICES ASSUME NEW s \in Requests
               PROVE  /\ Distinct(req_to_blocks'[s])
                      /\ NullBlock \notin Members(req_to_blocks'[s])
                      /\ num_cached_block'[s] <= Len(req_to_blocks'[s])
                      /\ num_cached_block'[s] <= Len(HashOf[s])
    BY DEF HeldOnce
  <2>1. CASE s = r
    <3>1. num_cached_block[r] <= n /\ num_cached_block[r] <= Len(HashOf[r])
      BY <1>1, <1>f, <1>g DEF HeldOnce
    <3>2. num_cached_block[r] <= n + 1
      BY <3>1, <1>3
    <3>3. NullBlock \notin Members(Append(held, b))
      BY <1>5, <1>8, <1>15
    <3> QED BY <2>1, <3>1, <3>2, <3>3, <1>2, <1>14, <1>15
  <2>2. CASE s # r
    BY <2>2, <1>1, <1>2, <1>14 DEF HeldOnce
  <2> QED BY <2>1, <2>2
<1>23. HeldAlone'
  <2> SUFFICES ASSUME NEW s \in Requests, NEW u \in Requests,
                      NEW x \in Members(req_to_blocks'[s]) \cap Members(req_to_blocks'[u]),
                      pool'.block_hash[x] = NoHash
               PROVE  s = u
    BY DEF HeldAlone
  <2>1. CASE x = b
    BY <2>1, <1>7, <1>17
  <2>2. CASE x # b
    <3>1a. \A v \in Requests : x \in Members(req_to_blocks'[v]) => x \in Members(req_to_blocks[v])
      BY <2>2, <1>17
    <3>1. x \in Members(req_to_blocks[s]) \cap Members(req_to_blocks[u])
      BY <3>1a
    <3>2. x \in Blocks
      BY <3>1, <1>1, TypeFacts, MembersOf
    <3> QED BY <2>2, <3>1, <3>2, <1>1, <1>12 DEF HeldAlone
  <2> QED BY <2>1, <2>2
<1>24. IndexIsExact'
  <2>1. ASSUME NEW h \in Hashes, NEW x \in Blocks
        PROVE  x \in Members(pool'.cached[h]) <=> pool'.block_hash[x] = h
    <3>1. h # NoHash
      BY PoolAssumption
    <3>1a. Members(pool'.cached[h]) = Members(pool.cached[h]) \ {b}
      BY <1>10
    <3>2. CASE x = b
      BY <3>1, <3>1a, <3>2, <1>12
    <3>3. CASE x # b
      BY <3>1a, <3>3, <1>9, <1>12
    <3> QED BY <3>2, <3>3
  <2>2. ASSUME NEW s \in Requests, NEW i \in DOMAIN req_to_blocks'[s]
        PROVE  pool'.block_hash[req_to_blocks'[s][i]] =
                 IF i <= num_cached_block'[s] THEN HashOf[s][i] ELSE NoHash
    <3>1. CASE s # r
      <4>1. /\ i \in DOMAIN req_to_blocks[s] /\ req_to_blocks'[s] = req_to_blocks[s]
            /\ req_to_blocks[s][i] \in Members(req_to_blocks[s])
        BY <2>2, <3>1, <1>14 DEF Members
      <4>2. req_to_blocks[s][i] \in Blocks /\ req_to_blocks[s][i] # b
        BY <4>1, <1>1, <1>7, TypeFacts, MembersOf
      <4>3. pool'.block_hash[req_to_blocks[s][i]] = pool.block_hash[req_to_blocks[s][i]]
        BY <4>2, <1>12
      <4> QED BY <4>1, <4>3, <1>1, <1>2 DEF IndexIsExact
    <3>2. CASE s = r /\ i \in 1..n
      <4>1. held[i] \in Blocks /\ held[i] # b
        BY <3>2, <1>3, <1>8, <1>g, MembersOf
      <4>2. pool.block_hash[held[i]] = IF i <= num_cached_block[r] THEN HashOf[r][i] ELSE NoHash
        BY <3>2, <1>1, <1>f, <1>3 DEF IndexIsExact
      <4>3. req_to_blocks'[s][i] = held[i]
        BY <3>2, <1>14, <1>15
      <4> QED BY <4>1, <4>2, <4>3, <3>2, <1>2, <1>12
    <3>3. CASE s = r /\ i = n + 1
      <4>1. num_cached_block[r] <= n
        BY <1>1, <1>f, <1>g DEF HeldOnce
      <4>2. ~(i <= num_cached_block'[s])
        BY <4>1, <3>3, <1>2, <1>3
      <4>3. req_to_blocks'[s][i] = b
        BY <3>3, <1>14, <1>15
      <4> QED BY <4>2, <4>3, <1>12
    <3>4. s = r => i \in 1..n \/ i = n + 1
      BY <1>14, <1>16
    <3> QED BY <3>1, <3>2, <3>3, <3>4
  <2> QED BY <2>1, <2>2 DEF IndexIsExact
<1>25. CachedOnce'
  <2>1. NullBlock \in Blocks
    BY PoolAssumption DEF Blocks, NullBlock
  <2>2. pool'.block_hash[NullBlock] = NoHash
    BY <2>1, <1>1, <1>5, <1>12 DEF CachedOnce
  <2>3. ~EnableCaching => \A x \in Blocks : pool'.block_hash[x] = NoHash
    BY <1>9, <1>12
  <2> QED BY <2>2, <2>3, <1>10 DEF CachedOnce
<1>26. CallFits'
  <2>1. /\ num_cached_block[r] + 0 + todo.cache <= Len(HashOf[r])
        /\ num_cached_block[r] + 0 + todo.cache <= n + 0 + todo.new
        /\ todo.free > 0 => todo.new = 0
        /\ ~EnableCaching => todo.cache = 0
    BY <1>1, <1>a, <1>f, <1>g, <1>19 DEF CallFits
  <2>2. num_cached_block[r] + 0 + todo.cache <= n + 1 + 0 + (todo.new - 1)
    BY <2>1, <1>b, <1>3
  <2>3. ~(todo.free > 0)
    BY <2>1, <1>a
  <2>4. /\ Len(req_to_blocks'[r]) = n + 1 /\ Len(todo'.touch) = 0 /\ ~(0 > 0)
        /\ \A i \in 1..0 : FALSE
    BY <1>14, <1>15, <1>18, <1>19
  <2> QED BY <2>1, <2>2, <2>3, <2>4, <1>2, <1>18 DEF CallFits
<1>27. CallCompletes'
  <2>1. num_evictable(todo.touch)' = 0
    BY <1>18, NoneEvictable DEF num_evictable
  <2>2. todo'.new + 0 <= Len(pool'.free_block_queue)
    BY <1>b, <1>c, <1>f, <1>13, <1>18
  <2> QED BY <2>1, <2>2 DEF CallCompletes
<1>28. EventsSound'
  <2> SUFFICES ASSUME NEW h \in pool'.view PROVE pool'.cached[h] # << >>
    BY DEF EventsSound, HasCached
  <2>1. h \in Hashes /\ pool.cached[h] # << >> /\ pool.block_hash[b] # h
    BY <1>1, <1>10, <1>11 DEF EventsSound, HasCached
  <2>2. b \notin Members(pool.cached[h])
    BY <2>1, <1>9
  <2>3. Members(pool'.cached[h]) = Members(pool.cached[h])
    <3>1. Members(pool'.cached[h]) = Members(pool.cached[h]) \ {b}
      BY <2>1, <1>10
    <3> QED BY <3>1, <2>2
  <2>4. pool.cached[h] \in Seq(Blocks) /\ pool'.cached[h] \in Seq(Blocks)
    BY <2>1, <1>11
  <2> QED BY <2>1, <2>3, <2>4, MembersOf
<1>29. EvictionOrder'
  <2> SUFFICES ASSUME NEW x \in Blocks, pool'.ref_cnt[x] = 0,
                      NEW s \in Requests, NEW j \in 1..Len(HashOf[s]),
                      pool'.block_hash[x] = HashOf[s][j], NEW i \in 1..(j - 1)
               PROVE  \E w \in Blocks :
                        /\ pool'.block_hash[w] = HashOf[s][i]
                        /\ pool'.ref_cnt[w] > 0 \/ Before(pool'.free_block_queue, x, w)
    BY DEF EvictionOrder
  <2>1. x # b /\ pool.ref_cnt[x] = 0 /\ pool.block_hash[x] = HashOf[s][j]
    BY <1>12
  <2>2. EnableCaching
    BY <2>1, <1>9, ChainHashes
  <2>3. PICK w \in Blocks : /\ pool.block_hash[w] = HashOf[s][i]
                            /\ pool.ref_cnt[w] > 0 \/ Before(q, x, w)
    BY <2>1, <1>1, <1>f DEF EvictionOrder
  \* Nothing is evicted before the head of the queue.
  <2>4. w # b
    <3>1. ~Before(q, x, b)
      BY <2>2, <1>b, <1>c, <1>d, <1>f, PopleftBlock
    <3>2. ~(pool.ref_cnt[b] > 0)
      BY <1>5
    <3> QED BY <3>1, <3>2, <2>3
  <2> QED BY <2>1, <2>3, <2>4, <1>12, <1>13
<1> QED BY <1>20, <1>21, <1>22, <1>23, <1>24, <1>25, <1>26, <1>27, <1>28, <1>29 DEF IInv

\* One iteration of cache_full_blocks.
LEMMA CacheStepInv == ASSUME IInv, CacheStep PROVE IInv'
<1>1. /\ Types /\ BlocksAccounted /\ HeldOnce /\ HeldAlone /\ IndexIsExact /\ CachedOnce
      /\ CallFits /\ CallCompletes /\ EventsSound /\ EvictionOrder
  BY DEF IInv
<1>a. todo.touch = << >> /\ todo.new = 0 /\ todo.cache > 0
  BY DEF CacheStep
<1>b. /\ todo.req \in Requests /\ req_to_blocks[todo.req] \in Seq(Blocks) /\ pool \in Pools
      /\ num_cached_block[todo.req] \in Nat
      /\ todo.new \in Nat /\ todo.cache \in Nat /\ todo.free \in Nat
  BY <1>1, TypeFacts
<1>c. PICK r \in Requests, held \in Seq(Blocks), m \in Nat :
        r = todo.req /\ held = req_to_blocks[r] /\ m = num_cached_block[r]
  BY <1>b
<1>d. PICK n \in Nat : n = Len(held)
  BY LenProperties
<1>e. << >> \in Seq(Blocks) /\ Len(<< >>) = 0
  BY EmptySeq
\* The request holds the block to cache, and its chain reaches so far.
<1>2. /\ m + 0 + todo.cache <= Len(HashOf[r])
      /\ m + 0 + todo.cache <= n + 0 + 0
      /\ todo.free > 0 => todo.cache = 0
      /\ ~EnableCaching => todo.cache = 0
  BY <1>1, <1>a, <1>c, <1>d, <1>e DEF CallFits
<1>3. /\ m + 1 \in 1..n /\ m + 1 \in 1..Len(HashOf[r]) /\ ~(todo.free > 0) /\ EnableCaching
      /\ m + 1 <= n /\ m + 1 <= Len(HashOf[r]) /\ Len(HashOf[r]) \in Nat
  <2>1. Len(HashOf[r]) \in Nat
    BY ChainHashes
  <2> QED BY <2>1, <1>2, <1>a, <1>b
<1>4. DOMAIN held = 1..n /\ held[m + 1] \in Blocks /\ held[m + 1] \in Members(held)
  BY <1>3, <1>d, MembersOf
<1>5. HashOf[r][m + 1] \in Hashes /\ HashOf[r][m + 1] # NoHash
  BY <1>3, ChainHashes
<1>6. PICK b \in Blocks, h \in Hashes : b = held[m + 1] /\ h = HashOf[r][m + 1]
  BY <1>4, <1>5
<1>7. /\ pool' = cache_full_block(pool, b, h)
      /\ num_cached_block' = [num_cached_block EXCEPT ![r] = m + 1]
      /\ todo' = [todo EXCEPT !.cache = @ - 1]
      /\ req_to_blocks' = req_to_blocks
  BY <1>c, <1>6 DEF CacheStep
\* The block has no hash yet, so only this request holds it.
<1>8. pool.block_hash[b] = NoHash
  <2>1. ~(m + 1 <= m)
    BY <1>b, <1>c
  <2> QED BY <2>1, <1>1, <1>c, <1>3, <1>4, <1>6 DEF IndexIsExact
<1>9. Distinct(held) /\ NullBlock \notin Members(held) /\ b # NullBlock
  BY <1>1, <1>c, <1>4, <1>6 DEF HeldOnce
<1>10. \A s \in Requests : b \in Members(req_to_blocks[s]) => s = r
  BY <1>1, <1>c, <1>4, <1>6, <1>8 DEF HeldAlone
<1>11. pool.ref_cnt[b] > 0
  BY <1>1, <1>b, <1>c, <1>4, <1>6, HoldersCount
<1>12. /\ pool' \in Pools
       /\ pool'.free_block_queue = pool.free_block_queue
       /\ pool'.ref_cnt = pool.ref_cnt
       /\ pool'.block_hash = [pool.block_hash EXCEPT ![b] = h]
       /\ pool'.cached = [pool.cached EXCEPT ![h] = Append(@, b)]
       /\ pool'.view = pool.view \cup {h}
  <2>1. pool' = cache_full_block(pool, b, h) /\ pool \in Pools
    BY <1>7, <1>b
  <2>2. Stored(pool, pool', b, h)
    BY <2>1, CacheFields
  <2> QED BY <2>2 DEF Stored
<1>13. /\ pool.block_hash \in [Blocks -> Hashes \cup {NoHash}]
       /\ pool.cached \in [Hashes -> Seq(Blocks)] /\ pool.view \in SUBSET Hashes
  BY <1>b, PoolFields
<1>14. /\ pool'.block_hash[b] = h
       /\ \A x \in Blocks : x # b => pool'.block_hash[x] = pool.block_hash[x]
  BY <1>12, <1>13
<1>15. /\ pool'.cached[h] = Append(pool.cached[h], b)
       /\ \A k \in Hashes : k # h => pool'.cached[k] = pool.cached[k]
  BY <1>12, <1>13
<1>16. \A k \in Hashes : \A x \in Blocks : x \in Members(pool.cached[k]) <=> pool.block_hash[x] = k
  BY <1>1 DEF IndexIsExact
<1>17. /\ Append(pool.cached[h], b) \in Seq(Blocks)
       /\ Len(Append(pool.cached[h], b)) = Len(pool.cached[h]) + 1
       /\ Distinct(Append(pool.cached[h], b))
       /\ Members(Append(pool.cached[h], b)) = Members(pool.cached[h]) \cup {b}
  <2>1. b \notin Members(pool.cached[h])
    BY <1>5, <1>6, <1>8, <1>16
  <2>2. pool.cached[h] \in Seq(Blocks) /\ Distinct(pool.cached[h])
    BY <1>1, <1>13 DEF CachedOnce
  <2> QED BY <2>1, <2>2, AppendBlock
<1>18. /\ num_cached_block'[r] = m + 1
       /\ \A s \in Requests : s # r => num_cached_block'[s] = num_cached_block[s]
  BY <1>1, <1>7, TypeFacts
<1>19. /\ todo'.req = r /\ todo'.touch = << >> /\ todo'.new = 0
       /\ todo'.cache = todo.cache - 1 /\ todo'.free = todo.free
       /\ todo' = [req |-> r, touch |-> << >>, new |-> 0,
                   cache |-> todo.cache - 1, free |-> todo.free]
  BY <1>1, <1>7, <1>a, <1>c, TypeFacts
<1>20. Types'
  <2>1. todo.cache - 1 \in Nat
    BY <1>a, <1>b
  <2>2. todo' \in Todos
    BY <2>1, <1>b, <1>e, <1>19 DEF Todos
  <2>3. num_cached_block' \in [Requests -> Nat]
    <3>1. m + 1 \in Nat
      BY <1>b, <1>c
    <3>2. num_cached_block \in [Requests -> Nat]
      BY <1>1, TypeFacts
    <3> QED BY <3>1, <3>2, <1>7
  <2> QED BY <2>2, <2>3, <1>1, <1>7, <1>12 DEF Types
<1>21. BlocksAccounted'
  BY <1>1, <1>7, <1>12 DEF BlocksAccounted, Holders
<1>22. HeldOnce'
  BY <1>1, <1>c, <1>d, <1>3, <1>7, <1>18 DEF HeldOnce
<1>23. HeldAlone'
  <2> SUFFICES ASSUME NEW s \in Requests, NEW u \in Requests,
                      NEW x \in Members(req_to_blocks[s]) \cap Members(req_to_blocks[u]),
                      pool'.block_hash[x] = NoHash
               PROVE  s = u
    BY <1>7 DEF HeldAlone
  <2>1. x \in Blocks
    BY <1>1, TypeFacts, MembersOf
  <2>2. pool.block_hash[x] = NoHash
    BY <2>1, <1>8, <1>14
  <2> QED BY <2>2, <1>1 DEF HeldAlone
<1>24. IndexIsExact'
  <2>1. ASSUME NEW k \in Hashes, NEW x \in Blocks
        PROVE  x \in Members(pool'.cached[k]) <=> pool'.block_hash[x] = k
    <3>1. k # NoHash
      BY PoolAssumption
    <3>2. CASE k = h
      BY <3>1, <3>2, <1>8, <1>14, <1>15, <1>16, <1>17
    <3>3. CASE k # h
      BY <3>1, <3>3, <1>8, <1>14, <1>15, <1>16
    <3> QED BY <3>2, <3>3
  <2>2. ASSUME NEW s \in Requests, NEW i \in DOMAIN req_to_blocks[s]
        PROVE  pool'.block_hash[req_to_blocks[s][i]] =
                 IF i <= num_cached_block'[s] THEN HashOf[s][i] ELSE NoHash
    <3>1. /\ req_to_blocks[s][i] \in Members(req_to_blocks[s])
          /\ req_to_blocks[s][i] \in Blocks
      <4>1. req_to_blocks[s] \in Seq(Blocks) /\ i \in 1..Len(req_to_blocks[s])
        BY <2>2, <1>1, TypeFacts
      <4> QED BY <4>1, MembersOf
    <3>2. pool.block_hash[req_to_blocks[s][i]] =
            IF i <= num_cached_block[s] THEN HashOf[s][i] ELSE NoHash
      BY <2>2, <1>1 DEF IndexIsExact
    <3>3. CASE s # r
      <4>1. req_to_blocks[s][i] # b
        BY <3>1, <3>3, <1>10
      <4> QED BY <4>1, <3>1, <3>2, <3>3, <1>14, <1>18
    <3>4. CASE s = r /\ i = m + 1
      <4>1. i <= num_cached_block'[s] /\ req_to_blocks[s][i] = b
        BY <3>4, <1>b, <1>c, <1>6, <1>18
      <4> QED BY <4>1, <3>4, <1>6, <1>14
    <3>5. CASE s = r /\ i # m + 1
      <4>1. i \in 1..n
        BY <3>5, <2>2, <1>c, <1>4
      <4>2. req_to_blocks[s][i] # b
        BY <4>1, <3>5, <1>c, <1>3, <1>4, <1>6, <1>9 DEF Distinct
      <4>3. i <= m <=> i <= m + 1
        BY <4>1, <3>5
      <4> QED BY <4>2, <4>3, <3>1, <3>2, <3>5, <1>c, <1>14, <1>18
    <3> QED BY <3>3, <3>4, <3>5
  <2> QED BY <2>1, <2>2, <1>7 DEF IndexIsExact
<1>25. CachedOnce'
  <2>1. NullBlock \in Blocks
    BY PoolAssumption DEF Blocks, NullBlock
  <2>2. pool'.block_hash[NullBlock] = NoHash
    BY <2>1, <1>1, <1>9, <1>14 DEF CachedOnce
  <2>3. \A k \in Hashes : Distinct(pool'.cached[k])
    BY <1>1, <1>15, <1>17 DEF CachedOnce
  <2> QED BY <2>2, <2>3, <1>3 DEF CachedOnce
<1>26. CallFits'
  <2>1. /\ m + 1 + 0 + (todo.cache - 1) <= Len(HashOf[r])
        /\ m + 1 + 0 + (todo.cache - 1) <= n + 0 + 0
    BY <1>2, <1>b, <1>3
  <2>2. /\ Len(req_to_blocks'[r]) = n /\ Len(todo'.touch) = 0 /\ ~(0 > 0)
        /\ \A i \in 1..0 : FALSE
    BY <1>c, <1>d, <1>e, <1>7, <1>19
  <2> QED BY <2>1, <2>2, <1>3, <1>18, <1>19 DEF CallFits
<1>27. CallCompletes'
  <2>1. num_evictable(todo.touch)' = 0
    BY <1>19, NoneEvictable DEF num_evictable
  <2>2. todo'.new + 0 <= Len(pool'.free_block_queue)
    BY <1>1, <1>12, <1>19, TypeFacts
  <2> QED BY <2>1, <2>2 DEF CallCompletes
<1>28. EventsSound'
  <2> SUFFICES ASSUME NEW k \in pool'.view PROVE pool'.cached[k] # << >>
    BY DEF EventsSound, HasCached
  <2>1. CASE k = h
    <3>1. b \in Members(pool'.cached[h])
      BY <1>15, <1>17
    <3>2. Members(<< >>) = {}
      BY DEF Members
    <3> QED BY <2>1, <3>1, <3>2
  <2>2. CASE k # h
    <3>1. k \in pool.view /\ k \in Hashes
      BY <2>2, <1>12, <1>13
    <3> QED BY <3>1, <2>2, <1>1, <1>15 DEF EventsSound, HasCached
  <2> QED BY <2>1, <2>2
<1>29. EvictionOrder'
  <2> SUFFICES ASSUME NEW x \in Blocks, pool'.ref_cnt[x] = 0,
                      NEW s \in Requests, NEW j \in 1..Len(HashOf[s]),
                      pool'.block_hash[x] = HashOf[s][j], NEW i \in 1..(j - 1)
               PROVE  \E w \in Blocks :
                        /\ pool'.block_hash[w] = HashOf[s][i]
                        /\ pool'.ref_cnt[w] > 0 \/ Before(pool'.free_block_queue, x, w)
    BY DEF EvictionOrder
  <2>1. x # b /\ pool.ref_cnt[x] = 0 /\ pool.block_hash[x] = HashOf[s][j]
    BY <1>11, <1>12, <1>14
  <2>2. PICK w \in Blocks : /\ pool.block_hash[w] = HashOf[s][i]
                            /\ pool.ref_cnt[w] > 0 \/ Before(pool.free_block_queue, x, w)
    BY <2>1, <1>1 DEF EvictionOrder
  <2>3. i \in 1..Len(HashOf[s])
    BY ChainHashes
  <2>4. w # b
    BY <2>2, <2>3, <1>8, ChainHashes
  <2> QED BY <2>2, <2>4, <1>12, <1>14
<1> QED BY <1>20, <1>21, <1>22, <1>23, <1>24, <1>25, <1>26, <1>27, <1>28, <1>29 DEF IInv

\* One iteration of free_blocks: the last block of the request.
LEMMA FreeStepInv == ASSUME IInv, FreeStep PROVE IInv'
<1>1. /\ Types /\ BlocksAccounted /\ HeldOnce /\ HeldAlone /\ IndexIsExact /\ CachedOnce
      /\ CallFits /\ CallCompletes /\ EventsSound /\ EvictionOrder
  BY DEF IInv
<1>a. todo.free > 0
  BY DEF FreeStep
<1>b. /\ todo.req \in Requests /\ req_to_blocks[todo.req] \in Seq(Blocks) /\ pool \in Pools
      /\ num_cached_block[todo.req] \in Nat /\ pool.free_block_queue \in Seq(Blocks)
      /\ todo.touch \in Seq(Blocks) /\ todo.free \in Nat
  BY <1>1, TypeFacts, PoolFields
<1>c. PICK r \in Requests, held \in Seq(Blocks), m \in Nat, q \in Seq(Blocks) :
        /\ r = todo.req /\ held = req_to_blocks[r] /\ m = num_cached_block[r]
        /\ q = pool.free_block_queue
  BY <1>b
<1>d. PICK n \in Nat : n = Len(held)
  BY LenProperties
<1>2. n = todo.free /\ Len(todo.touch) = 0 /\ todo.new = 0 /\ todo.cache = 0
  BY <1>1, <1>a, <1>c, <1>d DEF CallFits
<1>3. n > 0 /\ n \in 1..n /\ todo.touch = << >> /\ n - 1 \in Nat
  <2>1. todo.touch = << >>
    BY <1>2, <1>b, MembersOf
  <2> QED BY <2>1, <1>2, <1>a
<1>4. DOMAIN held = 1..n /\ held[n] \in Blocks /\ held[n] \in Members(held)
  BY <1>3, <1>d, MembersOf
<1>5. PICK b \in Blocks : b = held[n]
  BY <1>4
<1>6. /\ pool' = free_block(pool, b)
      /\ req_to_blocks' = [req_to_blocks EXCEPT ![r] = DropAt(held, n)]
      /\ num_cached_block' = [num_cached_block EXCEPT ![r] = IF m >= n THEN m - 1 ELSE m]
      /\ todo' = [todo EXCEPT !.free = @ - 1]
  BY <1>c, <1>d, <1>5 DEF FreeStep, FreeIndex
<1>7. /\ Distinct(held) /\ NullBlock \notin Members(held) /\ b # NullBlock
      /\ m <= n /\ m <= Len(HashOf[r])
  BY <1>1, <1>c, <1>d, <1>4, <1>5 DEF HeldOnce
<1>8. PICK m1 \in Nat : m1 = IF m >= n THEN m - 1 ELSE m
  <2>1. (IF m >= n THEN m - 1 ELSE m) \in Nat
    BY <1>3
  <2> QED BY <2>1
<1>9. m1 <= n - 1 /\ m1 <= m /\ \A i \in 1..(n - 1) : i <= m1 <=> i <= m
  BY <1>3, <1>7, <1>8
<1>10. /\ \A x \in Blocks : x \in Members(q) <=> x # NullBlock /\ pool.ref_cnt[x] = 0
       /\ Distinct(q)
  BY <1>1, <1>c DEF BlocksAccounted, Distinct
<1>11. b \in Members(req_to_blocks[r]) /\ pool.ref_cnt[b] > 0 /\ pool.ref_cnt[b] \in Nat
  BY <1>1, <1>b, <1>c, <1>4, <1>5, HoldersCount
<1>12. /\ pool' \in Pools
       /\ pool'.ref_cnt = [pool.ref_cnt EXCEPT ![b] = @ - 1]
       /\ pool'.block_hash = pool.block_hash
       /\ pool'.cached = pool.cached
       /\ pool'.view = pool.view
       /\ pool'.free_block_queue = IF pool.ref_cnt[b] = 1 THEN Append(q, b) ELSE q
  <2>1. b \in Blocks \ {NullBlock}
    BY <1>7
  <2>2. pool \in Pools /\ pool' = free_block(pool, b) /\ q = pool.free_block_queue
    BY <1>6, <1>b, <1>c
  <2>3. Freed(pool, pool', b)
    BY <2>1, <2>2, <1>11, FreeFields
  <2> QED BY <2>2, <2>3 DEF Freed
<1>13. pool.ref_cnt \in [Blocks -> Nat] /\ pool.block_hash \in [Blocks -> Hashes \cup {NoHash}]
  BY <1>b, PoolFields
<1>14. /\ pool'.ref_cnt[b] = pool.ref_cnt[b] - 1
       /\ \A x \in Blocks : x # b => pool'.ref_cnt[x] = pool.ref_cnt[x]
  BY <1>12, <1>13
\* The block joins the queue, behind all others, when nobody else holds it.
<1>15. /\ Distinct(pool'.free_block_queue)
       /\ Members(pool'.free_block_queue) =
            IF pool.ref_cnt[b] = 1 THEN Members(q) \cup {b} ELSE Members(q)
       /\ \A x, y : Before(q, x, y) => Before(pool'.free_block_queue, x, y)
       /\ pool.ref_cnt[b] = 1 => \A x \in Members(q) : Before(pool'.free_block_queue, x, b)
       /\ Len(pool'.free_block_queue) \in Nat
  <2>1. b \notin Members(q)
    BY <1>10, <1>11
  <2>2. Len(pool'.free_block_queue) \in Nat
    BY <1>12, PoolFields, MembersOf
  <2>3. CASE pool.ref_cnt[b] = 1
    <3>1. pool'.free_block_queue = Append(q, b)
      BY <2>3, <1>12
    <3> QED BY <2>1, <2>2, <2>3, <3>1, <1>10, AppendBlock
  <2>4. CASE pool.ref_cnt[b] # 1
    BY <2>2, <2>4, <1>10, <1>12
  <2> QED BY <2>3, <2>4
<1>16. /\ req_to_blocks'[r] = DropAt(held, n) /\ num_cached_block'[r] = m1
       /\ \A s \in Requests : s # r => /\ req_to_blocks'[s] = req_to_blocks[s]
                                       /\ num_cached_block'[s] = num_cached_block[s]
  BY <1>1, <1>6, <1>8, TypeFacts
<1>17. /\ DropAt(held, n) \in Seq(Blocks) /\ Len(DropAt(held, n)) = n - 1
       /\ Distinct(DropAt(held, n)) /\ Members(DropAt(held, n)) = Members(held) \ {b}
       /\ \A i \in 1..(n - 1) : DropAt(held, n)[i] = held[i]
  <2>1. /\ DropAt(held, n) \in Seq(Blocks) /\ Len(DropAt(held, n)) = n - 1
        /\ \A i \in 1..(n - 1) : DropAt(held, n)[i] = IF i < n THEN held[i] ELSE held[i + 1]
    BY <1>d, <1>3, DropAtElements
  <2>2. \A i \in 1..(n - 1) : i < n
    OBVIOUS
  <2>3. Distinct(DropAt(held, n)) /\ Members(DropAt(held, n)) = Members(held) \ {held[n]}
    BY <1>d, <1>3, <1>7, DropAtDistinct
  <2> QED BY <2>1, <2>2, <2>3, <1>5
<1>18. DOMAIN DropAt(held, n) = 1..(n - 1)
  BY <1>17, MembersOf
<1>19. \A s \in Requests : Members(req_to_blocks'[s]) =
         IF s = r THEN Members(req_to_blocks[s]) \ {b} ELSE Members(req_to_blocks[s])
  BY <1>c, <1>16, <1>17
<1>20. /\ todo'.req = r /\ todo'.touch = << >> /\ todo'.new = 0
       /\ todo'.cache = 0 /\ todo'.free = n - 1
       /\ todo' = [req |-> r, touch |-> << >>, new |-> 0, cache |-> 0, free |-> n - 1]
  BY <1>1, <1>2, <1>3, <1>6, <1>c, TypeFacts
<1>e. << >> \in Seq(Blocks) /\ Len(<< >>) = 0
  BY EmptySeq
<1>21. Types'
  <2>1. todo' \in Todos
    BY <1>e, <1>3, <1>20 DEF Todos
  <2>2. req_to_blocks' \in [Requests -> Seq(Blocks)]
    BY <1>1, <1>6, <1>17, TypeFacts
  <2>3. num_cached_block' \in [Requests -> Nat]
    <3>1. num_cached_block' = [num_cached_block EXCEPT ![r] = m1]
      BY <1>6, <1>8
    <3> QED BY <3>1, <1>1, TypeFacts
  <2> QED BY <2>1, <2>2, <2>3, <1>12 DEF Types
<1>22. BlocksAccounted'
  <2>1. Holders(b)' = Holders(b) \ {r}
    BY <1>19 DEF Holders
  <2>2. r \in Holders(b)
    BY <1>11 DEF Holders
  <2>3. \A x \in Blocks : x # b => Holders(x)' = Holders(x)
    BY <1>19 DEF Holders
  <2>4. pool'.ref_cnt[b] = Cardinality(Holders(b)')
    <3>1. IsFiniteSet(Holders(b)) /\ pool.ref_cnt[b] = Cardinality(Holders(b))
      BY <1>1, <1>b, HoldersCount
    <3>2. Cardinality(Holders(b) \ {r}) = Cardinality(Holders(b)) - 1
      BY <3>1, <2>2, FS_RemoveElement
    <3> QED BY <3>1, <3>2, <2>1, <1>14
  <2>5. \A x \in Blocks : pool'.ref_cnt[x] = Cardinality(Holders(x)')
    BY <2>3, <2>4, <1>1, <1>14 DEF BlocksAccounted
  <2>6. pool'.ref_cnt[b] = 0 <=> pool.ref_cnt[b] = 1
    BY <1>11, <1>14
  <2>7. ASSUME NEW x \in Blocks
        PROVE  x \in Members(pool'.free_block_queue) <=> x # NullBlock /\ pool'.ref_cnt[x] = 0
    <3>1. CASE x = b
      <4>1. b \notin Members(q)
        BY <1>10, <1>11
      <4> QED BY <3>1, <4>1, <2>6, <1>7, <1>15
    <3>2. CASE x # b
      BY <3>2, <1>10, <1>14, <1>15
    <3> QED BY <3>1, <3>2
  <2> QED BY <2>5, <2>7, <1>15 DEF BlocksAccounted, Distinct
<1>23. HeldOnce'
  <2> SUFFICES ASSUME NEW s \in Requests
               PROVE  /\ Distinct(req_to_blocks'[s])
                      /\ NullBlock \notin Members(req_to_blocks'[s])
                      /\ num_cached_block'[s] <= Len(req_to_blocks'[s])
                      /\ num_cached_block'[s] <= Len(HashOf[s])
    BY DEF HeldOnce
  <2>1. CASE s = r
    <3>1. NullBlock \notin Members(DropAt(held, n))
      BY <1>7, <1>17
    <3>2. Len(HashOf[r]) \in Nat
      BY ChainHashes
    <3>3. m1 <= Len(HashOf[r])
      BY <3>2, <1>7, <1>9
    <3> QED BY <2>1, <3>1, <3>3, <1>9, <1>16, <1>17
  <2>2. CASE s # r
    BY <2>2, <1>1, <1>16 DEF HeldOnce
  <2> QED BY <2>1, <2>2
<1>24. HeldAlone'
  <2>1. \A s \in Requests : \A x \in Members(req_to_blocks'[s]) : x \in Members(req_to_blocks[s])
    BY <1>19
  <2> QED BY <2>1, <1>1, <1>12 DEF HeldAlone
<1>25. IndexIsExact'
  <2>1. ASSUME NEW s \in Requests, NEW i \in DOMAIN req_to_blocks'[s]
        PROVE  pool'.block_hash[req_to_blocks'[s][i]] =
                 IF i <= num_cached_block'[s] THEN HashOf[s][i] ELSE NoHash
    <3>1. CASE s # r
      BY <3>1, <1>1, <1>12, <1>16 DEF IndexIsExact
    <3>2. CASE s = r
      <4>1. i \in 1..(n - 1) /\ i \in 1..n
        BY <3>2, <1>16, <1>18
      <4>2. pool.block_hash[held[i]] = IF i <= m THEN HashOf[r][i] ELSE NoHash
        BY <4>1, <1>1, <1>c, <1>4 DEF IndexIsExact
      <4>3. req_to_blocks'[s][i] = held[i] /\ num_cached_block'[s] = m1
        BY <3>2, <4>1, <1>16, <1>17
      <4>4. i <= m1 <=> i <= m
        BY <4>1, <1>9
      <4> QED BY <4>2, <4>3, <4>4, <3>2, <1>12
    <3> QED BY <3>1, <3>2
  <2> QED BY <2>1, <1>1, <1>12 DEF IndexIsExact
<1>26. CachedOnce'
  BY <1>1, <1>12 DEF CachedOnce
<1>27. CallFits'
  <2>1. /\ m1 + 0 + 0 <= Len(HashOf[r])
        /\ m1 + 0 + 0 <= (n - 1) + 0 + 0
    <3>1. Len(HashOf[r]) \in Nat
      BY ChainHashes
    <3> QED BY <3>1, <1>7, <1>9
  <2>2. /\ Len(req_to_blocks'[r]) = n - 1 /\ Len(todo'.touch) = 0 /\ ~(0 > 0)
        /\ \A i \in 1..0 : FALSE
    BY <1>e, <1>16, <1>17, <1>20
  <2> QED BY <2>1, <2>2, <1>16, <1>20 DEF CallFits
<1>28. CallCompletes'
  <2>1. num_evictable(todo.touch)' = 0
    BY <1>20, NoneEvictable DEF num_evictable
  <2>2. todo'.new + 0 <= Len(pool'.free_block_queue)
    BY <1>15, <1>20
  <2> QED BY <2>1, <2>2 DEF CallCompletes
<1>29. EventsSound'
  BY <1>1, <1>12 DEF EventsSound, HasCached
<1>30. EvictionOrder'
  <2> SUFFICES ASSUME NEW x \in Blocks, pool'.ref_cnt[x] = 0,
                      NEW s \in Requests, NEW j \in 1..Len(HashOf[s]),
                      pool'.block_hash[x] = HashOf[s][j], NEW i \in 1..(j - 1)
               PROVE  \E w \in Blocks :
                        /\ pool'.block_hash[w] = HashOf[s][i]
                        /\ pool'.ref_cnt[w] > 0 \/ Before(pool'.free_block_queue, x, w)
    BY DEF EvictionOrder
  <2>1. pool.block_hash[x] = HashOf[s][j] /\ HashOf[s][j] # NoHash
    BY <1>12, ChainHashes
  \* The request still holds the blocks before the one it frees.
  <2>2. CASE x = b
    <3>1. pool.block_hash[req_to_blocks[r][n]] = HashOf[s][j]
      BY <2>1, <2>2, <1>c, <1>5
    <3>2. n \in 1..Len(req_to_blocks[r])
      BY <1>c, <1>d, <1>3
    <3>3. /\ i \in 1..Len(held) /\ held[i] # b
          /\ pool.block_hash[held[i]] = HashOf[s][i]
      <4>1. /\ i \in 1..Len(req_to_blocks[r])
            /\ req_to_blocks[r][i] # req_to_blocks[r][n]
            /\ pool.block_hash[req_to_blocks[r][i]] = HashOf[s][i]
        BY <3>1, <3>2, <1>1, HeldParents
      <4> QED BY <4>1, <1>c, <1>5
    <3>4. held[i] \in Blocks /\ held[i] \in Members(req_to_blocks[r])
      BY <3>3, <1>c, MembersOf
    <3>5. pool.ref_cnt[held[i]] > 0
      BY <3>4, <1>1, <1>b, HoldersCount
    <3> QED BY <3>3, <3>4, <3>5, <1>12, <1>14
  <2>3. CASE x # b
    <3>1. pool.ref_cnt[x] = 0
      BY <2>3, <1>14
    <3>2. PICK w \in Blocks : /\ pool.block_hash[w] = HashOf[s][i]
                              /\ pool.ref_cnt[w] > 0 \/ Before(q, x, w)
      BY <3>1, <2>1, <1>1, <1>c DEF EvictionOrder
    <3>3. CASE w # b
      BY <3>2, <3>3, <1>12, <1>14, <1>15
    <3>4. CASE w = b /\ pool.ref_cnt[b] # 1
      <4>1. pool'.ref_cnt[b] > 0
        BY <3>4, <1>11, <1>14
      <4> QED BY <4>1, <3>2, <3>4, <1>12
    <3>5. CASE w = b /\ pool.ref_cnt[b] = 1
      <4>1. x # NullBlock
        BY <2>1, <1>1 DEF CachedOnce
      <4>2. x \in Members(q)
        BY <4>1, <3>1, <1>10
      <4>3. Before(pool'.free_block_queue, x, b)
        BY <4>2, <3>5, <1>15
      <4> QED BY <4>3, <3>2, <3>5, <1>12
    <3> QED BY <3>3, <3>4, <3>5
  <2> QED BY <2>2, <2>3
<1> QED BY <1>21, <1>22, <1>23, <1>24, <1>25, <1>26, <1>27, <1>28, <1>29, <1>30 DEF IInv

\* reset_prefix_cache, which runs only when every block but the null block is free.
LEMMA ResetPrefixCacheInv == ASSUME IInv, ResetPrefixCache PROVE IInv'
<1>1. /\ Types /\ BlocksAccounted /\ HeldOnce /\ HeldAlone /\ IndexIsExact /\ CachedOnce
      /\ CallFits /\ CallCompletes /\ EventsSound /\ EvictionOrder
  BY DEF IInv
<1>2. /\ pool' = reset_prefix_cache(pool)
      /\ UNCHANGED <<req_to_blocks, num_cached_block, todo>>
      /\ NumBlocks - Len(pool.free_block_queue) = 1
      /\ todo.touch = << >>
  BY DEF ResetPrefixCache, CanReset, Idle
<1>3. pool \in Pools /\ pool.free_block_queue \in Seq(Blocks) /\ Len(pool.free_block_queue) \in Nat
  BY <1>1, TypeFacts, PoolFields
<1>4. /\ pool' \in Pools
      /\ pool'.free_block_queue = pool.free_block_queue
      /\ pool'.ref_cnt = pool.ref_cnt
      /\ pool'.block_hash = [b \in Blocks |-> NoHash]
      /\ pool'.cached = [h \in Hashes |-> << >>]
      /\ pool'.view = {}
  BY <1>2, <1>3, ResetFields
\* The queue holds every block but the null block.
<1>5. \A b \in Blocks : b # NullBlock => pool.ref_cnt[b] = 0
  <2> DEFINE Q == Members(pool.free_block_queue)
             N == Blocks \ {NullBlock}
  <2>1. \A b \in Blocks : b \in Q <=> b # NullBlock /\ pool.ref_cnt[b] = 0
    BY <1>1 DEF BlocksAccounted
  <2>2. Q \in SUBSET N
    BY <2>1, <1>3, MembersOf
  <2>3. Cardinality(Q) = Len(pool.free_block_queue)
    BY <1>1, <1>3, CardMembers DEF BlocksAccounted, Distinct
  <2>4. NullBlock \in Blocks /\ NumBlocks \in Nat
    BY PoolAssumption DEF Blocks, NullBlock
  <2>5. IsFiniteSet(N) /\ Cardinality(N) = NumBlocks - 1
    BY <2>4, BlocksFinite, FS_RemoveElement
  <2> HIDE DEF Q, N
  <2>6. Cardinality(N) = Cardinality(Q)
    BY <2>3, <2>4, <2>5, <1>2, <1>3
  <2>7. N = Q
    BY <2>2, <2>5, <2>6, FS_Subset
  <2> QED BY <2>1, <2>7 DEF N
\* So no request holds a block.
<1>6. \A r \in Requests : /\ req_to_blocks[r] = << >>
                          /\ num_cached_block[r] = 0
  <2> SUFFICES ASSUME NEW r \in Requests
               PROVE  req_to_blocks[r] = << >> /\ num_cached_block[r] = 0
    OBVIOUS
  <2>1. req_to_blocks[r] \in Seq(Blocks) /\ num_cached_block[r] \in Nat
    BY <1>1, TypeFacts
  <2>2. ASSUME NEW b \in Members(req_to_blocks[r]) PROVE FALSE
    <3>1. b \in Blocks /\ b # NullBlock
      BY <2>1, <2>2, <1>1, MembersOf DEF HeldOnce
    <3>2. pool.ref_cnt[b] > 0 /\ pool.ref_cnt[b] = 0
      BY <3>1, <2>2, <1>1, <1>3, <1>5, HoldersCount
    <3> QED BY <3>2
  <2>3. req_to_blocks[r] = << >> /\ Len(req_to_blocks[r]) = 0
    BY <2>1, <2>2, MembersOf
  <2>4. num_cached_block[r] <= Len(req_to_blocks[r])
    BY <1>1 DEF HeldOnce
  <2> QED BY <2>1, <2>3, <2>4
<1>7. Members(<< >>) = {} /\ Len(<< >>) = 0 /\ DOMAIN << >> = {}
  BY EmptySeq DEF Members
<1>8. Types'
  BY <1>1, <1>2, <1>4 DEF Types
<1>9. BlocksAccounted'
  BY <1>1, <1>2, <1>4 DEF BlocksAccounted, Holders
<1>10. HeldOnce'
  BY <1>1, <1>2 DEF HeldOnce
<1>11. HeldAlone'
  BY <1>2, <1>6, <1>7 DEF HeldAlone
<1>12. IndexIsExact'
  BY <1>2, <1>4, <1>6, <1>7, PoolAssumption DEF IndexIsExact
<1>13. CachedOnce'
  BY <1>4, <1>7, PoolAssumption DEF CachedOnce, Distinct, Blocks, NullBlock
<1>14. CallFits'
  <2>1. Len(todo.touch) = 0 /\ \A i \in 1..0 : FALSE
    BY <1>2, <1>7
  <2> QED BY <2>1, <1>1, <1>2 DEF CallFits
<1>15. CallCompletes'
  BY <1>1, <1>2, <1>4 DEF CallCompletes, num_evictable
<1>16. EventsSound'
  BY <1>4 DEF EventsSound
<1>17. EvictionOrder'
  BY <1>4, ChainHashes DEF EvictionOrder
<1> QED BY <1>8, <1>9, <1>10, <1>11, <1>12, <1>13, <1>14, <1>15, <1>16, <1>17 DEF IInv

-----------------------------------------------------------------------------
\* Every step of the pool preserves the invariant.
LEMMA NextInv == ASSUME IInv, [Next]_vars PROVE IInv'
<1>1. CASE UNCHANGED vars
  <2>1. UNCHANGED <<pool, req_to_blocks, num_cached_block>> /\ todo' = todo
    BY <1>1 DEF vars
  <2>2. Types' /\ CallFits' /\ CallCompletes'
    BY <2>1 DEF IInv, Types, CallFits, CallCompletes, num_evictable
  <2> QED BY <2>1, <2>2, CallOnly DEF IInv
<1>2. ASSUME NEW r \in Requests, NEW k \in 0..Len(HashOf[r]), NEW c \in 0..Len(HashOf[r]),
             NEW n \in 0..NumBlocks, AllocateSlots(r, k, n, c)
      PROVE  IInv'
  BY <1>2, AllocateSlotsInv
<1>3. ASSUME NEW r \in Requests, Free(r) PROVE IInv'
  BY <1>3, FreeInv
<1>4. CASE TouchStep
  BY <1>4, TouchStepInv
<1>5. CASE NewBlockStep
  BY <1>5, NewBlockStepInv
<1>6. CASE CacheStep
  BY <1>6, CacheStepInv
<1>7. CASE FreeStep
  BY <1>7, FreeStepInv
<1>8. CASE ResetPrefixCache
  BY <1>8, ResetPrefixCacheInv
<1> QED BY <1>1, <1>2, <1>3, <1>4, <1>5, <1>6, <1>7, <1>8 DEF Next

\* The inductive invariant holds in every reachable state.
THEOREM PoolInvariant == Spec => []IInv
<1>1. Init => IInv
  BY InitInv
<1>2. IInv /\ [Next]_vars => IInv'
  BY NextInv
<1> QED BY <1>1, <1>2, PTL DEF Spec

\* A hash is in the index exactly when some block carries it.
LEMMA CachedIffCarried ==
  ASSUME Types, IndexIsExact, NEW h \in Hashes
  PROVE  HasCached(pool, h) <=> \E b \in Blocks : pool.block_hash[b] = h
<1>1. pool.cached[h] \in Seq(Blocks)
  BY TypeFacts, PoolFields
<1>2. HasCached(pool, h) <=> Members(pool.cached[h]) # {}
  BY <1>1, MembersOf DEF HasCached
<1>3. \A b \in Blocks : b \in Members(pool.cached[h]) <=> pool.block_hash[b] = h
  BY DEF IndexIsExact
<1>4. Members(pool.cached[h]) \subseteq Blocks
  BY <1>1, MembersOf
<1> QED BY <1>2, <1>3, <1>4

\* The blocks a cached block builds on are cached: those of a free block by the
\* order of the queue, those of a held one because its holder holds them too.
LEMMA NoHoles == IInv => ChainsHaveNoHoles
<1> SUFFICES ASSUME IInv, NEW r \in Requests,
                    NEW i \in 1..Len(HashOf[r]), NEW j \in 1..Len(HashOf[r]),
                    i < j, HasCached(pool, HashOf[r][j])
             PROVE  HasCached(pool, HashOf[r][i])
  BY DEF ChainsHaveNoHoles
<1>1. Types /\ BlocksAccounted /\ HeldOnce /\ IndexIsExact /\ EvictionOrder /\ pool \in Pools
  BY TypeFacts DEF IInv
<1>2. HashOf[r][i] \in Hashes /\ HashOf[r][j] \in Hashes
  BY ChainHashes
<1>3. PICK b \in Blocks : pool.block_hash[b] = HashOf[r][j]
  BY <1>1, <1>2, CachedIffCarried
<1>4. i \in 1..(j - 1)
  BY ChainHashes
<1>5. CASE pool.ref_cnt[b] = 0
  <2>1. \E w \in Blocks : pool.block_hash[w] = HashOf[r][i]
    BY <1>1, <1>3, <1>4, <1>5 DEF EvictionOrder
  <2> QED BY <2>1, <1>1, <1>2, CachedIffCarried
<1>6. CASE pool.ref_cnt[b] # 0
  <2>1. PICK s \in Requests : b \in Members(req_to_blocks[s])
    BY <1>1, <1>6, HoldersCount DEF Holders
  <2>2. req_to_blocks[s] \in Seq(Blocks) /\ DOMAIN req_to_blocks[s] = 1..Len(req_to_blocks[s])
    BY <1>1, TypeFacts
  <2>3. PICK k \in 1..Len(req_to_blocks[s]) : req_to_blocks[s][k] = b
    BY <2>1, <2>2 DEF Members
  <2>4. /\ i \in 1..Len(req_to_blocks[s])
        /\ pool.block_hash[req_to_blocks[s][i]] = HashOf[r][i]
    BY <2>3, <1>1, <1>3, <1>4, HeldParents
  <2>5. req_to_blocks[s][i] \in Blocks
    BY <2>2, <2>4, MembersOf
  <2> QED BY <2>4, <2>5, <1>1, <1>2, CachedIffCarried
<1> QED BY <1>5, <1>6

\* At every step of every call of the pool, the reference counts are the numbers of
\* holders and the free queue holds exactly the blocks without one, each once: no
\* block is leaked, freed twice or handed to two requests.
THEOREM PoolBlocksAccounted == Spec => []BlocksAccounted
<1>1. IInv => BlocksAccounted
  BY DEF IInv
<1> QED BY <1>1, PoolInvariant, PTL

\* The hash index and the hashes of the blocks always agree, and a request's blocks
\* carry its own hashes: nothing a request holds is evicted under it.
THEOREM PoolIndexIsExact == Spec => []IndexIsExact
<1>1. IInv => IndexIsExact
  BY DEF IInv
<1> QED BY <1>1, PoolInvariant, PTL

\* Once allocate_slots has passed its check, the queue has enough blocks for the rest
\* of the call: get_new_blocks and popleft never raise half way.
THEOREM PoolCallCompletes == Spec => []CallCompletes
<1>1. IInv => CallCompletes
  BY DEF IInv
<1> QED BY <1>1, PoolInvariant, PTL

\* What a consumer of the KV events believes to be cached is cached.
THEOREM PoolEventsSound == Spec => []EventsSound
<1>1. IInv => EventsSound
  BY DEF IInv
<1> QED BY <1>1, PoolInvariant, PTL

\* While a block of a chain is cached, so are all blocks before it: freeing a request
\* last block first makes the eviction order the reverse of the chain, also when
\* several requests share and extend the chain.
THEOREM PoolChainsHaveNoHoles == Spec => []ChainsHaveNoHoles
BY NoHoles, PoolInvariant, PTL
=============================================================================
