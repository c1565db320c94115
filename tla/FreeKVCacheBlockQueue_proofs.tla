-------------------- MODULE FreeKVCacheBlockQueue_proofs --------------------
(***************************************************************************)
(* The free block list is well linked and exactly counted, for every       *)
(* number of blocks.  The inductive invariant is                           *)
(*                                                                         *)
(*     TypeOK /\ CountIsFree /\ InUseUnlinked /\ WellLinked                *)
(*                                                                         *)
(* InUseUnlinked is needed because append to an empty list does not write  *)
(* prev_free_block of the block; CountIsFree because WellLinked alone says *)
(* how long the list is and not how many blocks are free.                  *)
(***************************************************************************)
EXTENDS FreeKVCacheBlockQueue, FiniteSetTheorems, SequenceTheorems, TLAPS

CountIsFree == num_free_blocks = Cardinality(Blocks \ in_use)

IInv == TypeOK /\ CountIsFree /\ InUseUnlinked /\ WellLinked

LEMMA BlocksFinite == IsFiniteSet(Blocks) /\ Cardinality(Blocks) = NumBlocks
<1>1. 0 \in Int /\ NumBlocks - 1 \in Int
  BY NumBlocksAssumption
<1> QED BY <1>1, FS_Interval, NumBlocksAssumption DEF Blocks

LEMMA FreeFinite ==
  ASSUME NEW S \in SUBSET Blocks
  PROVE  /\ IsFiniteSet(Blocks \ S)
         /\ Cardinality(Blocks \ S) \in 0..NumBlocks
<1>1. Blocks \ S \in SUBSET Blocks
  OBVIOUS
<1>2. IsFiniteSet(Blocks \ S) /\ Cardinality(Blocks \ S) <= NumBlocks
  BY <1>1, FS_Subset, BlocksFinite
<1> QED BY <1>2, FS_CardinalityType, NumBlocksAssumption

LEMMA InitIInv == Init => IInv
<1> SUFFICES ASSUME Init PROVE IInv
  OBVIOUS
<1> USE NumBlocksAssumption
<1>1. TypeOK
  BY DEF Init, TypeOK, Link, Blocks, NoBlock
<1>2. CountIsFree
  BY BlocksFinite DEF Init, CountIsFree
<1>3. InUseUnlinked
  BY DEF Init, InUseUnlinked
<1>4. WellLinked
  <2> DEFINE q == [i \in 1..num_free_blocks |-> i - 1]
  <2>1. q \in [1..num_free_blocks -> Blocks]
    BY DEF Init, Blocks
  <2>2. IsList(q)
    BY DEF Init, IsList, Blocks, NoBlock
  <2> HIDE DEF q
  <2> QED BY <2>1, <2>2 DEF WellLinked
<1> QED BY <1>1, <1>2, <1>3, <1>4 DEF IInv

LEMMA UnlinkList ==
  ASSUME IInv, NEW q \in [1..num_free_blocks -> Blocks], IsList(q),
         NEW k \in 1..num_free_blocks, Unlink(q[k]),
         NEW q2 \in [1..(num_free_blocks - 1) -> Blocks],
         \A j \in 1..(num_free_blocks - 1) :
            q2[j] = IF j < k THEN q[j] ELSE q[j + 1]
  PROVE  IsList(q2)'
<1> DEFINE n == num_free_blocks
<1> USE DEF IInv
<1>0. n \in Nat /\ n' = n - 1 /\ q[k] \in Blocks /\ q[k] # NoBlock /\ NoBlock \notin Blocks
  BY NumBlocksAssumption DEF TypeOK, Unlink, Blocks, NoBlock
<1>a. \A i, j \in 1..n : q[i] = q[j] => i = j
  BY DEF IsList
<1>b. \A j \in 1..n' : \/ j < k /\ j \in 1..n /\ q2[j] = q[j]
                       \/ j >= k /\ j + 1 \in 1..n /\ q2[j] = q[j + 1]
  BY <1>0
<1>1. \A j \in 1..n' : q2[j] \in Blocks /\ q2[j] # q[k]
  <2> SUFFICES ASSUME NEW j \in 1..n' PROVE q2[j] \in Blocks /\ q2[j] # q[k]
    OBVIOUS
  <2>1. CASE j < k /\ j \in 1..n /\ q2[j] = q[j]
    BY <2>1, <1>a, <1>0
  <2>2. CASE j >= k /\ j + 1 \in 1..n /\ q2[j] = q[j + 1]
    BY <2>2, <1>a, <1>0
  <2> QED BY <2>1, <2>2, <1>b
<1>2. \A i, j \in 1..n' : q2[i] = q2[j] => i = j
  BY <1>0, <1>a, <1>b
<1>3. \A b \in Blocks : b \notin in_use' <=> \E i \in 1..n' : q2[i] = b
  <2> SUFFICES ASSUME NEW b \in Blocks
               PROVE b \notin in_use' <=> \E i \in 1..n' : q2[i] = b
    OBVIOUS
  <2>1. b \notin in_use' <=> b \notin in_use /\ b # q[k]
    BY DEF Unlink
  <2>2. ASSUME NEW i \in 1..n, q[i] = b, i # k PROVE \E j \in 1..n' : q2[j] = b
    <3>1. CASE i < k
      BY <3>1, <2>2, <1>0
    <3>2. CASE i > k
      <4>1. i - 1 \in 1..n' /\ q2[i - 1] = b
        BY <3>2, <2>2, <1>0
      <4> QED BY <4>1
    <3> QED BY <3>1, <3>2, <2>2
  <2>3. ASSUME NEW j \in 1..n', q2[j] = b PROVE b \notin in_use /\ b # q[k]
    BY <2>3, <1>1, <1>b DEF IsList
  <2> QED BY <2>1, <2>2, <2>3 DEF IsList
<1>4. \A i \in 1..n' : next_free_block'[q2[i]] = IF i < n' THEN q2[i + 1] ELSE NoBlock
  <2> SUFFICES ASSUME NEW i \in 1..n'
               PROVE next_free_block'[q2[i]] = IF i < n' THEN q2[i + 1] ELSE NoBlock
    OBVIOUS
  <2>1. next_free_block'[q2[i]] =
          IF q2[i] = prev_free_block[q[k]] THEN next_free_block[q[k]]
                                           ELSE next_free_block[q2[i]]
    <3>1. q2[i] \in Blocks /\ q2[i] # q[k]
      BY <1>1
    <3> QED BY <3>1 DEF Unlink, NextWithout
  <2>2. CASE i < k - 1
    BY <2>1, <2>2, <1>0 DEF IsList
  <2>3. CASE i = k - 1
    BY <2>1, <2>3, <1>0 DEF IsList
  <2>4. CASE i >= k
    <3>1. i + 1 \in 1..n /\ q2[i] = q[i + 1] /\ (i < n' => q2[i + 1] = q[i + 2])
      BY <2>4, <1>0, <1>b
    <3>2. q[i + 1] # prev_free_block[q[k]]
      <4>1. prev_free_block[q[k]] = IF k > 1 THEN q[k - 1] ELSE NoBlock
        BY DEF IsList
      <4>2. k > 1 => k - 1 \in 1..n /\ k - 1 # i + 1
        BY <2>4, <1>0
      <4> QED BY <4>1, <4>2, <3>1, <1>a, <1>0
    <3>3. next_free_block[q[i + 1]] = IF i + 1 < n THEN q[i + 1 + 1] ELSE NoBlock
      BY <3>1 DEF IsList
    <3> QED BY <2>1, <3>1, <3>2, <3>3, <1>0
  <2> QED BY <2>2, <2>3, <2>4, <1>0
<1>5. \A i \in 1..n' : prev_free_block'[q2[i]] = IF i > 1 THEN q2[i - 1] ELSE NoBlock
  <2> SUFFICES ASSUME NEW i \in 1..n'
               PROVE prev_free_block'[q2[i]] = IF i > 1 THEN q2[i - 1] ELSE NoBlock
    OBVIOUS
  <2>1. prev_free_block'[q2[i]] =
          IF q2[i] = next_free_block[q[k]] THEN prev_free_block[q[k]]
                                           ELSE prev_free_block[q2[i]]
    <3>1. q2[i] \in Blocks /\ q2[i] # q[k]
      BY <1>1
    <3> QED BY <3>1 DEF Unlink, PrevWithout
  <2>2. CASE i < k
    BY <2>1, <2>2, <1>0 DEF IsList
  <2>3. CASE i = k
    BY <2>1, <2>3, <1>0 DEF IsList
  <2>4. CASE i > k
    BY <2>1, <2>4, <1>0 DEF IsList
  <2> QED BY <2>2, <2>3, <2>4, <1>0
<1>6. free_list_head' = IF n' > 0 THEN q2[1] ELSE NoBlock
  <2>1. CASE k = 1
    BY <2>1, <1>0 DEF IsList, Unlink
  <2>2. CASE k # 1
    <3>1. free_list_head = q[1] /\ q[k] # q[1] /\ q2[1] = q[1] /\ n' > 0
      BY <2>2, <1>0, <1>a DEF IsList
    <3> QED BY <3>1 DEF Unlink
  <2> QED BY <2>1, <2>2
<1>7. free_list_tail' = IF n' > 0 THEN q2[n'] ELSE NoBlock
  BY <1>0 DEF IsList, Unlink, TailWithout
<1> QED BY <1>2, <1>3, <1>4, <1>5, <1>6, <1>7 DEF IsList
LEMMA UnlinkIInv ==
  ASSUME IInv, NEW b \in Blocks, b \notin in_use, Unlink(b)
  PROVE  /\ CountIsFree' /\ InUseUnlinked' /\ WellLinked'
         /\ num_free_blocks' \in 0..NumBlocks /\ in_use' \subseteq Blocks
         /\ prev_free_block' \in [Blocks -> Link]
         /\ next_free_block' \in [Blocks -> Link]
         /\ free_list_head' \in Link /\ free_list_tail' \in Link
<1> USE DEF IInv
<1>1. CountIsFree' /\ num_free_blocks' \in 0..NumBlocks /\ in_use' \subseteq Blocks
  <2>1. in_use \subseteq Blocks /\ in_use' \subseteq Blocks
    BY DEF TypeOK, Unlink
  <2>2. Blocks \ in_use' = (Blocks \ in_use) \ {b}
    BY DEF Unlink
  <2>3. Cardinality(Blocks \ in_use') = Cardinality(Blocks \ in_use) - 1
    BY <2>1, <2>2, FreeFinite, FS_RemoveElement
  <2> QED BY <2>1, <2>3, FreeFinite DEF CountIsFree, Unlink
<1>2. InUseUnlinked'
  <2> SUFFICES ASSUME NEW x \in in_use'
               PROVE  prev_free_block'[x] = NoBlock /\ next_free_block'[x] = NoBlock
    BY DEF InUseUnlinked
  <2>1. PICK q \in [1..num_free_blocks -> Blocks] : IsList(q)
    BY DEF WellLinked
  <2>2. PICK k \in 1..num_free_blocks : q[k] = b
    BY <2>1 DEF IsList
  <2>3. CASE x = b
    BY <2>3, <1>1 DEF Unlink, NextWithout, PrevWithout
  <2>4. CASE x # b
    <3>1. x \in Blocks /\ x \in in_use
      BY <2>4, <1>1 DEF Unlink
    <3>2. x # prev_free_block[b] /\ x # next_free_block[b]
      BY <2>1, <2>2, <3>1, NumBlocksAssumption DEF IsList, TypeOK, NoBlock, Blocks
    <3> QED BY <2>4, <3>1, <3>2 DEF Unlink, NextWithout, PrevWithout, InUseUnlinked
  <2> QED BY <2>3, <2>4
<1>3. WellLinked'
  <2>1. PICK q \in [1..num_free_blocks -> Blocks] : IsList(q)
    BY DEF WellLinked
  <2>2. PICK k \in 1..num_free_blocks : q[k] = b
    BY <2>1 DEF IsList
  <2>3. num_free_blocks \in Nat /\ num_free_blocks' = num_free_blocks - 1
    BY NumBlocksAssumption DEF TypeOK, Unlink
  <2>4. PICK q2 : q2 = [j \in 1..(num_free_blocks - 1) |->
                           IF j < k THEN q[j] ELSE q[j + 1]]
    OBVIOUS
  <2>5. q2 \in [1..(num_free_blocks - 1) -> Blocks]
    BY <2>3, <2>4
  <2>6. IsList(q2)'
    BY <2>1, <2>2, <2>4, <2>5, UnlinkList
  <2> QED BY <2>3, <2>5, <2>6 DEF WellLinked
<1> QED BY <1>1, <1>2, <1>3
     DEF TypeOK, Unlink, NextWithout, PrevWithout, TailWithout, Link

LEMMA AppendList ==
  ASSUME IInv, NEW q \in [1..num_free_blocks -> Blocks], IsList(q),
         NEW b \in Blocks, AppendBlock(b),
         NEW q2 \in [1..(num_free_blocks + 1) -> Blocks],
         \A j \in 1..num_free_blocks : q2[j] = q[j],
         q2[num_free_blocks + 1] = b
  PROVE  IsList(q2)'
<1> DEFINE n == num_free_blocks
<1> USE DEF IInv
<1>0. /\ n \in Nat /\ n' = n + 1 /\ NoBlock \notin Blocks
      /\ b \in in_use /\ b \in Blocks /\ in_use' = in_use \ {b}
  BY NumBlocksAssumption DEF TypeOK, AppendBlock, Blocks, NoBlock
<1>a. \A i, j \in 1..n : q[i] = q[j] => i = j
  BY DEF IsList
<1>b. \A i \in 1..n : q2[i] = q[i] /\ q[i] \in Blocks /\ q[i] # b
  BY <1>0 DEF IsList
<1>c. \A j \in 1..n' : j \in 1..n \/ j = n + 1
  BY <1>0
<1>d. prev_free_block[b] = NoBlock /\ next_free_block[b] = NoBlock
  BY <1>0 DEF InUseUnlinked
<1>1. \A i, j \in 1..n' : q2[i] = q2[j] => i = j
  BY <1>a, <1>b, <1>c
<1>2. \A x \in Blocks : x \notin in_use' <=> \E i \in 1..n' : q2[i] = x
  <2> SUFFICES ASSUME NEW x \in Blocks
               PROVE x \notin in_use' <=> \E i \in 1..n' : q2[i] = x
    OBVIOUS
  <2>1. n + 1 \in 1..n' /\ \A i \in 1..n : i \in 1..n'
    BY <1>0
  <2>2. CASE x = b
    BY <2>1, <2>2, <1>0
  <2>3. CASE x # b
    <3>1. x \notin in_use' <=> \E i \in 1..n : q[i] = x
      BY <2>3, <1>0 DEF IsList
    <3> QED BY <3>1, <2>1, <2>3, <1>b, <1>c
  <2> QED BY <2>2, <2>3
<1>3. CASE n = 0
  <2>1. free_list_tail = NoBlock /\ free_list_head = NoBlock
    BY <1>3 DEF IsList
  <2>2. /\ next_free_block' = [next_free_block EXCEPT ![b] = NoBlock]
        /\ free_list_head' = b /\ free_list_tail' = b
        /\ prev_free_block' = prev_free_block
    BY <2>1 DEF AppendBlock, LinkLast
  <2>3. \A i \in 1..n' : i = 1 /\ q2[i] = b
    BY <1>0, <1>3
  <2>4. next_free_block'[b] = NoBlock /\ prev_free_block'[b] = NoBlock
    BY <2>2, <1>d DEF TypeOK
  <2> QED BY <1>0, <1>1, <1>2, <1>3, <2>2, <2>3, <2>4 DEF IsList
<1>4. CASE n > 0
  <2>1. free_list_tail = q[n] /\ free_list_head = q[1] /\ n \in 1..n /\ 1 \in 1..n
    BY <1>4, <1>0 DEF IsList
  <2>2. /\ next_free_block' = [next_free_block EXCEPT ![q[n]] = b, ![b] = NoBlock]
        /\ prev_free_block' = [prev_free_block EXCEPT ![b] = q[n]]
        /\ free_list_head' = q[1] /\ free_list_tail' = b
    BY <2>1, <1>0, <1>b DEF AppendBlock, LinkLast
  <2>3. ASSUME NEW i \in 1..n'
        PROVE  next_free_block'[q2[i]] = IF i < n' THEN q2[i + 1] ELSE NoBlock
    <3>1. CASE i = n + 1
      BY <3>1, <2>2, <1>0 DEF TypeOK
    <3>2. CASE i = n
      BY <3>2, <2>1, <2>2, <1>0, <1>b DEF TypeOK
    <3>3. CASE i < n
      <4>1. i \in 1..n /\ i + 1 \in 1..n /\ q[i] # q[n]
        BY <3>3, <1>0, <1>a, <2>1
      <4>2. next_free_block'[q[i]] = next_free_block[q[i]]
        BY <4>1, <2>2, <1>b DEF TypeOK
      <4>3. next_free_block[q[i]] = q[i + 1]
        BY <4>1, <3>3 DEF IsList
      <4> QED BY <4>1, <4>2, <4>3, <1>b, <1>0, <3>3
    <3> QED BY <3>1, <3>2, <3>3, <1>0
  <2>4. ASSUME NEW i \in 1..n'
        PROVE  prev_free_block'[q2[i]] = IF i > 1 THEN q2[i - 1] ELSE NoBlock
    <3>1. CASE i = n + 1
      BY <3>1, <2>1, <2>2, <1>0, <1>4, <1>b DEF TypeOK
    <3>2. CASE i \in 1..n
      <4>1. prev_free_block'[q[i]] = prev_free_block[q[i]]
        BY <3>2, <2>2, <1>b DEF TypeOK
      <4>2. prev_free_block[q[i]] = IF i > 1 THEN q[i - 1] ELSE NoBlock
        BY <3>2 DEF IsList
      <4>3. i > 1 => i - 1 \in 1..n
        BY <3>2, <1>0
      <4> QED BY <4>1, <4>2, <4>3, <1>b, <3>2
    <3> QED BY <3>1, <3>2, <1>c
  <2>5. free_list_head' = q2[1] /\ free_list_tail' = q2[n'] /\ n' > 0
    BY <2>1, <2>2, <1>0, <1>b
  <2> QED BY <1>1, <1>2, <2>3, <2>4, <2>5 DEF IsList
<1> QED BY <1>3, <1>4, <1>0

LEMMA AppendIInv ==
  ASSUME IInv, NEW b \in Blocks, AppendBlock(b)
  PROVE  IInv'
<1> USE DEF IInv
<1>0. /\ b \in in_use /\ in_use' = in_use \ {b} /\ in_use \subseteq Blocks
      /\ num_free_blocks' = num_free_blocks + 1 /\ num_free_blocks \in Nat
      /\ free_list_tail' = b
  BY NumBlocksAssumption DEF AppendBlock, TypeOK, LinkLast
<1>1. CountIsFree' /\ num_free_blocks' \in 0..NumBlocks
  <2>1. Blocks \ in_use' = (Blocks \ in_use) \cup {b}
    BY <1>0
  <2>2. Cardinality(Blocks \ in_use') = Cardinality(Blocks \ in_use) + 1
    BY <1>0, <2>1, FreeFinite, FS_AddElement
  <2> QED BY <1>0, <2>2, FreeFinite DEF CountIsFree
<1>2. PICK q \in [1..num_free_blocks -> Blocks] : IsList(q)
  BY DEF WellLinked
<1>3. InUseUnlinked'
  <2> SUFFICES ASSUME NEW x \in in_use'
               PROVE  prev_free_block'[x] = NoBlock /\ next_free_block'[x] = NoBlock
    BY DEF InUseUnlinked
  <2>1. x \in in_use /\ x # b /\ x \in Blocks
    BY <1>0
  <2>2. \A i \in 1..num_free_blocks : q[i] # x
    BY <2>1, <1>2 DEF IsList
  <2>3. x # free_list_tail
    <3>1. CASE num_free_blocks = 0
      BY <3>1, <1>2, <2>1, NumBlocksAssumption DEF IsList, NoBlock, Blocks
    <3>2. CASE num_free_blocks # 0
      BY <3>2, <1>0, <1>2, <2>2 DEF IsList
    <3> QED BY <3>1, <3>2
  <2> QED BY <2>1, <2>3 DEF AppendBlock, LinkLast, InUseUnlinked, TypeOK
<1>4. WellLinked'
  <2>1. PICK q2 : q2 = [j \in 1..(num_free_blocks + 1) |->
                           IF j = num_free_blocks + 1 THEN b ELSE q[j]]
    OBVIOUS
  <2>2. /\ q2 \in [1..(num_free_blocks + 1) -> Blocks]
        /\ \A j \in 1..num_free_blocks : q2[j] = q[j]
        /\ q2[num_free_blocks + 1] = b
    BY <1>0, <2>1
  <2>3. IsList(q2)'
    BY <1>2, <2>2, AppendList
  <2> QED BY <1>0, <2>2, <2>3 DEF WellLinked
<1>5. TypeOK'
  BY <1>0, <1>1 DEF AppendBlock, LinkLast, TypeOK, Link
<1> QED BY <1>1, <1>3, <1>4, <1>5

LEMMA NextIInv == IInv /\ [Next]_vars => IInv'
<1> SUFFICES ASSUME IInv, [Next]_vars PROVE IInv'
  OBVIOUS
<1>1. CASE PopLeft
  <2>1. free_list_head \in Blocks /\ free_list_head \notin in_use
    BY <1>1 DEF PopLeft, IInv, TypeOK, Link, WellLinked, IsList
  <2> QED BY <1>1, <2>1, UnlinkIInv DEF PopLeft, IInv, TypeOK, Link
<1>2. ASSUME NEW b \in Blocks, Remove(b) PROVE IInv'
  BY <1>2, UnlinkIInv DEF Remove, IInv, TypeOK, Link
<1>3. ASSUME NEW b \in Blocks, AppendBlock(b) PROVE IInv'
  BY <1>3, AppendIInv
<1>4. CASE UNCHANGED vars
  <2>1. TypeOK' /\ CountIsFree' /\ InUseUnlinked'
    BY <1>4 DEF vars, IInv, TypeOK, CountIsFree, InUseUnlinked
  <2>2. PICK q \in [1..num_free_blocks -> Blocks] : IsList(q)
    BY DEF IInv, WellLinked
  <2>3. IsList(q)' /\ num_free_blocks' = num_free_blocks
    BY <1>4, <2>2 DEF vars, IsList
  <2>4. WellLinked'
    BY <2>2, <2>3 DEF WellLinked
  <2> QED BY <2>1, <2>4 DEF IInv
<1> QED BY <1>1, <1>2, <1>3, <1>4 DEF Next

\* For any number of blocks and any sequence of popleft, remove and append the
\* links of kv_cache_utils.py stay one well-formed list of exactly the free
\* blocks, and the fields have their types.
THEOREM ListCorrect == Spec => [](TypeOK /\ InUseUnlinked /\ WellLinked)
<1>1. IInv => TypeOK /\ InUseUnlinked /\ WellLinked
  BY DEF IInv
<1> QED BY <1>1, InitIInv, NextIInv, PTL DEF Spec

\* num_free_blocks, head and tail agree about how many blocks are left, so
\* popleft never meets an empty list when get_new_blocks has checked the count.
THEOREM CountCorrect == Spec => []CountIsExact
<1>1. IInv => CountIsExact
  <2> SUFFICES ASSUME IInv PROVE CountIsExact
    OBVIOUS
  <2> USE DEF IInv
  <2>1. PICK q \in [1..num_free_blocks -> Blocks] : IsList(q)
    BY DEF WellLinked
  <2>2. num_free_blocks \in Nat /\ NoBlock \notin Blocks /\ in_use \subseteq Blocks
    BY NumBlocksAssumption DEF TypeOK, NoBlock, Blocks
  <2>3. CASE num_free_blocks = 0
    <3>1. \A b \in Blocks : b \in in_use
      BY <2>1, <2>3 DEF IsList
    <3>2. in_use = Blocks
      BY <3>1, <2>2
    <3>3. free_list_head = NoBlock /\ free_list_tail = NoBlock
      BY <2>1, <2>3 DEF IsList
    <3> QED BY <3>2, <3>3 DEF CountIsExact, CountIsFree
  <2>4. CASE num_free_blocks > 0
    <3>1. 1 \in 1..num_free_blocks /\ num_free_blocks \in 1..num_free_blocks
      BY <2>2, <2>4
    <3>2. q[1] \in Blocks \ in_use /\ free_list_head # NoBlock /\ free_list_tail # NoBlock
      BY <2>1, <2>2, <2>4, <3>1 DEF IsList
    <3> QED BY <3>2 DEF CountIsExact, CountIsFree
  <2> QED BY <2>2, <2>3, <2>4
<1> QED BY <1>1, InitIInv, NextIInv, PTL DEF Spec

-----------------------------------------------------------------------------
\* q is the free list as a sequence; the steps of FreeBlockQueueSpec on it.
ListSeq(q) == q \in Seq(Blocks) /\ Len(q) = num_free_blocks /\ IsList(q)

DropAt(q, i) == [j \in 1..(Len(q) - 1) |-> IF j < i THEN q[j] ELSE q[j + 1]]

QueueStep(q, q2) ==
  \/ /\ q # << >> /\ q2 = Tail(q)
     /\ ret' = [op |-> "popleft", block |-> Head(q)]
  \/ \E i \in 1..Len(q) :
       /\ q2 = DropAt(q, i) /\ ret' = [op |-> "remove", block |-> q[i]]
  \/ \E b \in Blocks :
       /\ \A i \in 1..Len(q) : q[i] # b
       /\ q2 = Append(q, b) /\ ret' = [op |-> "append", block |-> b]

Simulates == \A q : ListSeq(q) => \E q2 : ListSeq(q2)' /\ QueueStep(q, q2)

LEMMA DropAtType ==
  ASSUME NEW q \in Seq(Blocks), NEW k \in 1..Len(q)
  PROVE  /\ DropAt(q, k) \in Seq(Blocks)
         /\ Len(DropAt(q, k)) = Len(q) - 1
         /\ DropAt(q, k) \in [1..(Len(q) - 1) -> Blocks]
         /\ \A j \in 1..(Len(q) - 1) :
              DropAt(q, k)[j] = IF j < k THEN q[j] ELSE q[j + 1]
<1>1. Len(q) \in Nat /\ \A j \in 1..Len(q) : q[j] \in Blocks
  OBVIOUS
<1>2. \A j \in 1..(Len(q) - 1) : (IF j < k THEN q[j] ELSE q[j + 1]) \in Blocks
  BY <1>1
<1> QED BY <1>1, <1>2 DEF DropAt

LEMMA StepSimulates == IInv /\ Next => Simulates
<1> SUFFICES ASSUME IInv, Next, NEW q, ListSeq(q)
             PROVE  \E q2 : ListSeq(q2)' /\ QueueStep(q, q2)
  BY DEF Simulates
<1>0. /\ q \in Seq(Blocks) /\ Len(q) = num_free_blocks /\ IsList(q)
      /\ Len(q) \in Nat /\ q \in [1..num_free_blocks -> Blocks]
  BY DEF ListSeq
<1>1. ASSUME NEW k \in 1..Len(q), Unlink(q[k])
      PROVE  ListSeq(DropAt(q, k))'
  <2>0. PICK q2 : q2 = DropAt(q, k)
    OBVIOUS
  <2>1. num_free_blocks' = num_free_blocks - 1
    BY <1>1 DEF Unlink
  <2>2. /\ q2 \in Seq(Blocks) /\ Len(q2) = Len(q) - 1
        /\ q2 \in [1..(num_free_blocks - 1) -> Blocks]
        /\ \A j \in 1..(num_free_blocks - 1) :
              q2[j] = IF j < k THEN q[j] ELSE q[j + 1]
    BY <1>0, <2>0, DropAtType
  <2>3. IsList(q2)'
    BY <1>0, <1>1, <2>2, UnlinkList
  <2> QED BY <1>0, <2>0, <2>1, <2>2, <2>3 DEF ListSeq
<1>2. CASE PopLeft
  <2>1. q # << >> /\ 1 \in 1..Len(q) /\ free_list_head = q[1]
    BY <1>0, <1>2 DEF PopLeft, IsList
  <2>2. Tail(q) = DropAt(q, 1) /\ Head(q) = q[1]
    <3>1. /\ Tail(q) \in Seq(Blocks) /\ Len(Tail(q)) = Len(q) - 1
          /\ \A j \in 1..(Len(q) - 1) : Tail(q)[j] = q[j + 1]
      BY <1>0, <2>1, HeadTailProperties
    <3>2. /\ DropAt(q, 1) \in Seq(Blocks) /\ Len(DropAt(q, 1)) = Len(q) - 1
          /\ \A j \in 1..(Len(q) - 1) : DropAt(q, 1)[j] = q[j + 1]
      BY <1>0, <2>1, DropAtType
    <3> QED BY <3>1, <3>2, SeqEqual
  <2>3. ListSeq(DropAt(q, 1))'
    BY <1>1, <1>2, <2>1 DEF PopLeft
  <2>4. QueueStep(q, DropAt(q, 1))
    BY <1>2, <2>1, <2>2 DEF PopLeft, QueueStep
  <2> QED BY <2>3, <2>4
<1>3. ASSUME NEW b \in Blocks, Remove(b)
      PROVE  \E q2 : ListSeq(q2)' /\ QueueStep(q, q2)
  <2>1. PICK k \in 1..Len(q) : q[k] = b
    BY <1>0, <1>3 DEF Remove, IsList
  <2>2. ListSeq(DropAt(q, k))'
    BY <1>1, <1>3, <2>1 DEF Remove
  <2>3. QueueStep(q, DropAt(q, k))
    BY <1>3, <2>1 DEF Remove, QueueStep
  <2> QED BY <2>2, <2>3
<1>4. ASSUME NEW b \in Blocks, AppendBlock(b)
      PROVE  \E q2 : ListSeq(q2)' /\ QueueStep(q, q2)
  <2>0. PICK q2 : q2 = Append(q, b)
    OBVIOUS
  <2>1. num_free_blocks' = num_free_blocks + 1 /\ b \in in_use
    BY <1>4 DEF AppendBlock
  <2>2. /\ q2 \in Seq(Blocks) /\ Len(q2) = num_free_blocks + 1
        /\ q2 \in [1..(num_free_blocks + 1) -> Blocks]
        /\ \A j \in 1..num_free_blocks : q2[j] = q[j]
        /\ q2[num_free_blocks + 1] = b
    <3>1. /\ q2 \in Seq(Blocks) /\ Len(q2) = Len(q) + 1
          /\ \A j \in 1..Len(q) : q2[j] = q[j]
          /\ q2[Len(q) + 1] = b
      BY <1>0, <2>0, AppendProperties
    <3>2. q2 \in [1..Len(q2) -> Blocks]
      BY <3>1, LenProperties
    <3> QED BY <1>0, <3>1, <3>2
  <2>3. IsList(q2)'
    BY <1>0, <1>4, <2>2, AppendList
  <2>4. ListSeq(q2)'
    BY <2>1, <2>2, <2>3 DEF ListSeq
  <2>5. \A i \in 1..Len(q) : q[i] # b
    BY <1>0, <2>1 DEF IsList
  <2>6. QueueStep(q, q2)
    BY <1>4, <2>0, <2>5 DEF AppendBlock, QueueStep
  <2> QED BY <2>4, <2>6
<1> QED BY <1>2, <1>3, <1>4 DEF Next

\* Every call on the linked list is the corresponding call on the sequence of
\* free blocks: popleft returns and drops its first element, remove takes one
\* out and keeps the order of the rest, append adds at the end.  This is the
\* step of FreeBlockQueueSpec, for every number of blocks.
THEOREM ListSimulatesQueue == Spec => [][Simulates]_vars
<1>1. IInv /\ [Next]_vars => [Simulates]_vars
  BY StepSimulates
<1> QED BY <1>1, InitIInv, NextIInv, PTL DEF Spec
=============================================================================
