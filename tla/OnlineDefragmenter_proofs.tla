--------------------- MODULE OnlineDefragmenter_proofs ---------------------
(***************************************************************************)
(* The online defragmenter, for every number of blocks and requests.  The  *)
(* inductive invariant has two parts.  Accounting is about the tables and  *)
(* the counts and holds whatever clients do: that the counts are exact is  *)
(* needed to show that none becomes negative, and that the null block is   *)
(* in no list to show that it is never moved.  Ownership relates them to   *)
(* the blocks the scheduler handed out, and needs that no id is used again *)
(* before the workers heard of its end.                                    *)
(***************************************************************************)
EXTENDS OnlineDefragmenter, FiniteSetTheorems, TLAPS

\* What is left to do for an output: nothing outside update_state, and new
\* blocks still fit the bound on entries.
OutputFits ==
  /\ output.phase # "update" => output.new = {} /\ output.finished = {}
  /\ output.phase = "idle" => output.fresh = {}
  /\ \A b \in output.new : req_blocks[output.req][b] < MaxEntries
NullNotListed == \A r \in Req : req_blocks[r][NullBlock] = 0
Accounting ==
  TypeOK /\ MappingIsPermutation /\ UsedIsReferenced /\ OutputFits /\ NullNotListed

\* Who holds blocks is running, who finished does not, and what is held is in
\* req_blocks or about to be.
HeldAreListed ==
  /\ \A r \in Req : held[r] # {} => status[r] = "running"
  /\ \A r \in finished_req_ids \cup output.finished : status[r] = "unknown"
  /\ \A r \in Req : \A b \in held[r] :
       req_blocks[r][b] > 0 \/ (output.req = r /\ b \in output.new)
\* The contents of a block count from the end of the pass that writes it.
ContentsKept ==
  \A b \in written \ output.fresh :
    PrefixCaching \/ (\E r \in Req : b \in held[r]) => kv_caches[resolve(b)] = b
Ownership == HeldAreListed /\ ContentsKept

-----------------------------------------------------------------------------
\* Places are numbers, and sets of places are finite.
LEMMA BlocksFinite ==
  /\ \A b \in Blocks : b \in Nat
  /\ NullBlock \in Blocks
  /\ \A S \in SUBSET Blocks : IsFiniteSet(S) /\ Cardinality(S) \in Nat
<1>1. IsFiniteSet(Blocks)
  <2>1. 0 \in Int /\ NumBlocks - 1 \in Int
    BY DefragAssumption
  <2> QED BY <2>1, FS_Interval DEF Blocks
<1>2. \A S \in SUBSET Blocks : IsFiniteSet(S)
  BY <1>1, FS_Subset
<1>3. \A S \in SUBSET Blocks : Cardinality(S) \in Nat
  BY <1>2, FS_CardinalityType
<1> QED BY <1>2, <1>3, DefragAssumption DEF Blocks, NullBlock

\* A proper subset of places is smaller.
LEMMA SmallerSet ==
  ASSUME NEW S \in SUBSET Blocks, NEW T \in SUBSET S, NEW x \in S, x \notin T
  PROVE  Cardinality(T) # Cardinality(S)
<1>1. IsFiniteSet(S) /\ T \in SUBSET (S \ {x}) /\ S \ {x} \in SUBSET Blocks
  BY BlocksFinite
<1>2. Cardinality(S \ {x}) = Cardinality(S) - 1
  BY <1>1, FS_RemoveElement
<1>3. Cardinality(T) <= Cardinality(S \ {x})
  BY <1>1, FS_Subset, BlocksFinite
<1>4. Cardinality(T) \in Nat /\ Cardinality(S) \in Nat
  BY <1>1, BlocksFinite
<1> QED BY <1>2, <1>3, <1>4

\* A place is in at most one pair of to_swap, and on one side of it.
LEMMA PairsAreDisjoint ==
  ASSUME TypeOK
  PROVE  /\ \A u, f, g \in Blocks : to_swap(u, f) /\ to_swap(u, g) => f = g
         /\ \A u, v, f \in Blocks : to_swap(u, f) /\ to_swap(v, f) => u = v
         /\ \A u, f \in Blocks : to_swap(u, f) => u \in Used /\ f \in FreePlaces /\ f < u
<1>1. \A u, f \in Blocks : to_swap(u, f) =>
         /\ u \in Used /\ f \in FreePlaces /\ f < u
         /\ Cardinality(UsedAbove(u)) = Cardinality(FreeBelow(f))
  BY DEF to_swap
<1>2. ASSUME NEW f \in FreePlaces, NEW g \in FreePlaces, f < g
      PROVE  Cardinality(FreeBelow(f)) # Cardinality(FreeBelow(g))
  <2>1. /\ FreeBelow(g) \in SUBSET Blocks /\ FreeBelow(f) \in SUBSET FreeBelow(g)
        /\ f \in FreeBelow(g) /\ f \notin FreeBelow(f)
    BY <1>2, BlocksFinite DEF FreeBelow, FreePlaces
  <2> QED BY <2>1, SmallerSet
<1>3. ASSUME NEW u \in Used, NEW v \in Used, u < v
      PROVE  Cardinality(UsedAbove(u)) # Cardinality(UsedAbove(v))
  <2>1. /\ UsedAbove(u) \in SUBSET Blocks /\ UsedAbove(v) \in SUBSET UsedAbove(u)
        /\ v \in UsedAbove(u) /\ v \notin UsedAbove(v)
    BY <1>3, BlocksFinite DEF UsedAbove, Used
  <2> QED BY <2>1, SmallerSet
<1>4. \A x, y \in Blocks : x < y \/ y < x \/ x = y
  BY BlocksFinite
<1> QED BY <1>1, <1>2, <1>3, <1>4

\* Places change contents in pairs: the partner of a partner is the place itself.
LEMMA PartnerIsInvolution ==
  ASSUME TypeOK, NEW p \in Blocks
  PROVE  /\ Partner(p) \in Blocks
         /\ Partner(Partner(p)) = p
         /\ Partner(p) # p => IsSwapped(p)
         /\ IsSwapped(p) => to_swap(p, Partner(p)) \/ to_swap(Partner(p), p)
<1>1. CASE ~IsSwapped(p)
  BY <1>1 DEF Partner
<1>2. CASE IsSwapped(p)
  <2>1. PICK q \in Blocks : to_swap(p, q) \/ to_swap(q, p)
    BY <1>2 DEF IsSwapped
  <2>2. /\ Partner(p) \in Blocks
        /\ to_swap(p, Partner(p)) \/ to_swap(Partner(p), p)
    BY <1>2, <2>1 DEF Partner
  <2>3. IsSwapped(Partner(p))
    BY <2>2 DEF IsSwapped
  <2>4. /\ Partner(Partner(p)) \in Blocks
        /\ \/ to_swap(Partner(p), Partner(Partner(p)))
           \/ to_swap(Partner(Partner(p)), Partner(p))
    BY <2>2, <2>3 DEF Partner
  <2>5. \A x \in Blocks : ~(x \in Used /\ x \in FreePlaces)
    BY DEF FreePlaces
  <2>6. Partner(Partner(p)) = p
    BY <2>2, <2>4, <2>5, PairsAreDisjoint
  <2> QED BY <1>2, <2>2, <2>6
<1> QED BY <1>1, <1>2

\* The entries for a place are finitely many, and none means a count of 0.
LEMMA EntriesFinite ==
  ASSUME TypeOK, NEW p \in Blocks
  PROVE  /\ IsFiniteSet(Entries(p))
         /\ Cardinality(Entries(p)) \in Nat
         /\ \A r \in Req : req_blocks[r][unresolve(p)] > 0 => Entries(p) # {}
<1>1. IsFiniteSet(1..MaxEntries)
  <2>1. 1 \in Int /\ MaxEntries \in Int
    BY DefragAssumption
  <2> QED BY <2>1, FS_Interval
<1>2. IsFiniteSet(Req \X (1..MaxEntries))
  BY <1>1, FS_Product, DefragAssumption
<1>3. Entries(p) \in SUBSET (Req \X (1..MaxEntries))
  BY DEF Entries
<1>4. IsFiniteSet(Entries(p))
  BY <1>2, <1>3, FS_Subset
<1>5. Cardinality(Entries(p)) \in Nat
  BY <1>4, FS_CardinalityType
<1>6. ASSUME NEW r \in Req, req_blocks[r][unresolve(p)] > 0
      PROVE  Entries(p) # {}
  <2>1. req_blocks[r][unresolve(p)] \in 0..MaxEntries
    BY DEF TypeOK, unresolve
  <2>2. <<r, 1>> \in Req \X (1..MaxEntries) /\ 1 <= req_blocks[r][unresolve(p)]
    BY <1>6, <2>1, DefragAssumption
  <2>3. <<r, 1>> \in Entries(p)
    BY <2>2 DEF Entries
  <2> QED BY <2>3
<1> QED BY <1>4, <1>5, <1>6

\* One more in a list is one more entry.
LEMMA EntriesAfterUse ==
  ASSUME Accounting, UseBlocks, NEW p \in Blocks
  PROVE  used_blocks'[p] = Cardinality(Entries(p)')
<1> DEFINE b == unresolve(p)
<1> DEFINE r == output.req
<1> DEFINE e == <<r, req_blocks[r][b] + 1>>
<1>1. b \in Blocks /\ r \in Req /\ b = unresolve(p)' /\ used_blocks[p] = Cardinality(Entries(p))
  BY DEF Accounting, TypeOK, UsedIsReferenced, UseBlocks, unresolve
<1>2. used_blocks'[p] = IF b \in output.new THEN used_blocks[p] + 1 ELSE used_blocks[p]
  BY DEF UseBlocks, use_blocks
<1>3. \A q \in Req : req_blocks[q][b] \in 0..MaxEntries
  BY <1>1 DEF Accounting, TypeOK
<1>4. \A q \in Req : req_blocks'[q][b] =
        IF q = r /\ b \in output.new THEN req_blocks[q][b] + 1 ELSE req_blocks[q][b]
  BY <1>1 DEF Accounting, TypeOK, UseBlocks
<1>5. Entries(p)' = {x \in Req \X (1..MaxEntries) : x[2] <= req_blocks'[x[1]][b]}
  BY <1>1 DEF Entries
<1>6. Entries(p) = {x \in Req \X (1..MaxEntries) : x[2] <= req_blocks[x[1]][b]}
  BY DEF Entries
<1>7. CASE b \notin output.new
  <2>1. Entries(p)' = Entries(p)
    BY <1>4, <1>5, <1>6, <1>7
  <2> QED BY <1>1, <1>2, <1>7, <2>1
<1>8. CASE b \in output.new
  <2>1. req_blocks[r][b] < MaxEntries
    BY <1>8 DEF Accounting, OutputFits
  <2>2. e \in Req \X (1..MaxEntries) /\ e \notin Entries(p)
    BY <1>1, <1>3, <1>6, <2>1, DefragAssumption
  <2>3. Entries(p)' = Entries(p) \cup {e}
    <3>1. ASSUME NEW x \in Req \X (1..MaxEntries)
          PROVE  x[2] <= req_blocks'[x[1]][b] <=> x[2] <= req_blocks[x[1]][b] \/ x = e
      <4>1. x = <<x[1], x[2]>> /\ x[1] \in Req /\ x[2] \in 1..MaxEntries
        OBVIOUS
      <4>2. CASE x[1] # r
        BY <1>4, <4>1, <4>2
      <4>3. CASE x[1] = r
        <5>1. req_blocks'[x[1]][b] = req_blocks[r][b] + 1
          BY <1>4, <1>1, <1>8, <4>3
        <5>2. req_blocks[r][b] \in Nat /\ x[2] \in Nat
          BY <1>3, <1>1, <4>1
        <5>3. x = e <=> x[2] = req_blocks[r][b] + 1
          BY <4>1, <4>3
        <5> QED BY <4>3, <5>1, <5>2, <5>3
      <4> QED BY <4>2, <4>3
    <3> HIDE DEF e, b, r
    <3> QED BY <1>5, <1>6, <2>2, <3>1
  <2>4. IsFiniteSet(Entries(p))
    BY EntriesFinite DEF Accounting
  <2>5. Cardinality(Entries(p)') = Cardinality(Entries(p)) + 1
    BY <2>2, <2>3, <2>4, FS_AddElement
  <2> QED BY <1>1, <1>2, <1>8, <2>5
<1> QED BY <1>7, <1>8

\* The entries of a request are as many as its list has of the block.
LEMMA EntriesAfterForget ==
  ASSUME Accounting, NEW r \in Req, ForgetFinished(r), NEW p \in Blocks
  PROVE  /\ used_blocks'[p] = Cardinality(Entries(p)')
         /\ used_blocks'[p] \in Nat
<1> DEFINE b == unresolve(p)
<1> DEFINE n == req_blocks[r][b]
<1> DEFINE E == {r} \X (1..n)
<1>1. b \in Blocks /\ b = unresolve(p)' /\ used_blocks[p] = Cardinality(Entries(p))
  BY DEF Accounting, TypeOK, UsedIsReferenced, ForgetFinished, unresolve
<1>2. used_blocks'[p] = used_blocks[p] - n
  BY DEF ForgetFinished, free_blocks_of
<1>3. \A q \in Req : req_blocks[q][b] \in 0..MaxEntries
  BY <1>1 DEF Accounting, TypeOK
<1>4. \A q \in Req : req_blocks'[q][b] = IF q = r THEN 0 ELSE req_blocks[q][b]
  BY <1>1 DEF Accounting, TypeOK, ForgetFinished, NoBlocks
<1>5. Entries(p)' = {x \in Req \X (1..MaxEntries) : x[2] <= req_blocks'[x[1]][b]}
  BY <1>1 DEF Entries
<1>6. Entries(p) = {x \in Req \X (1..MaxEntries) : x[2] <= req_blocks[x[1]][b]}
  BY DEF Entries
<1>7. E \in SUBSET Entries(p)
  <2>1. ASSUME NEW x \in E
        PROVE  x \in Entries(p)
    <3>1. x = <<x[1], x[2]>> /\ x[1] = r /\ x[2] \in 1..n
      OBVIOUS
    <3>2. x[2] \in 1..MaxEntries /\ x[2] <= req_blocks[x[1]][b]
      BY <1>3, <3>1, DefragAssumption
    <3> QED BY <1>6, <3>1, <3>2
  <2> QED BY <2>1
<1>8. Entries(p)' = Entries(p) \ E
  <2>1. ASSUME NEW x \in Req \X (1..MaxEntries)
        PROVE  x[2] <= req_blocks'[x[1]][b] <=> x[2] <= req_blocks[x[1]][b] /\ x \notin E
    <3>1. x = <<x[1], x[2]>> /\ x[1] \in Req /\ x[2] \in 1..MaxEntries
      OBVIOUS
    <3>2. x \in E <=> x[1] = r /\ x[2] \in 1..n
      BY <3>1
    <3>3. CASE x[1] # r
      BY <1>4, <3>1, <3>2, <3>3
    <3>4. CASE x[1] = r
      BY <1>3, <1>4, <3>1, <3>2, <3>4
    <3> QED BY <3>3, <3>4
  <2> HIDE DEF E, b
  <2> QED BY <1>5, <1>6, <2>1
<1>9. IsFiniteSet(E) /\ Cardinality(E) = n
  <2>1. n \in Nat /\ n \in Int /\ 1 \in Int
    BY <1>3
  <2>2. IsFiniteSet(1..n) /\ Cardinality(1..n) = n
    <3> HIDE DEF n
    <3>1. /\ IsFiniteSet(1..n)
          /\ Cardinality(1..n) = IF 1 > n THEN 0 ELSE n - 1 + 1
      BY <2>1, FS_Interval
    <3> QED BY <2>1, <3>1
  <2>3. IsFiniteSet({r}) /\ Cardinality({r}) = 1
    BY FS_Singleton
  <2>4. IsFiniteSet(E) /\ Cardinality(E) = 1 * n
    BY <2>2, <2>3, FS_Product
  <2> QED BY <2>1, <2>4
<1>10. IsFiniteSet(Entries(p))
  BY EntriesFinite DEF Accounting
<1>11. Entries(p) \cap E = E
  BY <1>7
<1>12. /\ Cardinality(Entries(p)') = Cardinality(Entries(p)) - n
       /\ IsFiniteSet(Entries(p)')
  <2> HIDE DEF E, n
  <2>1. /\ IsFiniteSet(Entries(p) \ E)
        /\ Cardinality(Entries(p) \ E) = Cardinality(Entries(p)) - Cardinality(Entries(p) \cap E)
    BY <1>10, FS_Difference
  <2> QED BY <1>8, <1>9, <1>11, <2>1
<1>13. Cardinality(Entries(p)') \in Nat
  BY <1>12, FS_CardinalityType
<1> QED BY <1>1, <1>2, <1>12, <1>13

-----------------------------------------------------------------------------
\* The initial states.
LEMMA InitAccounting == Init => Accounting
<1> SUFFICES ASSUME Init PROVE Accounting
  OBVIOUS
<1> USE BlocksFinite, DefragAssumption
<1>1. TypeOK
  BY DEF Init, TypeOK, NoOutput, NoBlocks
<1>2. MappingIsPermutation
  BY DEF Init, MappingIsPermutation, Used
<1>3. UsedIsReferenced
  <2>1. ASSUME NEW p \in Blocks
        PROVE  used_blocks[p] = Cardinality(Entries(p))
    <3>1. unresolve(p) \in Blocks
      BY DEF Init, unresolve
    <3>2. \A r \in Req : req_blocks[r][unresolve(p)] = 0
      BY <3>1 DEF Init, NoBlocks
    <3>3. Entries(p) = {}
      BY <3>2 DEF Entries
    <3> QED BY <3>3, FS_EmptySet DEF Init
  <2> QED BY <2>1 DEF UsedIsReferenced
<1>4. OutputFits /\ NullNotListed
  BY DEF Init, OutputFits, NullNotListed, NoOutput, NoBlocks
<1> QED BY <1>1, <1>2, <1>3, <1>4 DEF Accounting

\* The steps of the scheduler and of the forward pass leave the tables and the
\* counts alone.
LEMMA AccountingUnchanged ==
  ASSUME Accounting, UNCHANGED defragVars, TypeOK', OutputFits'
  PROVE  Accounting'
<1>1. \A p \in Blocks : Entries(p)' = Entries(p)
  BY DEF defragVars, Entries, unresolve
<1>2. UsedIsReferenced'
  BY <1>1 DEF Accounting, UsedIsReferenced, defragVars
<1>3. MappingIsPermutation' /\ NullNotListed'
  BY DEF Accounting, MappingIsPermutation, NullNotListed, Used, defragVars
<1> QED BY <1>2, <1>3 DEF Accounting

LEMMA SchedulerKeepsAccounting ==
  ASSUME Accounting, NEW r \in Req,
         \/ AddRequest(r) \/ Preempt(r) \/ FinishRequest(r)
         \/ \E hits, fresh \in SUBSET (Blocks \ {NullBlock}) : Schedule(r, hits, fresh)
         \/ ScheduleNothing
  PROVE  Accounting'
<1> USE BlocksFinite
<1>1. CASE AddRequest(r)
  <2>1. TypeOK' /\ OutputFits' /\ UNCHANGED defragVars
    BY <1>1 DEF Accounting, TypeOK, OutputFits, AddRequest, defragVars
  <2> QED BY <2>1, AccountingUnchanged
<1>2. CASE Preempt(r)
  <2>1. TypeOK' /\ OutputFits' /\ UNCHANGED defragVars
    BY <1>2 DEF Accounting, TypeOK, OutputFits, Preempt, defragVars
  <2> QED BY <2>1, AccountingUnchanged
<1>3. CASE FinishRequest(r)
  <2>1. TypeOK' /\ OutputFits' /\ UNCHANGED defragVars
    BY <1>3 DEF Accounting, TypeOK, OutputFits, FinishRequest, defragVars
  <2> QED BY <2>1, AccountingUnchanged
<1>4. ASSUME NEW hits \in SUBSET (Blocks \ {NullBlock}),
             NEW fresh \in SUBSET (Blocks \ {NullBlock}), Schedule(r, hits, fresh)
      PROVE  Accounting'
  <2>1. TypeOK'
    BY <1>4 DEF Accounting, TypeOK, Schedule, defragVars
  <2>2. OutputFits' /\ UNCHANGED defragVars
    BY <1>4 DEF Accounting, OutputFits, Schedule, defragVars
  <2> QED BY <2>1, <2>2, AccountingUnchanged
<1>5. CASE ScheduleNothing
  <2>1. TypeOK' /\ OutputFits' /\ UNCHANGED defragVars
    BY <1>5 DEF Accounting, TypeOK, OutputFits, ScheduleNothing, defragVars
  <2> QED BY <2>1, AccountingUnchanged
<1> QED BY <1>1, <1>2, <1>3, <1>4, <1>5

LEMMA UseBlocksKeepsAccounting ==
  ASSUME Accounting, UseBlocks
  PROVE  Accounting'
<1> USE BlocksFinite, DefragAssumption DEF Accounting
<1>1. TypeOK'
  <2>1. used_blocks' \in [Blocks -> Nat]
    BY DEF TypeOK, UseBlocks, use_blocks
  <2>2. req_blocks' \in [Req -> [Blocks -> 0..MaxEntries]]
    BY DEF TypeOK, OutputFits, UseBlocks
  <2>3. mapped' \subseteq Blocks
    BY DEF TypeOK, UseBlocks, extend_mapping_table
  <2> QED BY <2>1, <2>2, <2>3 DEF TypeOK, UseBlocks, schedVars
<1>2. MappingIsPermutation'
  <2>1. \A b \in mapped' : 0..b \subseteq mapped'
    <3> SUFFICES ASSUME NEW b \in mapped', NEW c \in 0..b
                 PROVE  c \in mapped'
      OBVIOUS
    <3>1. mapped' = mapped \cup {x \in Blocks : \E y \in output.new : x <= y}
      BY DEF UseBlocks, extend_mapping_table
    <3>2. CASE b \in mapped
      BY <3>1, <3>2 DEF MappingIsPermutation
    <3>3. CASE b \notin mapped
      <4>1. PICK y \in output.new : b <= y
        BY <3>1, <3>3
      <4>2. b \in Blocks /\ y \in Blocks
        BY <3>1, <3>3 DEF TypeOK
      <4>3. c \in Blocks /\ c <= y
        BY <4>1, <4>2 DEF Blocks
      <4> QED BY <3>1, <4>3
    <3> QED BY <3>2, <3>3
  <2>2. mapped \subseteq mapped'
    BY DEF UseBlocks, extend_mapping_table
  <2>3. Used' \subseteq mapped'
    <3> SUFFICES ASSUME NEW p \in Blocks, used_blocks'[p] > 0, p \notin mapped
                 PROVE  p \in mapped'
      BY <2>2 DEF Used
    <3>1. fwd_mapping_table[p] = p /\ bwd_mapping_table[p] = p
      BY DEF TypeOK, MappingIsPermutation
    <3>2. used_blocks[p] = 0
      BY DEF TypeOK, MappingIsPermutation, Used
    <3>3. p \in output.new
      BY <3>1, <3>2 DEF UseBlocks, use_blocks, unresolve
    <3> QED BY <3>3 DEF UseBlocks, extend_mapping_table
  <2> QED BY <2>1, <2>2, <2>3 DEF MappingIsPermutation, UseBlocks
<1>3. UsedIsReferenced'
  BY EntriesAfterUse DEF UsedIsReferenced
<1>4. OutputFits'
  BY DEF TypeOK, OutputFits, UseBlocks
<1>5. NullNotListed'
  BY DEF TypeOK, NullNotListed, UseBlocks
<1> QED BY <1>1, <1>2, <1>3, <1>4, <1>5

LEMMA ForgetFinishedKeepsAccounting ==
  ASSUME Accounting, NEW r \in Req, ForgetFinished(r)
  PROVE  Accounting'
<1> USE BlocksFinite, DefragAssumption DEF Accounting
<1>1. TypeOK'
  <2>1. used_blocks' \in [Blocks -> Nat]
    <3>1. used_blocks' = [p \in Blocks |-> used_blocks'[p]]
      BY DEF ForgetFinished, free_blocks_of
    <3>2. \A p \in Blocks : used_blocks'[p] \in Nat
      BY EntriesAfterForget
    <3> QED BY <3>1, <3>2
  <2>2. req_blocks' \in [Req -> [Blocks -> 0..MaxEntries]]
    BY DEF TypeOK, ForgetFinished, NoBlocks
  <2> QED BY <2>1, <2>2 DEF TypeOK, ForgetFinished, schedVars
<1>2. MappingIsPermutation'
  <2>1. Used' \subseteq Used
    <3> SUFFICES ASSUME NEW p \in Blocks, used_blocks'[p] > 0
                 PROVE  used_blocks[p] > 0
      BY DEF Used
    <3>1. unresolve(p) \in Blocks
      BY DEF TypeOK, unresolve
    <3>2. req_blocks[r][unresolve(p)] \in Nat /\ used_blocks[p] \in Nat
      BY <3>1 DEF TypeOK
    <3> QED BY <3>2 DEF ForgetFinished, free_blocks_of
  <2> QED BY <2>1 DEF MappingIsPermutation, ForgetFinished
<1>3. UsedIsReferenced'
  BY EntriesAfterForget DEF UsedIsReferenced
<1>4. OutputFits'
  BY DEF TypeOK, OutputFits, ForgetFinished
<1>5. NullNotListed'
  BY DEF TypeOK, NullNotListed, ForgetFinished, NoBlocks
<1> QED BY <1>1, <1>2, <1>3, <1>4, <1>5

\* The null block is not used, so it has no partner; nor has a block id that the
\* tables do not hold.
LEMMA UnmovedPlaces ==
  ASSUME Accounting
  PROVE  /\ Partner(NullBlock) = NullBlock
         /\ \A p \in Blocks \ mapped : Partner(p) = p
<1> USE BlocksFinite DEF Accounting
<1>1. NullBlock \notin Used
  <2>1. unresolve(NullBlock) = NullBlock
    BY DEF TypeOK, MappingIsPermutation, unresolve
  <2>2. Entries(NullBlock) = {}
    BY <2>1 DEF Entries, NullNotListed
  <2> QED BY <2>2, FS_EmptySet DEF UsedIsReferenced, Used
<1>2. \A f \in FreePlaces : f \in Blocks /\ f # NullBlock
  BY DEF FreePlaces
<1>3. ~IsSwapped(NullBlock)
  BY <1>1, <1>2, PairsAreDisjoint DEF IsSwapped
<1>4. ASSUME NEW p \in Blocks \ mapped
      PROVE  ~IsSwapped(p)
  <2> SUFFICES ASSUME NEW q \in Blocks, to_swap(p, q) \/ to_swap(q, p)
               PROVE  FALSE
    BY DEF IsSwapped
  <2>1. CASE to_swap(p, q)
    BY <2>1, PairsAreDisjoint DEF MappingIsPermutation
  <2>2. CASE to_swap(q, p)
    <3>1. q \in mapped /\ p < q
      BY <2>2, PairsAreDisjoint DEF MappingIsPermutation
    <3>2. p \in 0..q
      BY <3>1
    <3> QED BY <3>1, <3>2 DEF MappingIsPermutation
  <2> QED BY <2>1, <2>2
<1> QED BY <1>3, <1>4 DEF Partner

LEMMA DefragmentKeepsAccounting ==
  ASSUME Accounting, Defragment
  PROVE  Accounting'
<1> USE BlocksFinite, DefragAssumption DEF Accounting
<1>1. \A p \in Blocks : Partner(p) \in Blocks /\ Partner(Partner(p)) = p
  BY PartnerIsInvolution
<1>2. TypeOK'
  <2>1. /\ used_blocks' \in [Blocks -> Nat]
        /\ fwd_mapping_table' \in [Blocks -> Blocks]
        /\ bwd_mapping_table' \in [Blocks -> Blocks]
    BY <1>1 DEF TypeOK, Defragment, NewFwd, NewBwd
  <2>2. kv_caches' \in [Blocks -> Blocks]
    BY <1>1 DEF TypeOK, Defragment, SwappedCaches
  <2> QED BY <2>1, <2>2 DEF TypeOK, Defragment, schedVars
<1>3. MappingIsPermutation'
  <2>1. /\ \A b \in Blocks : fwd_mapping_table'[b] = Partner(fwd_mapping_table[b])
        /\ \A p \in Blocks : bwd_mapping_table'[p] = bwd_mapping_table[Partner(p)]
        /\ \A p \in Blocks : used_blocks'[p] = used_blocks[Partner(p)]
        /\ mapped' = mapped
    BY DEF Defragment, NewFwd, NewBwd
  <2>2. \A b \in Blocks : fwd_mapping_table[b] \in Blocks /\ bwd_mapping_table[b] \in Blocks
    BY DEF TypeOK
  <2>3. \A b \in Blocks : bwd_mapping_table'[fwd_mapping_table'[b]] = b
    BY <1>1, <2>1, <2>2 DEF MappingIsPermutation
  <2>4. \A p \in Blocks : fwd_mapping_table'[bwd_mapping_table'[p]] = p
    BY <1>1, <2>1, <2>2 DEF MappingIsPermutation
  <2>5. fwd_mapping_table'[NullBlock] = NullBlock
    BY <2>1, UnmovedPlaces DEF MappingIsPermutation
  <2>6. \A b \in Blocks \ mapped : fwd_mapping_table'[b] = b
    BY <2>1, UnmovedPlaces DEF MappingIsPermutation
  <2>7. Used' \subseteq mapped
    <3> SUFFICES ASSUME NEW p \in Blocks, used_blocks'[p] > 0, p \notin mapped
                 PROVE  FALSE
      BY DEF Used
    <3>1. used_blocks[p] > 0
      BY <2>1, UnmovedPlaces
    <3> QED BY <3>1 DEF MappingIsPermutation, Used
  <2> QED BY <2>1, <2>3, <2>4, <2>5, <2>6, <2>7 DEF MappingIsPermutation
<1>4. UsedIsReferenced'
  <2>1. ASSUME NEW p \in Blocks
        PROVE  used_blocks'[p] = Cardinality(Entries(p)')
    <3>1. unresolve(p)' = unresolve(Partner(p)) /\ req_blocks' = req_blocks
      BY <1>1 DEF Defragment, NewBwd, unresolve
    <3>2. Entries(p)' = Entries(Partner(p))
      BY <3>1 DEF Entries
    <3>3. used_blocks'[p] = used_blocks[Partner(p)]
      BY DEF Defragment
    <3> QED BY <1>1, <3>2, <3>3 DEF UsedIsReferenced
  <2> QED BY <2>1 DEF UsedIsReferenced
<1>5. OutputFits' /\ NullNotListed'
  BY DEF TypeOK, OutputFits, NullNotListed, Defragment, UpdateEnds
<1> QED BY <1>2, <1>3, <1>4, <1>5

LEMMA ForwardKeepsAccounting ==
  ASSUME Accounting, LeaveAlone \/ Forward
  PROVE  Accounting'
<1>1. CASE LeaveAlone
  <2>1. TypeOK' /\ OutputFits' /\ UNCHANGED defragVars
    BY <1>1 DEF Accounting, TypeOK, OutputFits, LeaveAlone, UpdateEnds, defragVars, schedVars
  <2> QED BY <2>1, AccountingUnchanged
<1>2. CASE Forward
  <2>1. TypeOK'
    BY <1>2, BlocksFinite
       DEF Accounting, TypeOK, Forward, WrittenAt, unresolve, NoOutput, defragVars, schedVars
  <2>2. OutputFits' /\ UNCHANGED defragVars
    BY <1>2 DEF Accounting, OutputFits, Forward, NoOutput, defragVars
  <2> QED BY <2>1, <2>2, AccountingUnchanged
<1> QED BY <1>1, <1>2

LEMMA NextAccounting == Accounting /\ [Next]_vars => Accounting'
<1> SUFFICES ASSUME Accounting, [Next]_vars PROVE Accounting'
  OBVIOUS
<1>1. ASSUME NEW r \in Req,
             \/ AddRequest(r) \/ Preempt(r) \/ FinishRequest(r)
             \/ \E hits, fresh \in SUBSET (Blocks \ {NullBlock}) : Schedule(r, hits, fresh)
      PROVE  Accounting'
  BY <1>1, SchedulerKeepsAccounting
<1>2. ASSUME NEW r \in Req, ForgetFinished(r)
      PROVE  Accounting'
  BY <1>2, ForgetFinishedKeepsAccounting
<1>3. CASE ScheduleNothing
  <2>1. output.req \in Req
    BY DEF Accounting, TypeOK
  <2> QED BY <1>3, <2>1, SchedulerKeepsAccounting
<1>4. CASE UseBlocks
  BY <1>4, UseBlocksKeepsAccounting
<1>5. CASE Defragment
  BY <1>5, DefragmentKeepsAccounting
<1>6. CASE LeaveAlone \/ Forward
  BY <1>6, ForwardKeepsAccounting
<1>7. CASE UNCHANGED vars
  <2>1. TypeOK' /\ OutputFits' /\ UNCHANGED defragVars
    BY <1>7 DEF Accounting, TypeOK, OutputFits, vars, defragVars, schedVars
  <2> QED BY <2>1, AccountingUnchanged
<1> QED BY <1>1, <1>2, <1>3, <1>4, <1>5, <1>6, <1>7 DEF Next

\* The two mapping tables stay inverse permutations that leave the null block
\* alone, however often blocks are moved, for every number of blocks.
THEOREM MappingCorrect == Spec => [](TypeOK /\ MappingIsPermutation)
<1>1. Spec => []Accounting
  BY InitAccounting, NextAccounting, PTL DEF Spec
<1>2. Accounting => TypeOK /\ MappingIsPermutation
  BY DEF Accounting
<1> QED BY <1>1, <1>2, PTL

\* The reference counts stay exact while places move under the lists, so that
\* free_block never takes a count below zero or deletes a missing entry.
THEOREM CountsCorrect == Spec => []UsedIsReferenced
<1>1. Spec => []Accounting
  BY InitAccounting, NextAccounting, PTL DEF Spec
<1>2. Accounting => UsedIsReferenced
  BY DEF Accounting
<1> QED BY <1>1, <1>2, PTL

-----------------------------------------------------------------------------
\* Held blocks and contents.  Every lemma below assumes that no id is used again
\* before the workers heard that it finished.
LEMMA InitOwnership == Init => Ownership
BY DEF Init, Ownership, HeldAreListed, ContentsKept, NoOutput

LEMMA SchedulerKeepsOwnership ==
  ASSUME ~MayReuseId, Accounting, Ownership, NEW r \in Req,
         \/ AddRequest(r) \/ Preempt(r) \/ FinishRequest(r)
         \/ \E hits, fresh \in SUBSET (Blocks \ {NullBlock}) : Schedule(r, hits, fresh)
         \/ ScheduleNothing
  PROVE  Ownership'
<1> USE DEF Accounting, Ownership
<1>1. CASE AddRequest(r)
  <2>1. HeldAreListed'
    BY <1>1 DEF TypeOK, OutputFits, HeldAreListed, AddRequest, defragVars
  <2>2. ContentsKept'
    BY <1>1 DEF ContentsKept, AddRequest, defragVars, resolve
  <2> QED BY <2>1, <2>2
<1>2. CASE Preempt(r)
  <2>1. HeldAreListed'
    BY <1>2 DEF TypeOK, OutputFits, HeldAreListed, Preempt, defragVars
  <2>2. \A q \in Req : held'[q] \subseteq held[q]
    BY <1>2 DEF TypeOK, Preempt
  <2>3. ContentsKept'
    BY <1>2, <2>2 DEF ContentsKept, Preempt, defragVars, resolve
  <2> QED BY <2>1, <2>3
<1>3. CASE FinishRequest(r)
  <2>1. HeldAreListed'
    BY <1>3 DEF TypeOK, OutputFits, HeldAreListed, FinishRequest, defragVars
  <2>2. \A q \in Req : held'[q] \subseteq held[q]
    BY <1>3 DEF TypeOK, FinishRequest
  <2>3. ContentsKept'
    BY <1>3, <2>2 DEF ContentsKept, FinishRequest, defragVars, resolve
  <2> QED BY <2>1, <2>3
<1>4. ASSUME NEW hits \in SUBSET (Blocks \ {NullBlock}),
             NEW fresh \in SUBSET (Blocks \ {NullBlock}), Schedule(r, hits, fresh)
      PROVE  Ownership'
  <2>1. /\ output.phase = "idle" /\ output.new = {} /\ output.finished = {} /\ output.fresh = {}
        /\ output' = [phase |-> "update", req |-> r, new |-> hits \cup fresh,
                      finished |-> finished_req_ids, fresh |-> fresh]
        /\ held' = [held EXCEPT ![r] = @ \cup hits \cup fresh]
        /\ status' = [status EXCEPT ![r] = "running"]
        /\ status[r] # "unknown"
        /\ finished_req_ids' = {}
        /\ UNCHANGED <<defragVars, kv_caches, written>>
    BY <1>4 DEF Schedule, OutputFits
  <2>2. HeldAreListed'
    <3>1. \A q \in Req : held'[q] # {} => status'[q] = "running"
      BY <2>1 DEF TypeOK, HeldAreListed
    <3>2. \A q \in finished_req_ids' \cup output'.finished : status'[q] = "unknown"
      BY <2>1 DEF TypeOK, HeldAreListed
    <3>3. ASSUME NEW q \in Req, NEW b \in held'[q]
          PROVE  req_blocks'[q][b] > 0 \/ (output'.req = q /\ b \in output'.new)
      BY <2>1 DEF TypeOK, HeldAreListed, defragVars
    <3> QED BY <3>1, <3>2, <3>3 DEF HeldAreListed
  <2>3. ContentsKept'
    <3> SUFFICES ASSUME NEW b \in written, b \notin fresh,
                        PrefixCaching \/ \E q \in Req : b \in held'[q]
                 PROVE  kv_caches[resolve(b)] = b
      BY <2>1 DEF ContentsKept, resolve, defragVars
    <3>1. PrefixCaching \/ \E q \in Req : b \in held[q]
      <4>1. CASE PrefixCaching
        BY <4>1
      <4>2. CASE ~PrefixCaching
        <5>1. hits = {}
          BY <1>4, <4>2 DEF Schedule
        <5> QED BY <2>1, <4>2, <5>1 DEF TypeOK
      <4> QED BY <4>1, <4>2
    <3> QED BY <2>1, <3>1 DEF ContentsKept
  <2> QED BY <2>2, <2>3
<1>5. CASE ScheduleNothing
  <2>1. HeldAreListed'
    BY <1>5 DEF TypeOK, OutputFits, HeldAreListed, ScheduleNothing, defragVars
  <2>2. ContentsKept'
    BY <1>5 DEF TypeOK, ContentsKept, ScheduleNothing, defragVars, resolve
  <2> QED BY <2>1, <2>2
<1> QED BY <1>1, <1>2, <1>3, <1>4, <1>5

LEMMA UpdateKeepsOwnership ==
  ASSUME Accounting, Ownership, UseBlocks \/ \E r \in Req : ForgetFinished(r)
  PROVE  Ownership'
<1> USE DEF Accounting, Ownership
<1>1. CASE UseBlocks
  <2>1. \A r \in Req : \A b \in Blocks :
          req_blocks'[r][b] = IF r = output.req /\ b \in output.new
                              THEN req_blocks[r][b] + 1 ELSE req_blocks[r][b]
    BY <1>1 DEF TypeOK, UseBlocks
  <2>2. \A r \in Req : \A b \in held[r] : b \in Blocks /\ req_blocks[r][b] \in Nat
    BY DefragAssumption DEF TypeOK
  <2>3. /\ held' = held /\ status' = status /\ finished_req_ids' = finished_req_ids
        /\ output'.finished = output.finished /\ output'.fresh = output.fresh
        /\ kv_caches' = kv_caches /\ written' = written
        /\ fwd_mapping_table' = fwd_mapping_table
    BY <1>1 DEF TypeOK, UseBlocks, schedVars
  <2>4. HeldAreListed'
    BY <2>1, <2>2, <2>3 DEF HeldAreListed
  <2>5. ContentsKept'
    BY <2>3 DEF ContentsKept, resolve
  <2> QED BY <2>4, <2>5
<1>2. ASSUME NEW r \in Req, ForgetFinished(r)
      PROVE  Ownership'
  <2>1. held[r] = {}
    BY <1>2 DEF HeldAreListed, ForgetFinished
  <2>2. \A q \in Req : q # r => req_blocks'[q] = req_blocks[q]
    BY <1>2 DEF TypeOK, ForgetFinished
  <2>3. /\ held' = held /\ status' = status /\ finished_req_ids' = finished_req_ids
        /\ output'.finished \subseteq output.finished /\ output'.fresh = output.fresh
        /\ output'.req = output.req /\ output'.new = output.new
        /\ kv_caches' = kv_caches /\ written' = written
        /\ fwd_mapping_table' = fwd_mapping_table
    BY <1>2 DEF TypeOK, ForgetFinished, schedVars
  <2>4. HeldAreListed'
    BY <2>1, <2>2, <2>3 DEF HeldAreListed
  <2>5. ContentsKept'
    BY <2>3 DEF ContentsKept, resolve
  <2> QED BY <2>4, <2>5
<1> QED BY <1>1, <1>2

\* A held block has a count, once update_state has gone through the new blocks.
LEMMA HeldAreUsed ==
  ASSUME Accounting, Ownership, output.new = {}, NEW r \in Req, NEW b \in held[r]
  PROVE  b \in Blocks /\ resolve(b) \in Used
<1> USE DEF Accounting, Ownership
<1>1. b \in Blocks /\ resolve(b) \in Blocks /\ unresolve(resolve(b)) = b
  BY DEF TypeOK, MappingIsPermutation, resolve, unresolve
<1>2. req_blocks[r][b] > 0
  BY DEF HeldAreListed
<1>3. /\ IsFiniteSet(Entries(resolve(b))) /\ Entries(resolve(b)) # {}
      /\ Cardinality(Entries(resolve(b))) \in Nat
  BY <1>1, <1>2, EntriesFinite
<1>4. Cardinality(Entries(resolve(b))) > 0
  BY <1>3, FS_EmptySet
<1> QED BY <1>1, <1>4 DEF UsedIsReferenced, Used

LEMMA DefragmentKeepsOwnership ==
  ASSUME Accounting, Ownership, Defragment
  PROVE  Ownership'
<1> USE DEF Accounting, Ownership
<1>1. HeldAreListed'
  BY DEF TypeOK, HeldAreListed, Defragment, schedVars
<1>2. ContentsKept'
  <2> SUFFICES ASSUME NEW b \in written \ output.fresh,
                      PrefixCaching \/ \E r \in Req : b \in held[r]
               PROVE  kv_caches'[fwd_mapping_table'[b]] = b
    BY DEF TypeOK, ContentsKept, Defragment, schedVars, resolve
  <2> DEFINE p == fwd_mapping_table[b]
  <2>1. b \in Blocks /\ p \in Blocks /\ kv_caches[p] = b /\ fwd_mapping_table'[b] = Partner(p)
    BY DEF TypeOK, ContentsKept, Defragment, NewFwd, resolve
  <2>2. Partner(p) \in Blocks /\ Partner(Partner(p)) = p
    BY <2>1, PartnerIsInvolution
  <2>3. kv_caches'[Partner(p)] = IF Partner(p) \in FreePlaces \/ PrefixCaching
                                 THEN kv_caches[p] ELSE kv_caches[Partner(p)]
    BY <2>2 DEF Defragment, SwappedCaches
  <2>4. CASE PrefixCaching \/ Partner(p) = p
    BY <2>1, <2>3, <2>4
  <2>5. CASE ~PrefixCaching /\ Partner(p) # p
    <3>1. p \in Used
      BY <2>5, HeldAreUsed DEF Defragment, UpdateEnds, resolve
    <3>2. to_swap(p, Partner(p)) \/ to_swap(Partner(p), p)
      BY <2>1, <2>5, PartnerIsInvolution
    <3>3. Partner(p) \in FreePlaces
      BY <2>1, <2>2, <3>1, <3>2, PairsAreDisjoint DEF FreePlaces
    <3> QED BY <2>1, <2>3, <3>3
  <2> QED BY <2>1, <2>4, <2>5
<1> QED BY <1>1, <1>2

LEMMA ForwardKeepsOwnership ==
  ASSUME Accounting, Ownership, LeaveAlone \/ Forward
  PROVE  Ownership'
<1> USE DEF Accounting, Ownership
<1>1. CASE LeaveAlone
  <2>1. HeldAreListed'
    BY <1>1 DEF TypeOK, HeldAreListed, LeaveAlone, schedVars, defragVars
  <2>2. ContentsKept'
    BY <1>1 DEF TypeOK, ContentsKept, LeaveAlone, schedVars, defragVars, resolve
  <2> QED BY <2>1, <2>2
<1>2. CASE Forward
  <2>1. HeldAreListed'
    BY <1>2 DEF TypeOK, OutputFits, HeldAreListed, Forward, NoOutput, schedVars, defragVars
  <2>2. ContentsKept'
    <3> SUFFICES ASSUME NEW b \in written \cup output.fresh,
                        PrefixCaching \/ \E r \in Req : b \in held[r]
                 PROVE  kv_caches'[fwd_mapping_table[b]] = b
      BY <1>2 DEF ContentsKept, Forward, NoOutput, schedVars, defragVars, resolve
    <3>1. /\ b \in Blocks /\ fwd_mapping_table[b] \in Blocks
          /\ WrittenAt(fwd_mapping_table[b]) = b
      BY DEF TypeOK, MappingIsPermutation, WrittenAt, unresolve
    <3>2. kv_caches'[fwd_mapping_table[b]] =
            IF b \in output.fresh THEN b ELSE kv_caches[fwd_mapping_table[b]]
      BY <1>2, <3>1 DEF Forward
    <3> QED BY <3>2 DEF ContentsKept, resolve
  <2> QED BY <2>1, <2>2
<1> QED BY <1>1, <1>2

LEMMA NextOwnership ==
  ASSUME ~MayReuseId
  PROVE  Accounting /\ Ownership /\ [Next]_vars => Ownership'
<1> SUFFICES ASSUME Accounting, Ownership, [Next]_vars PROVE Ownership'
  OBVIOUS
<1>1. ASSUME NEW r \in Req,
             \/ AddRequest(r) \/ Preempt(r) \/ FinishRequest(r)
             \/ \E hits, fresh \in SUBSET (Blocks \ {NullBlock}) : Schedule(r, hits, fresh)
      PROVE  Ownership'
  BY <1>1, SchedulerKeepsOwnership
<1>2. CASE ScheduleNothing
  <2>1. output.req \in Req
    BY DEF Accounting, TypeOK
  <2> QED BY <1>2, <2>1, SchedulerKeepsOwnership
<1>3. CASE UseBlocks \/ \E r \in Req : ForgetFinished(r)
  BY <1>3, UpdateKeepsOwnership
<1>4. CASE Defragment
  BY <1>4, DefragmentKeepsOwnership
<1>5. CASE LeaveAlone \/ Forward
  BY <1>5, ForwardKeepsOwnership
<1>6. CASE UNCHANGED vars
  BY <1>6 DEF Ownership, HeldAreListed, ContentsKept, vars, defragVars, schedVars, resolve
<1> QED BY <1>1, <1>2, <1>3, <1>4, <1>5, <1>6 DEF Next

LEMMA OwnershipInvariant ==
  ASSUME ~MayReuseId
  PROVE  Spec => [](Accounting /\ Ownership)
<1>1. Init => Accounting /\ Ownership
  BY InitAccounting, InitOwnership
<1>2. Accounting /\ Ownership /\ [Next]_vars => (Accounting /\ Ownership)'
  BY NextAccounting, NextOwnership
<1> QED BY <1>1, <1>2, PTL DEF Spec

\* Without reuse of ids, a place that a request uses is never taken for free.
THEOREM HeldNeverFree ==
  ASSUME ~MayReuseId
  PROVE  Spec => []UsedCoversHeld
<1>1. Accounting /\ Ownership => UsedCoversHeld
  <2> SUFFICES ASSUME Accounting, Ownership, output.phase \in {"idle", "forward"},
                      NEW r \in Req, NEW b \in held[r]
               PROVE  used_blocks[resolve(b)] > 0
    BY DEF UsedCoversHeld
  <2>1. output.new = {}
    BY DEF Accounting, OutputFits
  <2> QED BY <2>1, HeldAreUsed DEF Used
<1> QED BY <1>1, OwnershipInvariant, PTL

\* Without reuse of ids, what was written under a block id is found under it,
\* for every number of blocks, requests and swaps, with and without prefix
\* caching: the one-way copy of CacheSwapUtils loses nothing that is in use.
THEOREM ContentsCorrect ==
  ASSUME ~MayReuseId
  PROVE  Spec => []ContentsFollow
<1>1. Accounting /\ Ownership => ContentsFollow
  BY DEF Accounting, OutputFits, Ownership, ContentsKept, ContentsFollow
<1> QED BY <1>1, OwnershipInvariant, PTL
=============================================================================
