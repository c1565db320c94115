------------------------- MODULE EngineCore_proofs -------------------------
(***************************************************************************)
(* The scheduler and the engine, for every set of requests and every       *)
(* choice of limits, budgets, chunks, drafts, batches in flight, structured *)
(* output, LoRAs, encoder inputs and remote blocks.                        *)
(*                                                                         *)
(* 1. The queues.  The argument does not depend on what the KV cache       *)
(* manager, the encoder cache or the connector decide: whichever way a     *)
(* request is moved, it is taken from one of the three lists (running,     *)
(* waiting, skipped) and put into the one that its new status demands, at  *)
(* an end that keeps the order of the others.                              *)
(*                                                                         *)
(* 2. The scheduler output, for one batch at a time: from schedule() to the *)
(* last answer of update_from_output() it keeps step with the requests.    *)
(*                                                                         *)
(* 3. The KV cache manager: what each of its calls makes of a manager that *)
(* is in order (ManagerOK), from what one iteration of a loop of the pool  *)
(* does (the lemmas BlockPool_proofs has for its steps).                   *)
(*                                                                         *)
(* 4. The engine: requests and manager keep step (EngineInv), beside the   *)
(* transfers of the workers (TransferInv).                                 *)
(***************************************************************************)
EXTENDS EngineCore, FiniteSetTheorems, SequenceTheorems, TLAPS

\* The order of arrival, but for requests that may be skipped; in one queue, and
\* between two.
Ordered(q) ==
  \A i, j \in DOMAIN q : i < j /\ q[i] \notin MaySkip /\ q[j] \notin MaySkip => q[i] < q[j]
Proper(q) == q \in Seq(Req) /\ IsInjective(q) /\ Ordered(q)
AheadOf(S, T) == \A a \in S \ MaySkip, b \in T \ MaySkip : a < b

-----------------------------------------------------------------------------
LEMMA RequestsAreNumbers == Req \subseteq Int
<1>1. PICK c : c = Cardinality(Req)
  OBVIOUS
<1>2. Req = 1..c
  BY <1>1, SchedulerAssumption
<1> QED
  BY <1>2

\* A sequence without its first element.
LEMMA TailProper ==
  ASSUME NEW q, Proper(q), q # << >>
  PROVE  /\ Proper(Tail(q)) /\ Head(q) \in Members(q) /\ Head(q) \in Req
         /\ Members(Tail(q)) = Members(q) \ {Head(q)}
         /\ AheadOf({Head(q)}, Members(Tail(q)))
<1>q. q \in Seq(Req) /\ IsInjective(q) /\ Ordered(q)
  BY DEF Proper
<1>n. Len(q) \in Nat \ {0} /\ DOMAIN q = 1..Len(q)
  BY <1>q
<1>t. /\ Tail(q) \in Seq(Req) /\ DOMAIN Tail(q) = 1..(Len(q) - 1)
      /\ \A i \in 1..(Len(q) - 1) : Tail(q)[i] = q[i + 1]
  BY <1>n, <1>q
<1>h. Head(q) = q[1] /\ 1 \in DOMAIN q /\ q[1] \in Req
  BY <1>n, <1>q
<1>s. \A i \in 1..(Len(q) - 1) : i + 1 \in DOMAIN q /\ 1 < i + 1 /\ i + 1 # 1
  BY <1>n
<1>1. IsInjective(Tail(q))
  <2> SUFFICES ASSUME NEW i \in 1..(Len(q) - 1), NEW j \in 1..(Len(q) - 1), q[i + 1] = q[j + 1]
               PROVE  i = j
    BY <1>t DEF IsInjective
  <2>1. i + 1 = j + 1
    BY <1>s, <1>q DEF IsInjective
  <2> QED
    BY <2>1
<1>2. Ordered(Tail(q))
  <2> SUFFICES ASSUME NEW i \in 1..(Len(q) - 1), NEW j \in 1..(Len(q) - 1), i < j,
                      q[i + 1] \notin MaySkip, q[j + 1] \notin MaySkip
               PROVE  q[i + 1] < q[j + 1]
    BY <1>t DEF Ordered
  <2>1. i + 1 < j + 1
    OBVIOUS
  <2> QED
    BY <2>1, <1>s, <1>q DEF Ordered
<1>3. Members(Tail(q)) = Members(q) \ {Head(q)}
  <2>1. ASSUME NEW x \in Members(Tail(q)) PROVE x \in Members(q) \ {Head(q)}
    <3>1. PICK i \in 1..(Len(q) - 1) : x = q[i + 1]
      BY <1>t DEF Members
    <3> QED
      BY <3>1, <1>s, <1>h, <1>q DEF Members, IsInjective
  <2>2. ASSUME NEW x \in Members(q) \ {Head(q)} PROVE x \in Members(Tail(q))
    <3>1. PICK i \in DOMAIN q : x = q[i]
      BY DEF Members
    <3>2. i # 1
      BY <3>1, <1>h
    <3>3. i - 1 \in 1..(Len(q) - 1) /\ (i - 1) + 1 = i
      BY <3>2, <1>n
    <3>4. x = Tail(q)[i - 1]
      BY <3>1, <3>3, <1>t
    <3> QED
      BY <3>3, <3>4, <1>t DEF Members
  <2> QED
    BY <2>1, <2>2
<1>4. AheadOf({Head(q)}, Members(Tail(q)))
  <2> SUFFICES ASSUME q[1] \notin MaySkip, NEW b \in Members(Tail(q)), b \notin MaySkip
               PROVE  q[1] < b
    BY <1>h DEF AheadOf
  <2>1. PICK i \in 1..(Len(q) - 1) : b = q[i + 1]
    BY <1>t DEF Members
  <2> QED
    BY <2>1, <1>s, <1>h, <1>q DEF Ordered
<1> QED
  BY <1>1, <1>2, <1>3, <1>4, <1>h, <1>t DEF Proper, Members

\* A sequence without its last element.
LEMMA FrontProper ==
  ASSUME NEW q, Proper(q), q # << >>
  PROVE  /\ Proper(Front(q)) /\ q[Len(q)] \in Members(q) /\ q[Len(q)] \in Req
         /\ Members(Front(q)) = Members(q) \ {q[Len(q)]}
         /\ AheadOf(Members(Front(q)), {q[Len(q)]})
<1>q. q \in Seq(Req) /\ IsInjective(q) /\ Ordered(q)
  BY DEF Proper
<1>m. PICK n : n = Len(q)
  OBVIOUS
<1>n. n \in Nat \ {0} /\ DOMAIN q = 1..n
  BY <1>q, <1>m
<1>f. PICK f : f = Front(q)
  OBVIOUS
<1>t. /\ f \in Seq(Req) /\ DOMAIN f = 1..(n - 1)
      /\ \A i \in 1..(n - 1) : f[i] = q[i]
  BY <1>n, <1>q, <1>m, <1>f DEF Front
<1>h. n \in DOMAIN q /\ q[n] \in Req
  BY <1>n, <1>q
<1>s. \A i \in 1..(n - 1) : i \in DOMAIN q /\ i < n /\ i # n
  BY <1>n
<1>1. IsInjective(f)
  BY <1>t, <1>s, <1>q DEF IsInjective
<1>2. Ordered(f)
  BY <1>t, <1>s, <1>q DEF Ordered
<1>3. Members(f) = Members(q) \ {q[n]}
  <2>1. ASSUME NEW x \in Members(f) PROVE x \in Members(q) \ {q[n]}
    <3>1. PICK i \in 1..(n - 1) : x = q[i]
      BY <1>t DEF Members
    <3> QED
      BY <3>1, <1>s, <1>h, <1>q DEF Members, IsInjective
  <2>2. ASSUME NEW x \in Members(q) \ {q[n]} PROVE x \in Members(f)
    <3>1. PICK i \in DOMAIN q : x = q[i]
      BY DEF Members
    <3>2. i # n
      BY <3>1
    <3>3. i \in 1..(n - 1)
      BY <3>2, <1>n
    <3> QED
      BY <3>1, <3>3, <1>t DEF Members
  <2> QED
    BY <2>1, <2>2
<1>4. AheadOf(Members(f), {q[n]})
  <2> SUFFICES ASSUME NEW b \in Members(f), b \notin MaySkip, q[n] \notin MaySkip
               PROVE  b < q[n]
    BY DEF AheadOf
  <2>1. PICK i \in 1..(n - 1) : b = q[i]
    BY <1>t DEF Members
  <2> QED
    BY <2>1, <1>s, <1>h, <1>q DEF Ordered
<1>5. q[n] \in Members(q)
  BY <1>h DEF Members
<1> QED
  BY <1>1, <1>2, <1>3, <1>4, <1>5, <1>f, <1>m, <1>h, <1>t DEF Proper

\* A sequence without one of its elements.
LEMMA WithoutProper ==
  ASSUME NEW q, Proper(q), NEW r \in Members(q)
  PROVE  Proper(Without(q, r)) /\ Members(Without(q, r)) = Members(q) \ {r}
<1>q. q \in Seq(Req) /\ IsInjective(q) /\ Ordered(q)
  BY DEF Proper
<1>n. Len(q) \in Nat /\ DOMAIN q = 1..Len(q)
  BY <1>q
<1>k. PICK k : k = IndexIn(q, r)
  OBVIOUS
<1>i. k \in DOMAIN q /\ q[k] = r
  BY <1>k DEF IndexIn, Members
<1>m. PICK n : n = Len(q) - 1
  OBVIOUS
<1>a. n \in Nat /\ k \in Nat /\ Len(q) = n + 1 /\ 1 <= k /\ k <= n + 1
  BY <1>n, <1>i, <1>m
<1>d. PICK d : d = Without(q, r)
  OBVIOUS
<1>e. d = [j \in 1..n |-> IF j < k THEN q[j] ELSE q[j + 1]]
  BY <1>d, <1>k, <1>m DEF Without, DropAt
<1>s. PICK s : s = [j \in 1..n |-> IF j < k THEN j ELSE j + 1]
  OBVIOUS
<1>1. \A j \in 1..n : s[j] \in DOMAIN q /\ s[j] # k /\ d[j] = q[s[j]]
  <2> SUFFICES ASSUME NEW j \in 1..n PROVE s[j] \in DOMAIN q /\ s[j] # k /\ d[j] = q[s[j]]
    OBVIOUS
  <2>1. CASE j < k
    BY <2>1, <1>a, <1>n, <1>e, <1>s
  <2>2. CASE ~(j < k)
    BY <2>2, <1>a, <1>n, <1>e, <1>s
  <2> QED
    BY <2>1, <2>2
<1>2. \A i, j \in 1..n : (i < j => s[i] < s[j]) /\ (s[i] = s[j] => i = j)
  BY <1>a, <1>s
<1>3. \A i \in DOMAIN q : i # k => \E j \in 1..n : s[j] = i
  <2> SUFFICES ASSUME NEW i \in DOMAIN q, i # k PROVE \E j \in 1..n : s[j] = i
    OBVIOUS
  <2>1. CASE i < k
    <3>1. i \in 1..n /\ s[i] = i
      BY <2>1, <1>a, <1>n, <1>s
    <3> QED
      BY <3>1
  <2>2. CASE ~(i < k)
    <3>1. i - 1 \in 1..n /\ ~(i - 1 < k)
      BY <2>2, <1>a, <1>n
    <3>2. s[i - 1] = i
      BY <3>1, <1>s, <1>a, <1>n
    <3> QED
      BY <3>1, <3>2
  <2> QED
    BY <2>1, <2>2
<1>4. d \in Seq(Req) /\ DOMAIN d = 1..n
  <2>1. \A j \in 1..n : d[j] \in Req
    BY <1>1, <1>n, <1>q
  <2>2. d \in [1..n -> Req]
    BY <2>1, <1>e
  <2> QED
    BY <2>2, <1>a, IsASeq
<1>5. IsInjective(d)
  BY <1>1, <1>2, <1>4, <1>q DEF IsInjective
<1>6. Ordered(d)
  BY <1>1, <1>2, <1>4, <1>q DEF Ordered
<1>7. Members(d) = Members(q) \ {r}
  <2>1. ASSUME NEW x \in Members(d) PROVE x \in Members(q) \ {r}
    <3>1. PICK j \in 1..n : x = d[j]
      BY <1>4 DEF Members
    <3> QED
      BY <3>1, <1>1, <1>i, <1>q DEF Members, IsInjective
  <2>2. ASSUME NEW x \in Members(q) \ {r} PROVE x \in Members(d)
    <3>1. PICK i \in DOMAIN q : x = q[i] /\ i # k
      BY <1>i DEF Members
    <3>2. PICK j \in 1..n : s[j] = i
      BY <3>1, <1>3
    <3> QED
      BY <3>1, <3>2, <1>1, <1>4 DEF Members
  <2> QED
    BY <2>1, <2>2
<1> QED
  BY <1>4, <1>5, <1>6, <1>7, <1>d DEF Proper

\* Two sequences one after the other.
LEMMA ConcatProper ==
  ASSUME NEW p, NEW q, p \in Seq(Req), q \in Seq(Req)
  PROVE  /\ p \o q \in Seq(Req)
         /\ Members(p \o q) = Members(p) \cup Members(q)
         /\ IsInjective(p \o q) <=>
              IsInjective(p) /\ IsInjective(q) /\ Members(p) \cap Members(q) = {}
         /\ Ordered(p \o q) <=>
              Ordered(p) /\ Ordered(q) /\ AheadOf(Members(p), Members(q))
<1>a. PICK a : a = Len(p)
  OBVIOUS
<1>b. PICK b : b = Len(q)
  OBVIOUS
<1>n. a \in Nat /\ b \in Nat /\ DOMAIN p = 1..a /\ DOMAIN q = 1..b
  BY <1>a, <1>b
<1>c. PICK c : c = p \o q
  OBVIOUS
<1>1. /\ c \in Seq(Req) /\ DOMAIN c = 1..(a + b)
      /\ \A i \in 1..(a + b) : c[i] = IF i <= a THEN p[i] ELSE q[i - a]
  BY <1>a, <1>b, <1>c, ConcatProperties, LenProperties
<1>2. \A i \in DOMAIN p : i \in DOMAIN c /\ c[i] = p[i] /\ i <= a
  BY <1>1, <1>n
<1>3. \A j \in DOMAIN q : a + j \in DOMAIN c /\ c[a + j] = q[j] /\ ~(a + j <= a)
  <2> SUFFICES ASSUME NEW j \in 1..b PROVE a + j \in 1..(a + b) /\ c[a + j] = q[j] /\ ~(a + j <= a)
    BY <1>1, <1>n
  <2>1. a + j \in 1..(a + b) /\ ~(a + j <= a) /\ (a + j) - a = j
    BY <1>n
  <2> QED
    BY <2>1, <1>1
<1>4. \A i \in DOMAIN c : i \in DOMAIN p \/ \E j \in DOMAIN q : i = a + j
  <2> SUFFICES ASSUME NEW i \in 1..(a + b), i \notin 1..a PROVE \E j \in 1..b : i = a + j
    BY <1>1, <1>n
  <2>1. i - a \in 1..b /\ i = a + (i - a)
    BY <1>n
  <2> QED
    BY <2>1
<1>5. Members(c) = Members(p) \cup Members(q)
  BY <1>2, <1>3, <1>4 DEF Members
<1>6. ASSUME IsInjective(c)
      PROVE  IsInjective(p) /\ IsInjective(q) /\ Members(p) \cap Members(q) = {}
  <2>1. IsInjective(p)
    BY <1>6, <1>2 DEF IsInjective
  <2>2. IsInjective(q)
    <3> SUFFICES ASSUME NEW i \in DOMAIN q, NEW j \in DOMAIN q, q[i] = q[j] PROVE i = j
      BY DEF IsInjective
    <3>1. a + i = a + j
      BY <1>6, <1>3 DEF IsInjective
    <3> QED
      BY <3>1, <1>n
  <2>3. Members(p) \cap Members(q) = {}
    <3> SUFFICES ASSUME NEW i \in DOMAIN p, NEW j \in DOMAIN q, p[i] = q[j] PROVE FALSE
      BY DEF Members
    <3>1. i = a + j
      BY <1>6, <1>2, <1>3 DEF IsInjective
    <3> QED
      BY <3>1, <1>2, <1>3
  <2> QED
    BY <2>1, <2>2, <2>3
<1>7. ASSUME IsInjective(p), IsInjective(q), Members(p) \cap Members(q) = {}
      PROVE  IsInjective(c)
  <2> SUFFICES ASSUME NEW i \in DOMAIN c, NEW j \in DOMAIN c, c[i] = c[j] PROVE i = j
    BY DEF IsInjective
  <2>1. CASE i \in DOMAIN p /\ j \in DOMAIN p
    BY <2>1, <1>2, <1>7 DEF IsInjective
  <2>2. CASE (\E k \in DOMAIN q : i = a + k) /\ (\E k \in DOMAIN q : j = a + k)
    <3>1. PICK k \in DOMAIN q, l \in DOMAIN q : i = a + k /\ j = a + l
      BY <2>2
    <3>2. q[k] = q[l]
      BY <3>1, <1>3
    <3>3. k = l
      BY <3>2, <1>7 DEF IsInjective
    <3> QED
      BY <3>1, <3>3
  <2>3. CASE i \in DOMAIN p /\ \E k \in DOMAIN q : j = a + k
    <3>1. PICK k \in DOMAIN q : j = a + k
      BY <2>3
    <3>2. c[i] \in Members(p)
      BY <2>3, <1>2 DEF Members
    <3>3. c[j] \in Members(q)
      BY <3>1, <1>3 DEF Members
    <3> QED
      BY <3>2, <3>3, <1>7
  <2>4. CASE j \in DOMAIN p /\ \E k \in DOMAIN q : i = a + k
    <3>1. PICK k \in DOMAIN q : i = a + k
      BY <2>4
    <3>2. c[j] \in Members(p)
      BY <2>4, <1>2 DEF Members
    <3>3. c[i] \in Members(q)
      BY <3>1, <1>3 DEF Members
    <3> QED
      BY <3>2, <3>3, <1>7
  <2> QED
    BY <2>1, <2>2, <2>3, <2>4, <1>4
<1>8. ASSUME Ordered(c)
      PROVE  Ordered(p) /\ Ordered(q) /\ AheadOf(Members(p), Members(q))
  <2>1. Ordered(p)
    BY <1>8, <1>2 DEF Ordered
  <2>2. Ordered(q)
    <3> SUFFICES ASSUME NEW i \in DOMAIN q, NEW j \in DOMAIN q, i < j,
                        q[i] \notin MaySkip, q[j] \notin MaySkip
                 PROVE  q[i] < q[j]
      BY DEF Ordered
    <3>1. a + i < a + j
      BY <1>n
    <3> QED
      BY <3>1, <1>8, <1>3 DEF Ordered
  <2>3. AheadOf(Members(p), Members(q))
    <3> SUFFICES ASSUME NEW i \in DOMAIN p, NEW j \in DOMAIN q,
                        p[i] \notin MaySkip, q[j] \notin MaySkip
                 PROVE  p[i] < q[j]
      BY DEF Members, AheadOf
    <3>1. i < a + j
      BY <1>n
    <3> QED
      BY <3>1, <1>8, <1>2, <1>3 DEF Ordered
  <2> QED
    BY <2>1, <2>2, <2>3
<1>9. ASSUME Ordered(p), Ordered(q), AheadOf(Members(p), Members(q))
      PROVE  Ordered(c)
  <2> SUFFICES ASSUME NEW i \in DOMAIN c, NEW j \in DOMAIN c, i < j,
                      c[i] \notin MaySkip, c[j] \notin MaySkip
               PROVE  c[i] < c[j]
    BY DEF Ordered
  <2>1. CASE i \in DOMAIN p /\ j \in DOMAIN p
    BY <2>1, <1>2, <1>9 DEF Ordered
  <2>2. CASE (\E k \in DOMAIN q : i = a + k) /\ (\E k \in DOMAIN q : j = a + k)
    <3>1. PICK k \in DOMAIN q, l \in DOMAIN q : i = a + k /\ j = a + l
      BY <2>2
    <3>2. k < l
      BY <3>1, <1>n
    <3> QED
      BY <3>1, <3>2, <1>3, <1>9 DEF Ordered
  <2>3. CASE i \in DOMAIN p /\ \E k \in DOMAIN q : j = a + k
    BY <2>3, <1>2, <1>3, <1>9 DEF Members, AheadOf
  <2>4. CASE j \in DOMAIN p /\ \E k \in DOMAIN q : i = a + k
    <3>1. PICK k \in DOMAIN q : i = a + k
      BY <2>4
    <3>2. FALSE
      BY <3>1, <2>4, <1>n
    <3> QED
      BY <3>2
  <2> QED
    BY <2>1, <2>2, <2>3, <2>4, <1>4
<1> QED
  BY <1>1, <1>5, <1>6, <1>7, <1>8, <1>9, <1>c

\* A sequence of one request.
LEMMA OneProper ==
  ASSUME NEW r \in Req
  PROVE  Proper(<<r>>) /\ Members(<<r>>) = {r}
<1>1. PICK q : q = <<r>>
  OBVIOUS
<1>2. q \in Seq(Req) /\ DOMAIN q = {1} /\ q[1] = r
  BY <1>1
<1> QED
  BY <1>1, <1>2 DEF Proper, IsInjective, Ordered, Members

\* Two proper sequences, one ahead of the other, make a proper sequence.
LEMMA JoinProper ==
  ASSUME NEW p, NEW q, Proper(p), Proper(q), Members(p) \cap Members(q) = {},
         AheadOf(Members(p), Members(q))
  PROVE  Proper(p \o q) /\ Members(p \o q) = Members(p) \cup Members(q)
<1>1. p \in Seq(Req) /\ IsInjective(p) /\ Ordered(p) /\ q \in Seq(Req) /\ IsInjective(q)
      /\ Ordered(q)
  BY DEF Proper
<1> QED
  BY <1>1, ConcatProper DEF Proper

\* A request at the end, and at the head, of a sequence.
LEMMA AppendProper ==
  ASSUME NEW q, Proper(q), NEW r \in Req, r \notin Members(q), AheadOf(Members(q), {r})
  PROVE  Proper(Append(q, r)) /\ Members(Append(q, r)) = Members(q) \cup {r}
<1>1. q \in Seq(Req)
  BY DEF Proper
<1>2. Append(q, r) = q \o <<r>>
  BY <1>1
<1>3. PICK p : p = <<r>>
  OBVIOUS
<1>4. Proper(p) /\ Members(p) = {r}
  BY <1>3, OneProper
<1>5. Members(q) \cap Members(p) = {} /\ AheadOf(Members(q), Members(p))
  BY <1>4
<1>6. Proper(q \o p) /\ Members(q \o p) = Members(q) \cup {r}
  BY <1>4, <1>5, JoinProper
<1> QED
  BY <1>2, <1>3, <1>6
LEMMA ConsProper ==
  ASSUME NEW q, Proper(q), NEW r \in Req, r \notin Members(q), AheadOf({r}, Members(q))
  PROVE  Proper(<<r>> \o q) /\ Members(<<r>> \o q) = Members(q) \cup {r}
<1>3. PICK p : p = <<r>>
  OBVIOUS
<1>4. Proper(p) /\ Members(p) = {r}
  BY <1>3, OneProper
<1>5. Members(p) \cap Members(q) = {} /\ AheadOf(Members(p), Members(q))
  BY <1>4
<1>6. Proper(p \o q) /\ Members(p \o q) = Members(q) \cup {r}
  BY <1>4, <1>5, JoinProper
<1> QED
  BY <1>3, <1>6

\* The reverse of a sequence holds the same requests.
LEMMA ReverseMembers ==
  ASSUME NEW q \in Seq(Req), IsInjective(q)
  PROVE  Reverse(q) \in Seq(Req) /\ IsInjective(Reverse(q)) /\ Members(Reverse(q)) = Members(q)
<1>n. PICK n : n = Len(q)
  OBVIOUS
<1>d. n \in Nat /\ DOMAIN q = 1..n /\ \A i \in 1..n : q[i] \in Req
  BY <1>n
<1>v. PICK v : v = Reverse(q)
  OBVIOUS
<1>1. v = [i \in 1..n |-> q[(n - i) + 1]]
  BY <1>n, <1>v DEF Reverse
<1>2. \A i \in 1..n : (n - i) + 1 \in 1..n /\ (n - ((n - i) + 1)) + 1 = i
  BY <1>d
<1>3. v \in [1..n -> Req]
  BY <1>1, <1>2, <1>d
<1>4. v \in Seq(Req) /\ DOMAIN v = 1..n
  BY <1>3, <1>d, IsASeq
<1>5. IsInjective(v)
  <2> SUFFICES ASSUME NEW i \in 1..n, NEW j \in 1..n, q[(n - i) + 1] = q[(n - j) + 1] PROVE i = j
    BY <1>1, <1>4 DEF IsInjective
  <2>1. (n - i) + 1 = (n - j) + 1
    BY <1>2, <1>d DEF IsInjective
  <2> QED
    BY <2>1, <1>d
<1>8. Members(v) = Members(q)
  <2>1. ASSUME NEW x \in Members(v) PROVE x \in Members(q)
    <3>1. PICK i \in 1..n : x = v[i]
      BY <1>4 DEF Members
    <3>2. x = q[(n - i) + 1] /\ (n - i) + 1 \in DOMAIN q
      BY <3>1, <1>1, <1>2, <1>d
    <3> QED
      BY <3>2 DEF Members
  <2>2. ASSUME NEW x \in Members(q) PROVE x \in Members(v)
    <3>1. PICK i \in 1..n : x = q[i]
      BY <1>d DEF Members
    <3>2. x = v[(n - i) + 1] /\ (n - i) + 1 \in DOMAIN v
      BY <3>1, <1>1, <1>2, <1>4
    <3> QED
      BY <3>2 DEF Members
  <2> QED
    BY <2>1, <2>2
<1> QED
  BY <1>4, <1>5, <1>8, <1>v

-----------------------------------------------------------------------------
\* The running list R, the skipped requests K and the waiting queue W hold the
\* requests with the statuses st: each is in the one place that fits its status, and
\* in order.  The requests that are still to come are after those that have come.
Waits == {"WAITING", "WAITING_FOR_FSM", "WAITING_FOR_REMOTE_KVS", "PREEMPTED"}
\* What a request that has the status is.
Befits(r, status) ==
  /\ status = "WAITING_FOR_FSM" => r \in Guided
  /\ status = "WAITING_FOR_REMOTE_KVS" => r \in RemotePrefill
Placed(R, K, W, st) ==
  /\ Proper(R) /\ Proper(W)
  /\ K \in Seq(Req) /\ IsInjective(K) /\ Members(K) \subseteq MaySkip
  /\ Members(K) \cap Members(W) = {}
  /\ Members(R) = {r \in Req : st[r] = "RUNNING"}
  /\ Members(K) \cup Members(W) = {r \in Req : st[r] \in Waits}
  /\ AheadOf(Members(R), Members(W))
  /\ st \in [Req -> Status]
  /\ \A r \in Req : Befits(r, st[r])
  /\ \A q, r \in Req : st[q] # "NEW" /\ st[r] = "NEW" => q < r

\* add_request: a new request goes to the end of the waiting queue.
LEMMA PlaceNew ==
  ASSUME NEW R, NEW K, NEW W, NEW st, Placed(R, K, W, st), NEW r \in Req, st[r] = "NEW",
         \A q \in Req : q < r => st[q] # "NEW",
         NEW v \in {"WAITING", "WAITING_FOR_FSM"}, Befits(r, v)
  PROVE  Placed(R, K, Append(W, r), [st EXCEPT ![r] = v])
<1>1. PICK t : t = [st EXCEPT ![r] = v]
  OBVIOUS
<1>s. st \in [Req -> Status] /\ Members(R) \subseteq Req /\ Members(W) \subseteq Req
  BY DEF Placed
<1>2. /\ t \in [Req -> Status] /\ t[r] = v /\ \A q \in Req : q # r => t[q] = st[q]
      /\ v \in Waits /\ v # "RUNNING" /\ v # "NEW"
  BY <1>1, <1>s DEF Status, Waits
<1>3. r \notin Members(R) /\ r \notin Members(W) /\ r \notin Members(K)
  BY DEF Placed, Waits
<1>4. \A q \in Members(R) \cup Members(W) : q < r
  BY DEF Placed, Waits
<1>5. AheadOf(Members(W), {r}) /\ AheadOf(Members(R), Members(W) \cup {r})
  BY <1>4 DEF Placed, AheadOf
<1>6. Proper(Append(W, r)) /\ Members(Append(W, r)) = Members(W) \cup {r}
  BY <1>3, <1>5, AppendProper DEF Placed
<1>7. Members(R) = {q \in Req : t[q] = "RUNNING"}
  BY <1>2, <1>3 DEF Placed
<1>8. Members(K) \cup (Members(W) \cup {r}) = {q \in Req : t[q] \in Waits}
  <2>1. Members(K) \cup Members(W) = {q \in Req : st[q] \in Waits}
    BY DEF Placed
  <2> QED
    BY <2>1, <1>2
<1>9. \A q \in Req : Befits(q, t[q])
  BY <1>2 DEF Placed
<1>10. \A q, p \in Req : t[q] # "NEW" /\ t[p] = "NEW" => q < p
  <2> SUFFICES ASSUME NEW q \in Req, NEW p \in Req, t[q] # "NEW", t[p] = "NEW" PROVE q < p
    OBVIOUS
  <2>1. p # r /\ st[p] = "NEW"
    BY <1>2
  <2>2. CASE q = r
    <3>1. ~(p < r)
      BY <2>1
    <3>2. p \in Int /\ r \in Int
      BY RequestsAreNumbers
    <3> QED
      BY <3>1, <3>2, <2>1, <2>2
  <2>3. CASE q # r
    BY <2>1, <2>3, <1>2 DEF Placed
  <2> QED
    BY <2>2, <2>3
<1>11. Placed(R, K, Append(W, r), t)
  BY <1>2, <1>3, <1>5, <1>6, <1>7, <1>8, <1>9, <1>10 DEF Placed
<1> QED
  BY <1>11, <1>1

\* finish_requests: a request leaves the running list.
LEMMA PlaceFinishedRunning ==
  ASSUME NEW R, NEW K, NEW W, NEW st, Placed(R, K, W, st), NEW r \in Req, st[r] = "RUNNING",
         NEW Q, Proper(Q), Members(Q) = Members(R) \ {r}
  PROVE  Placed(Q, K, W, [st EXCEPT ![r] = "FINISHED"])
<1>1. PICK t : t = [st EXCEPT ![r] = "FINISHED"]
  OBVIOUS
<1>2. /\ t \in [Req -> Status] /\ t[r] = "FINISHED" /\ \A q \in Req : q # r => t[q] = st[q]
      /\ "FINISHED" \notin Waits /\ "RUNNING" \notin Waits
  BY <1>1 DEF Status, Waits, Placed
<1>3. Members(Q) = {q \in Req : t[q] = "RUNNING"}
  BY <1>2 DEF Placed
<1>4. Members(K) \cup Members(W) = {q \in Req : t[q] \in Waits}
  <2>1. Members(K) \cup Members(W) = {q \in Req : st[q] \in Waits}
    BY DEF Placed
  <2> QED
    BY <2>1, <1>2
<1>5. AheadOf(Members(Q), Members(W))
  BY DEF Placed, AheadOf
<1>6. \A q \in Req : Befits(q, t[q])
  BY <1>2 DEF Placed, Befits
<1>7. \A q, p \in Req : t[q] # "NEW" /\ t[p] = "NEW" => q < p
  BY <1>2 DEF Placed
<1>8. Placed(Q, K, W, t)
  BY <1>2, <1>3, <1>4, <1>5, <1>6, <1>7 DEF Placed
<1> QED
  BY <1>8, <1>1

\* finish_requests: a request leaves the waiting queue.
LEMMA PlaceFinishedWaiting ==
  ASSUME NEW R, NEW K, NEW W, NEW st, Placed(R, K, W, st), NEW r \in Members(W)
  PROVE  Placed(R, K, Without(W, r), [st EXCEPT ![r] = "FINISHED"])
<1>1. PICK t : t = [st EXCEPT ![r] = "FINISHED"]
  OBVIOUS
<1>r. r \in Req /\ st[r] \in Waits /\ r \notin Members(K)
  BY DEF Placed
<1>2. /\ t \in [Req -> Status] /\ t[r] = "FINISHED" /\ \A q \in Req : q # r => t[q] = st[q]
      /\ "FINISHED" \notin Waits /\ "RUNNING" \notin Waits /\ "NEW" \notin Waits
  BY <1>1, <1>r DEF Status, Waits, Placed
<1>w. Proper(Without(W, r)) /\ Members(Without(W, r)) = Members(W) \ {r}
  BY WithoutProper DEF Placed
<1>3. Members(R) = {q \in Req : t[q] = "RUNNING"}
  BY <1>2, <1>r DEF Placed
<1>4. Members(K) \cup (Members(W) \ {r}) = {q \in Req : t[q] \in Waits}
  <2>1. Members(K) \cup Members(W) = {q \in Req : st[q] \in Waits}
    BY DEF Placed
  <2> QED
    BY <2>1, <1>2, <1>r
<1>5. AheadOf(Members(R), Members(W) \ {r})
  BY DEF Placed, AheadOf
<1>6. \A q \in Req : Befits(q, t[q])
  BY <1>2 DEF Placed, Befits
<1>7. \A q, p \in Req : t[q] # "NEW" /\ t[p] = "NEW" => q < p
  BY <1>2, <1>r DEF Placed
<1>8. Placed(R, K, Without(W, r), t)
  BY <1>2, <1>w, <1>3, <1>4, <1>5, <1>6, <1>7 DEF Placed
<1> QED
  BY <1>8, <1>1

\* A waiting request gets another status of those that wait.
LEMMA PlaceWaiting ==
  ASSUME NEW R, NEW K, NEW W, NEW st, Placed(R, K, W, st), NEW r \in Req, st[r] \in Waits,
         NEW v \in Waits, Befits(r, v)
  PROVE  Placed(R, K, W, [st EXCEPT ![r] = v])
<1>1. PICK t : t = [st EXCEPT ![r] = v]
  OBVIOUS
<1>2. /\ t \in [Req -> Status] /\ t[r] = v /\ \A q \in Req : q # r => t[q] = st[q]
      /\ "RUNNING" \notin Waits /\ "NEW" \notin Waits
  BY <1>1 DEF Status, Waits, Placed
<1>3. Members(R) = {q \in Req : t[q] = "RUNNING"}
  BY <1>2 DEF Placed
<1>4. Members(K) \cup Members(W) = {q \in Req : t[q] \in Waits}
  <2>1. Members(K) \cup Members(W) = {q \in Req : st[q] \in Waits}
    BY DEF Placed
  <2> QED
    BY <2>1, <1>2
<1>6. \A q \in Req : Befits(q, t[q])
  BY <1>2 DEF Placed
<1>7. \A q, p \in Req : t[q] # "NEW" /\ t[p] = "NEW" => q < p
  BY <1>2 DEF Placed
<1>8. Placed(R, K, W, t)
  BY <1>2, <1>3, <1>4, <1>6, <1>7 DEF Placed
<1> QED
  BY <1>8, <1>1

\* The request at the head of the waiting queue is skipped.
LEMMA PlaceSkipped ==
  ASSUME NEW R, NEW K, NEW W, NEW st, Placed(R, K, W, st), W # << >>, Head(W) \in MaySkip
  PROVE  Placed(R, <<Head(W)>> \o K, Tail(W), st)
<1>1. PICK r : r = Head(W)
  OBVIOUS
<1>2. /\ Proper(Tail(W)) /\ r \in Members(W) /\ r \in Req
      /\ Members(Tail(W)) = Members(W) \ {r}
  BY <1>1, TailProper DEF Placed
<1>3. PICK p : p = <<r>>
  OBVIOUS
<1>4. p \in Seq(Req) /\ IsInjective(p) /\ Members(p) = {r}
  BY <1>2, <1>3, OneProper DEF Proper
<1>5. K \in Seq(Req) /\ IsInjective(K) /\ r \notin Members(K)
  BY <1>2 DEF Placed
<1>6. Members(p) \cap Members(K) = {}
  BY <1>4, <1>5
<1>7. p \o K \in Seq(Req) /\ Members(p \o K) = {r} \cup Members(K) /\ IsInjective(p \o K)
  BY <1>4, <1>5, <1>6, ConcatProper
<1>8. AheadOf(Members(R), Members(W) \ {r})
  BY DEF Placed, AheadOf
<1>9. Members(p \o K) \subseteq MaySkip /\ Members(p \o K) \cap Members(Tail(W)) = {}
      /\ Members(p \o K) \cup Members(Tail(W)) = Members(K) \cup Members(W)
  BY <1>1, <1>2, <1>7 DEF Placed
<1>10. Placed(R, p \o K, Tail(W), st)
  BY <1>2, <1>7, <1>8, <1>9 DEF Placed
<1> QED
  BY <1>10, <1>1, <1>3

\* The request at the head of the waiting queue is scheduled.
LEMMA PlaceScheduled ==
  ASSUME NEW R, NEW K, NEW W, NEW st, Placed(R, K, W, st), W # << >>
  PROVE  Placed(Append(R, Head(W)), K, Tail(W), [st EXCEPT ![Head(W)] = "RUNNING"])
<1>1. PICK r : r = Head(W)
  OBVIOUS
<1>2. /\ Proper(Tail(W)) /\ r \in Members(W) /\ r \in Req
      /\ Members(Tail(W)) = Members(W) \ {r} /\ AheadOf({r}, Members(Tail(W)))
  BY <1>1, TailProper DEF Placed
<1>3. st[r] \in Waits /\ r \notin Members(K)
  BY <1>2 DEF Placed
<1>t. PICK t : t = [st EXCEPT ![r] = "RUNNING"]
  OBVIOUS
<1>4. /\ t \in [Req -> Status] /\ t[r] = "RUNNING" /\ \A q \in Req : q # r => t[q] = st[q]
      /\ "RUNNING" \notin Waits /\ "NEW" \notin Waits
  BY <1>t, <1>2 DEF Status, Waits, Placed
<1>5. r \notin Members(R) /\ AheadOf(Members(R), {r})
  BY <1>2, <1>3, <1>4 DEF Placed, AheadOf
<1>6. Proper(Append(R, r)) /\ Members(Append(R, r)) = Members(R) \cup {r}
  BY <1>2, <1>5, AppendProper DEF Placed
<1>7. Members(R) \cup {r} = {q \in Req : t[q] = "RUNNING"}
  BY <1>2, <1>4 DEF Placed
<1>8. Members(K) \cup Members(Tail(W)) = {q \in Req : t[q] \in Waits}
  <2>1. Members(K) \cup Members(W) = {q \in Req : st[q] \in Waits}
    BY DEF Placed
  <2> QED
    BY <2>1, <1>2, <1>3, <1>4
<1>9. AheadOf(Members(R) \cup {r}, Members(Tail(W)))
  BY <1>2 DEF Placed, AheadOf
<1>10. \A q \in Req : Befits(q, t[q])
  BY <1>4 DEF Placed, Befits
<1>11. \A q, p \in Req : t[q] # "NEW" /\ t[p] = "NEW" => q < p
  BY <1>3, <1>4 DEF Placed
<1>12. Placed(Append(R, r), K, Tail(W), t)
  BY <1>2, <1>4, <1>6, <1>7, <1>8, <1>9, <1>10, <1>11 DEF Placed
<1> QED
  BY <1>12, <1>1, <1>t

\* The last running request is preempted, while no request is skipped.
LEMMA PlacePreempted ==
  ASSUME NEW R, NEW W, NEW st, Placed(R, << >>, W, st), R # << >>
  PROVE  Placed(Front(R), << >>, <<R[Len(R)]>> \o W, [st EXCEPT ![R[Len(R)]] = "PREEMPTED"])
<1>1. PICK r : r = R[Len(R)]
  OBVIOUS
<1>2. /\ Proper(Front(R)) /\ r \in Members(R) /\ r \in Req
      /\ Members(Front(R)) = Members(R) \ {r} /\ AheadOf(Members(Front(R)), {r})
  BY <1>1, FrontProper DEF Placed
<1>3. st[r] = "RUNNING"
  BY <1>2 DEF Placed
<1>t. PICK t : t = [st EXCEPT ![r] = "PREEMPTED"]
  OBVIOUS
<1>4. /\ t \in [Req -> Status] /\ t[r] = "PREEMPTED" /\ \A q \in Req : q # r => t[q] = st[q]
      /\ "RUNNING" \notin Waits /\ "NEW" \notin Waits /\ "PREEMPTED" \in Waits
  BY <1>t, <1>2 DEF Status, Waits, Placed
<1>e. PICK K : K = << >>
  OBVIOUS
<1>k. Placed(R, K, W, st) /\ Members(K) = {}
  BY <1>e DEF Members
<1>5. r \notin Members(W) /\ AheadOf({r}, Members(W))
  BY <1>2, <1>3, <1>4, <1>k DEF Placed, AheadOf
<1>6. Proper(<<r>> \o W) /\ Members(<<r>> \o W) = Members(W) \cup {r}
  BY <1>2, <1>5, ConsProper DEF Placed
<1>7. Members(Front(R)) = {q \in Req : t[q] = "RUNNING"}
  BY <1>2, <1>4 DEF Placed
<1>8. Members(K) \cup (Members(W) \cup {r}) = {q \in Req : t[q] \in Waits}
  <2>1. Members(K) \cup Members(W) = {q \in Req : st[q] \in Waits}
    BY <1>k DEF Placed
  <2> QED
    BY <2>1, <1>2, <1>3, <1>4
<1>9. AheadOf(Members(Front(R)), Members(W) \cup {r})
  BY <1>2 DEF Placed, AheadOf
<1>10. \A q \in Req : Befits(q, t[q])
  BY <1>4 DEF Placed, Befits
<1>11. \A q, p \in Req : t[q] # "NEW" /\ t[p] = "NEW" => q < p
  BY <1>3, <1>4 DEF Placed
<1>12. Placed(Front(R), K, <<r>> \o W, t)
  BY <1>2, <1>k, <1>4, <1>6, <1>7, <1>8, <1>9, <1>10, <1>11 DEF Placed
<1> QED
  BY <1>12, <1>1, <1>t, <1>e

\* The skipped requests go back, before the others.
LEMMA PlacePutBack ==
  ASSUME NEW R, NEW K, NEW W, NEW st, Placed(R, K, W, st)
  PROVE  Placed(R, << >>, Reverse(K) \o W, st)
<1>1. PICK v : v = Reverse(K)
  OBVIOUS
<1>2. v \in Seq(Req) /\ IsInjective(v) /\ Members(v) = Members(K) /\ Members(K) \subseteq MaySkip
  BY <1>1, ReverseMembers DEF Placed
<1>3. Ordered(v)
  BY <1>2 DEF Ordered, Members
<1>4. Proper(v) /\ Proper(W) /\ Members(v) \cap Members(W) = {} /\ AheadOf(Members(v), Members(W))
  BY <1>2, <1>3 DEF Proper, Placed, AheadOf
<1>5. Proper(v \o W) /\ Members(v \o W) = Members(v) \cup Members(W)
  BY <1>4, JoinProper
<1>6. AheadOf(Members(R), Members(v) \cup Members(W))
  BY <1>2 DEF Placed, AheadOf
<1>e. PICK E : E = << >>
  OBVIOUS
<1>f. E \in Seq(Req) /\ IsInjective(E) /\ Members(E) = {}
  BY <1>e DEF Members, IsInjective
<1>7. Placed(R, E, v \o W, st)
  BY <1>2, <1>5, <1>6, <1>f DEF Placed
<1> QED
  BY <1>7, <1>1, <1>e

-----------------------------------------------------------------------------
\* The inductive invariant: the fields of the records, the control state of the call
\* in progress, and the places of the requests.
ReqFields == {"status", "num_tokens", "num_computed_tokens", "spec_token_ids"}
CallFields ==
  {"phase", "req_index", "token_budget", "encoder_budget", "preempted", "skipped", "output",
   "new_running", "finished_recving", "finished_sending"}
Shapes ==
  /\ DOMAIN req = Req /\ \A r \in Req : DOMAIN req[r] = ReqFields
  /\ DOMAIN call = CallFields
  /\ DOMAIN conn = {"do_remote_prefill", "reqs_need_recv", "finished_recving"}
  /\ conn.do_remote_prefill \subseteq RemotePrefill

Control ==
  /\ running \in Seq(Req) /\ call.new_running \in Seq(Req)
  /\ call.req_index \in Nat \ {0}
  /\ call.phase = "update" => call.req_index <= Len(running) + 1
  /\ call.phase \notin {"waiting", "finish"} => call.skipped = << >>

Statuses == [r \in Req |-> req[r].status]
InPlace == Placed(LiveRunning, call.skipped, waiting, Statuses)
QueueInv == Shapes /\ Control /\ InPlace

LEMMA QueueInit == Init => QueueInv
<1> SUFFICES ASSUME Init PROVE QueueInv
  OBVIOUS
<1>1. /\ req = [r \in Req |-> [status |-> "NEW", num_tokens |-> PromptLen[r],
                           num_computed_tokens |-> 0, spec_token_ids |-> 0]]
      /\ waiting = << >> /\ running = << >> /\ conn = InitConnector /\ call = NoCall
  BY DEF Init, SchedulerInit
<1>2. Shapes
  BY <1>1 DEF Shapes, ReqFields, CallFields, InitConnector, NoCall
<1>3. /\ call.phase = "idle" /\ call.skipped = << >> /\ call.new_running = << >>
      /\ call.req_index = 1
  BY <1>1 DEF NoCall
<1>4. Control
  BY <1>1, <1>3 DEF Control
<1>5. PICK E : E = << >>
  OBVIOUS
<1>6. Proper(E) /\ Members(E) = {} /\ E \in Seq(Req) /\ IsInjective(E)
  BY <1>5 DEF Proper, Members, IsInjective, Ordered
<1>7. PICK st : st = Statuses
  OBVIOUS
<1>8. st \in [Req -> Status] /\ \A r \in Req : st[r] = "NEW"
  BY <1>1, <1>7 DEF Statuses, Status
<1>9. Placed(E, E, E, st)
  BY <1>6, <1>8 DEF Placed, AheadOf, Befits, Waits
<1>10. LiveRunning = E
  BY <1>1, <1>3, <1>5 DEF LiveRunning
<1> QED
  BY <1>1, <1>2, <1>3, <1>4, <1>5, <1>7, <1>9, <1>10 DEF QueueInv, InPlace

\* Steps that leave the queues, the requests and the call alone.
LEMMA QueueFrame ==
  ASSUME QueueInv, UNCHANGED <<req, waiting, running, conn, call>>
  PROVE  QueueInv'
  BY DEF QueueInv, Shapes, Control, InPlace, LiveRunning, Statuses

LEMMA QueueAdd ==
  ASSUME QueueInv, NEW r \in Req, AddRequest(r) PROVE QueueInv'
<1>1. PICK v : v = IF r \in Guided THEN "WAITING_FOR_FSM" ELSE "WAITING"
  OBVIOUS
<1>2. /\ req' = [req EXCEPT ![r].status = v]
      /\ waiting' = Append(waiting, r) /\ running' = running /\ conn' = conn /\ call' = call
      /\ call.phase = "idle" /\ req[r].status = "NEW"
      /\ \A q \in Req : q < r => req[q].status # "NEW"
  BY <1>1 DEF AddRequest, add_request
<1>3. v \in {"WAITING", "WAITING_FOR_FSM"} /\ Befits(r, v)
  BY <1>1 DEF Befits
<1>4. Shapes' /\ Statuses' = [Statuses EXCEPT ![r] = v]
  BY <1>2 DEF QueueInv, Shapes, ReqFields, Statuses
<1>5. Statuses[r] = "NEW" /\ \A q \in Req : q < r => Statuses[q] # "NEW"
  BY <1>2 DEF Statuses
<1>6. Control'
  BY <1>2 DEF QueueInv, Control
<1>7. LiveRunning' = LiveRunning
  BY <1>2 DEF LiveRunning
<1>8. InPlace'
  BY <1>2, <1>3, <1>4, <1>5, <1>7, PlaceNew DEF QueueInv, InPlace
<1> QED
  BY <1>4, <1>6, <1>8 DEF QueueInv

LEMMA QueueAbort ==
  ASSUME QueueInv, NEW r \in Req, AbortRequest(r) PROVE QueueInv'
<1>2. /\ req' = [req EXCEPT ![r].status = "FINISHED"] /\ conn' = conn /\ call' = call
      /\ call.phase = "idle" /\ Live(r)
      /\ IF req[r].status = "RUNNING"
         THEN running' = Without(running, r) /\ waiting' = waiting
         ELSE waiting' = Without(waiting, r) /\ running' = running
  BY DEF AbortRequest, finish_requests
<1>3. LiveRunning = running /\ LiveRunning' = running' /\ call.skipped = << >>
  BY <1>2 DEF LiveRunning, QueueInv, Control
<1>4. Shapes' /\ Statuses' = [Statuses EXCEPT ![r] = "FINISHED"] /\ Statuses[r] = req[r].status
  BY <1>2 DEF QueueInv, Shapes, ReqFields, Statuses
<1>5. PICK st, K : st = Statuses /\ K = call.skipped
  OBVIOUS
<1>6. Placed(running, K, waiting, st) /\ Members(K) = {}
  BY <1>3, <1>5 DEF QueueInv, InPlace, Members
<1>7. running' \in Seq(Req) /\ Placed(running', K, waiting', [st EXCEPT ![r] = "FINISHED"])
  <2>1. CASE req[r].status = "RUNNING"
    <3>1. st[r] = "RUNNING" /\ r \in Members(running) /\ Proper(running)
      BY <2>1, <1>4, <1>5, <1>6 DEF Placed
    <3>2. Proper(running') /\ Members(running') = Members(running) \ {r} /\ waiting' = waiting
      BY <3>1, <2>1, <1>2, WithoutProper
    <3> QED
      BY <3>1, <3>2, <1>6, PlaceFinishedRunning DEF Proper
  <2>2. CASE req[r].status # "RUNNING"
    <3>1. st[r] \in Waits
      BY <2>2, <1>2, <1>4, <1>5, <1>6 DEF Live, Waits, Placed, Status
    <3>2. r \in Members(waiting)
      BY <3>1, <1>6 DEF Placed
    <3>3. waiting' = Without(waiting, r) /\ running' = running /\ running \in Seq(Req)
      BY <2>2, <1>2, <1>6 DEF Placed, Proper
    <3> QED
      BY <3>2, <3>3, <1>6, PlaceFinishedWaiting
  <2> QED
    BY <2>1, <2>2
<1>8. InPlace'
  BY <1>2, <1>3, <1>4, <1>5, <1>7 DEF InPlace
<1>9. Control'
  BY <1>2, <1>3, <1>7 DEF QueueInv, Control
<1> QED
  BY <1>4, <1>8, <1>9 DEF QueueInv

-----------------------------------------------------------------------------
\* The steps of schedule().
LEMMA QueueStepSchedules ==
  ASSUME QueueInv, StepSchedules PROVE QueueInv'
<1>1. /\ UNCHANGED <<req, waiting, running, conn>> /\ call.phase = "idle"
      /\ call' = [NoCall EXCEPT !.phase = "running", !.token_budget = MaxNumScheduledTokens,
                                !.encoder_budget = MaxNumEncoderInputTokens]
  BY DEF StepSchedules, BeginSchedule
<1>2. /\ DOMAIN call' = CallFields /\ call'.phase = "running" /\ call'.skipped = << >>
      /\ call'.req_index = 1 /\ call'.new_running = << >>
  BY <1>1 DEF NoCall, CallFields
<1>3. LiveRunning' = LiveRunning /\ call.skipped = << >>
  BY <1>1, <1>2 DEF LiveRunning, QueueInv, Control
<1>4. Shapes' /\ Statuses' = Statuses
  BY <1>1, <1>2 DEF QueueInv, Shapes, Statuses
<1>e. << >> \in Seq(Req) /\ 1 \in Nat \ {0}
  OBVIOUS
<1>r. running \in Seq(Req)
  BY DEF QueueInv, Control
<1>5. running' \in Seq(Req) /\ call'.new_running \in Seq(Req) /\ call'.req_index \in Nat \ {0}
  BY <1>1, <1>2, <1>e, <1>r
<1>6. Control'
  BY <1>2, <1>5 DEF Control
<1> QED
  BY <1>1, <1>2, <1>3, <1>4, <1>6 DEF QueueInv, InPlace

LEMMA QueueSkipRunning ==
  ASSUME QueueInv, SkipRunning PROVE QueueInv'
<1>1. /\ UNCHANGED <<req, waiting, running, conn>> /\ call.phase = "running"
      /\ call' = [call EXCEPT !.req_index = @ + 1]
  BY DEF SkipRunning, InRunningLoop
<1>2. /\ DOMAIN call' = CallFields /\ call'.phase = "running" /\ call'.skipped = call.skipped
      /\ call'.req_index = call.req_index + 1 /\ call'.new_running = call.new_running
  BY <1>1 DEF CallFields, QueueInv, Shapes
<1>3. LiveRunning' = LiveRunning
  BY <1>1, <1>2 DEF LiveRunning
<1>4. Shapes' /\ Statuses' = Statuses
  BY <1>1, <1>2 DEF QueueInv, Shapes, Statuses
<1>5. Control'
  BY <1>1, <1>2 DEF QueueInv, Control
<1> QED
  BY <1>1, <1>2, <1>3, <1>4, <1>5 DEF QueueInv, InPlace

LEMMA QueueScheduleRunning ==
  ASSUME QueueInv, ScheduleRunning PROVE QueueInv'
<1>1. /\ UNCHANGED <<waiting, running, conn>> /\ call.phase = "running"
      /\ \E x : req' = [req EXCEPT ![Current].spec_token_ids = x]
      /\ \E b, e, o : call' = [call EXCEPT !.req_index = @ + 1, !.token_budget = b,
                                           !.encoder_budget = e, !.output = o]
  BY DEF ScheduleRunning, InRunningLoop
<1>2. /\ DOMAIN call' = CallFields /\ call'.phase = "running" /\ call'.skipped = call.skipped
      /\ call'.req_index = call.req_index + 1 /\ call'.new_running = call.new_running
  BY <1>1 DEF CallFields, QueueInv, Shapes
<1>3. LiveRunning' = LiveRunning
  BY <1>1, <1>2 DEF LiveRunning
<1>4. Shapes' /\ Statuses' = Statuses
  BY <1>1, <1>2 DEF QueueInv, Shapes, Statuses, ReqFields
<1>5. Control'
  BY <1>1, <1>2 DEF QueueInv, Control
<1> QED
  BY <1>1, <1>2, <1>3, <1>4, <1>5 DEF QueueInv, InPlace

LEMMA QueuePreemptLast ==
  ASSUME QueueInv, PreemptLast PROVE QueueInv'
<1>r. PICK r : r = running[Len(running)]
  OBVIOUS
<1>1. /\ conn' = conn /\ call.phase = "running" /\ call.req_index <= Len(running)
      /\ running' = Front(running) /\ waiting' = <<r>> \o waiting
      /\ req' = [req EXCEPT ![r].status = "PREEMPTED", ![r].num_computed_tokens = 0]
      /\ call' = [call EXCEPT !.preempted = @ \cup {r},
                              !.phase = IF r = Current THEN "finish" ELSE @]
  BY <1>r DEF PreemptLast, InRunningLoop, PutBack
<1>2. /\ DOMAIN call' = CallFields /\ call'.phase \in {"running", "finish"}
      /\ call'.skipped = call.skipped
      /\ call'.req_index = call.req_index /\ call'.new_running = call.new_running
  BY <1>1 DEF CallFields, QueueInv, Shapes
<1>3. LiveRunning = running /\ LiveRunning' = running' /\ call.skipped = << >>
  BY <1>1, <1>2 DEF LiveRunning, QueueInv, Control
<1>4. running # << >>
  <2>1. running = << >> => Len(running) = 0
    OBVIOUS
  <2> QED
    BY <2>1, <1>1 DEF QueueInv, Control
<1>5. Placed(running, << >>, waiting, Statuses)
  BY <1>3 DEF QueueInv, InPlace
<1>6. r \in Req /\ Proper(running')
  BY <1>r, <1>1, <1>4, <1>5, FrontProper DEF Placed
<1>7. Shapes' /\ Statuses' = [Statuses EXCEPT ![r] = "PREEMPTED"]
  BY <1>1, <1>2, <1>6 DEF QueueInv, Shapes, Statuses, ReqFields
<1>s. PICK st : st = Statuses
  OBVIOUS
<1>t. Placed(Front(running), << >>, <<r>> \o waiting, [st EXCEPT ![r] = "PREEMPTED"])
  BY <1>r, <1>s, <1>4, <1>5, PlacePreempted
<1>8. InPlace'
  BY <1>s, <1>t, <1>1, <1>2, <1>3, <1>7 DEF InPlace
<1>9. Control'
  BY <1>1, <1>2, <1>3, <1>6 DEF QueueInv, Control, Proper
<1> QED
  BY <1>7, <1>8, <1>9 DEF QueueInv

\* Steps that only change the phase.
LEMMA QueuePhase ==
  ASSUME QueueInv, UNCHANGED <<req, waiting, running, conn>>,
         NEW p \in {"waiting", "finish"}, call.phase \in {"running", "waiting"},
         call' = [call EXCEPT !.phase = p]
  PROVE  QueueInv'
<1>2. /\ DOMAIN call' = CallFields /\ call'.phase = p /\ call'.skipped = call.skipped
      /\ call'.req_index = call.req_index /\ call'.new_running = call.new_running
  BY DEF CallFields, QueueInv, Shapes
<1>3. LiveRunning' = LiveRunning
  BY <1>2 DEF LiveRunning
<1>4. Shapes' /\ Statuses' = Statuses
  BY <1>2 DEF QueueInv, Shapes, Statuses
<1>5. Control'
  BY <1>2 DEF QueueInv, Control
<1> QED
  BY <1>2, <1>3, <1>4, <1>5 DEF QueueInv, InPlace

\* The loop over the waiting requests: its head is a waiting request, of which only
\* its status and its computed tokens change.
LEMMA HeadWaits ==
  ASSUME QueueInv, InWaitingLoop
  PROVE  /\ call.phase = "waiting" /\ waiting # << >> /\ Head(waiting) \in Members(waiting)
         /\ Head(waiting) \in Req /\ Statuses[Head(waiting)] \in Waits
         /\ Befits(Head(waiting), Statuses[Head(waiting)])
         /\ Statuses[Head(waiting)] = req[Head(waiting)].status
<1>1. call.phase = "waiting" /\ waiting # << >>
  BY DEF InWaitingLoop
<1>2. Proper(waiting)
  BY DEF QueueInv, InPlace, Placed
<1>3. Head(waiting) \in Members(waiting) /\ Head(waiting) \in Req
  BY <1>1, <1>2, TailProper
<1>4. Statuses[Head(waiting)] \in Waits /\ Befits(Head(waiting), Statuses[Head(waiting)])
  BY <1>3 DEF QueueInv, InPlace, Placed
<1> QED
  BY <1>1, <1>3, <1>4 DEF Statuses

\* What the head of the queue becomes before it is looked at further.
LEMMA HeadBecomes ==
  ASSUME QueueInv, InWaitingLoop, NEW r, r = Head(waiting)
  PROVE  /\ StatusAtHead(r) \in Waits /\ Befits(r, StatusAtHead(r))
         /\ InPlace => Placed(LiveRunning, call.skipped, waiting,
                              [Statuses EXCEPT ![r] = StatusAtHead(r)])
<1>1. r \in Req /\ req[r].status \in Waits /\ Befits(r, req[r].status)
  BY HeadWaits
<1>2. StatusAtHead(r) \in Waits /\ Befits(r, StatusAtHead(r))
  BY <1>1 DEF StatusAtHead, Waits, Befits
<1>3. Statuses[r] \in Waits
  BY HeadWaits
<1> QED
  BY <1>1, <1>2, <1>3, PlaceWaiting DEF InPlace

\* The request at the head is skipped: what is left is to place it with its status.
LEMMA QueueSkip ==
  ASSUME QueueInv, Shapes', InWaitingLoop, NEW v, running' = running,
         waiting' = Tail(waiting), call' = [call EXCEPT !.skipped = <<Head(waiting)>> \o @],
         Head(waiting) \in MaySkip, v \in Waits, Befits(Head(waiting), v),
         Statuses' = [Statuses EXCEPT ![Head(waiting)] = v]
  PROVE  QueueInv'
<1>1. PICK r : r = Head(waiting)
  OBVIOUS
<1>2. r \in Req /\ Statuses[r] \in Waits /\ waiting # << >> /\ call.phase = "waiting"
  BY <1>1, HeadWaits
<1>3. /\ DOMAIN call' = CallFields /\ call'.phase = "waiting"
      /\ call'.skipped = <<r>> \o call.skipped
      /\ call'.req_index = call.req_index /\ call'.new_running = call.new_running
  BY <1>1, <1>2 DEF CallFields, QueueInv, Shapes
<1>4. PICK t : t = [Statuses EXCEPT ![r] = v]
  OBVIOUS
<1>5. Placed(LiveRunning, call.skipped, waiting, t)
  BY <1>1, <1>2, <1>4, PlaceWaiting DEF QueueInv, InPlace
<1>6. Placed(LiveRunning, <<r>> \o call.skipped, Tail(waiting), t)
  BY <1>1, <1>2, <1>5, PlaceSkipped
<1>7. LiveRunning' = LiveRunning
  BY <1>2, <1>3 DEF LiveRunning
<1>8. InPlace'
  BY <1>1, <1>3, <1>4, <1>6, <1>7 DEF InPlace
<1>9. Control'
  BY <1>3 DEF QueueInv, Control
<1> QED
  BY <1>8, <1>9 DEF QueueInv

LEMMA QueueSkipWaiting ==
  ASSUME QueueInv, SkipWaiting PROVE QueueInv'
<1>1. PICK r : r = Head(waiting)
  OBVIOUS
<1>2. /\ UNCHANGED <<req, running, conn>> /\ InWaitingLoop
      /\ waiting' = Tail(waiting) /\ call' = [call EXCEPT !.skipped = <<r>> \o @]
      /\ WaitsForRemote(r) \/ WaitsForGrammar(r)
  BY <1>1 DEF SkipWaiting
<1>3. r \in Req /\ Statuses[r] \in Waits /\ Befits(r, Statuses[r]) /\ Statuses[r] = req[r].status
  BY <1>1, <1>2, HeadWaits
<1>4. r \in MaySkip
  BY <1>2, <1>3 DEF WaitsForRemote, WaitsForGrammar, MaySkip, Befits
<1>5. Statuses' = [Statuses EXCEPT ![r] = Statuses[r]]
  BY <1>2, <1>3 DEF Statuses
<1>6. Shapes'
  BY <1>2 DEF QueueInv, Shapes, CallFields
<1> QED
  BY <1>1, <1>2, <1>3, <1>4, <1>5, <1>6, QueueSkip

\* The shapes that the steps at the head of the queue keep.
LEMMA ShapesAtHead ==
  ASSUME QueueInv, NEW r \in Req, NEW v, NEW n,
         req' = [req EXCEPT ![r].status = v, ![r].num_computed_tokens = n],
         DOMAIN call' = CallFields,
         DOMAIN conn' = DOMAIN conn, conn'.do_remote_prefill \subseteq conn.do_remote_prefill
  PROVE  Shapes' /\ Statuses' = [Statuses EXCEPT ![r] = v]
<1>1. DOMAIN req' = Req /\ \A q \in Req : DOMAIN req'[q] = ReqFields
  BY DEF QueueInv, Shapes, ReqFields
<1>2. \A q \in Req : req'[q].status = IF q = r THEN v ELSE req[q].status
  BY DEF QueueInv, Shapes, ReqFields
<1>3. Statuses' = [Statuses EXCEPT ![r] = v]
  BY <1>2 DEF Statuses
<1> QED
  BY <1>1, <1>3 DEF QueueInv, Shapes

\* The connector forgets what it was told of, and no more.
LEMMA ConnectorKeeps ==
  ASSUME QueueInv, NEW r, NEW b
  PROVE  /\ DOMAIN ConnectorAtHead(r) = DOMAIN conn
         /\ ConnectorAtHead(r).do_remote_prefill = conn.do_remote_prefill
         /\ DOMAIN update_state_after_alloc(conn, r, b) = DOMAIN conn
         /\ update_state_after_alloc(conn, r, b).do_remote_prefill \subseteq conn.do_remote_prefill
         /\ DOMAIN update_state_after_alloc(ConnectorAtHead(r), r, b) = DOMAIN conn
         /\ update_state_after_alloc(ConnectorAtHead(r), r, b).do_remote_prefill
              \subseteq conn.do_remote_prefill
<1>1. DOMAIN conn = {"do_remote_prefill", "reqs_need_recv", "finished_recving"}
  BY DEF QueueInv, Shapes
<1>2. ASSUME NEW c, DOMAIN c = DOMAIN conn
      PROVE  /\ DOMAIN update_state_after_alloc(c, r, b) = DOMAIN conn
             /\ update_state_after_alloc(c, r, b).do_remote_prefill \subseteq c.do_remote_prefill
  BY <1>1, <1>2 DEF update_state_after_alloc
<1>3. /\ DOMAIN ConnectorAtHead(r) = DOMAIN conn
      /\ ConnectorAtHead(r).do_remote_prefill = conn.do_remote_prefill
  BY <1>1 DEF ConnectorAtHead
<1> QED
  BY <1>2, <1>3

LEMMA QueueSkipLora ==
  ASSUME QueueInv, SkipLora PROVE QueueInv'
<1>1. PICK r : r = Head(waiting)
  OBVIOUS
<1>2. /\ running' = running /\ InWaitingLoop /\ ExceedsLoras(r)
      /\ waiting' = Tail(waiting) /\ call' = [call EXCEPT !.skipped = <<r>> \o @]
      /\ conn' = ConnectorAtHead(r) /\ req' = ReqAtHead(r)
  BY <1>1 DEF SkipLora
<1>3. r \in Req /\ StatusAtHead(r) \in Waits /\ Befits(r, StatusAtHead(r))
  BY <1>1, <1>2, HeadWaits, HeadBecomes
<1>4. r \in MaySkip
  BY <1>2, <1>3 DEF ExceedsLoras, MaySkip
<1>5. DOMAIN call' = CallFields
  BY <1>2 DEF QueueInv, Shapes, CallFields
<1>c. DOMAIN conn' = DOMAIN conn /\ conn'.do_remote_prefill \subseteq conn.do_remote_prefill
  BY <1>2, ConnectorKeeps
<1>v. PICK v, n : v = StatusAtHead(r) /\ n = ComputedAtHead(r)
  OBVIOUS
<1>n. req' = [req EXCEPT ![r].status = v, ![r].num_computed_tokens = n]
  BY <1>2, <1>v DEF ReqAtHead
<1>6. Shapes' /\ Statuses' = [Statuses EXCEPT ![r] = StatusAtHead(r)]
  BY <1>c, <1>v, <1>n, <1>3, <1>5, ShapesAtHead
<1> QED
  BY <1>1, <1>2, <1>3, <1>4, <1>6, QueueSkip

LEMMA QueueLoadRemote ==
  ASSUME QueueInv, LoadRemote PROVE QueueInv'
<1>1. PICK r : r = Head(waiting)
  OBVIOUS
<1>2. /\ running' = running /\ InWaitingLoop /\ load_kv_async(r)
      /\ waiting' = Tail(waiting) /\ call' = [call EXCEPT !.skipped = <<r>> \o @]
      /\ \E b : conn' = update_state_after_alloc(conn, r, b)
      /\ req' = [req EXCEPT ![r].status = "WAITING_FOR_REMOTE_KVS"]
  BY <1>1 DEF LoadRemote, LooksUpHead, ConsidersHead
<1>3. r \in Req
  BY <1>1, <1>2, HeadWaits
<1>4. r \in RemotePrefill
  <2>1. PICK x, l : x = ExternalComputed(r) /\ l = LocalComputed(r)
    OBVIOUS
  <2>2. x > 0
    BY <1>2, <2>1 DEF load_kv_async
  <2>3. x # 0 => x = num_external_computed_tokens(conn, r, l)
    BY <2>1 DEF ExternalComputed
  <2>4. r \in conn.do_remote_prefill
    BY <2>2, <2>3 DEF num_external_computed_tokens
  <2> QED
    BY <2>4 DEF QueueInv, Shapes
<1>5. DOMAIN call' = CallFields
  BY <1>2 DEF QueueInv, Shapes, CallFields
<1>6. DOMAIN conn' = DOMAIN conn /\ conn'.do_remote_prefill \subseteq conn.do_remote_prefill
  BY <1>2, ConnectorKeeps
<1>7. Shapes' /\ Statuses' = [Statuses EXCEPT ![r] = "WAITING_FOR_REMOTE_KVS"]
  BY <1>2, <1>3, <1>5, <1>6 DEF QueueInv, Shapes, ReqFields, Statuses
<1>8. "WAITING_FOR_REMOTE_KVS" \in Waits /\ Befits(r, "WAITING_FOR_REMOTE_KVS") /\ r \in MaySkip
  BY <1>4 DEF Waits, Befits, MaySkip
<1> QED
  BY <1>1, <1>2, <1>7, <1>8, QueueSkip

LEMMA QueueStopAtWaiting ==
  ASSUME QueueInv, StopAtWaiting PROVE QueueInv'
<1>1. PICK r : r = Head(waiting)
  OBVIOUS
<1>2. /\ running' = running /\ waiting' = waiting /\ InWaitingLoop
      /\ call' = [call EXCEPT !.phase = "finish"]
      /\ conn' = ConnectorAtHead(r) /\ req' = ReqAtHead(r)
  BY <1>1 DEF StopAtWaiting, LooksUpHead, ConsidersHead
<1>3. r \in Req /\ call.phase = "waiting"
  BY <1>1, <1>2, HeadWaits
<1>4. /\ DOMAIN call' = CallFields /\ call'.phase = "finish" /\ call'.skipped = call.skipped
      /\ call'.req_index = call.req_index /\ call'.new_running = call.new_running
  BY <1>2 DEF QueueInv, Shapes, CallFields
<1>c. DOMAIN conn' = DOMAIN conn /\ conn'.do_remote_prefill \subseteq conn.do_remote_prefill
  BY <1>2, ConnectorKeeps
<1>v. PICK v, n : v = StatusAtHead(r) /\ n = ComputedAtHead(r)
  OBVIOUS
<1>n. req' = [req EXCEPT ![r].status = v, ![r].num_computed_tokens = n]
  BY <1>2, <1>v DEF ReqAtHead
<1>5. Shapes' /\ Statuses' = [Statuses EXCEPT ![r] = StatusAtHead(r)]
  BY <1>c, <1>v, <1>n, <1>3, <1>4, ShapesAtHead
<1>6. Placed(LiveRunning, call.skipped, waiting, [Statuses EXCEPT ![r] = StatusAtHead(r)])
  BY <1>1, <1>2, HeadBecomes DEF QueueInv
<1>7. LiveRunning' = LiveRunning
  BY <1>2, <1>3, <1>4 DEF LiveRunning
<1>8. InPlace'
  BY <1>2, <1>4, <1>5, <1>6, <1>7 DEF InPlace
<1>9. Control'
  BY <1>2, <1>4 DEF QueueInv, Control
<1> QED
  BY <1>5, <1>8, <1>9 DEF QueueInv

LEMMA QueueScheduleWaiting ==
  ASSUME QueueInv, ScheduleWaiting PROVE QueueInv'
<1>1. PICK r : r = Head(waiting)
  OBVIOUS
<1>2. /\ running' = Append(running, r) /\ waiting' = Tail(waiting) /\ InWaitingLoop
      /\ \E b, e, o : call' = [call EXCEPT !.token_budget = b, !.encoder_budget = e, !.output = o]
      /\ conn' = update_state_after_alloc(ConnectorAtHead(r), r, {})
      /\ \E n : req' = [req EXCEPT ![r].status = "RUNNING", ![r].num_computed_tokens = n]
  BY <1>1 DEF ScheduleWaiting, LooksUpHead, ConsidersHead
<1>3. r \in Req /\ call.phase = "waiting" /\ waiting # << >>
  BY <1>1, <1>2, HeadWaits
<1>4. /\ DOMAIN call' = CallFields /\ call'.phase = "waiting" /\ call'.skipped = call.skipped
      /\ call'.req_index = call.req_index /\ call'.new_running = call.new_running
  BY <1>2, <1>3 DEF QueueInv, Shapes, CallFields
<1>c. DOMAIN conn' = DOMAIN conn /\ conn'.do_remote_prefill \subseteq conn.do_remote_prefill
  BY <1>2, ConnectorKeeps
<1>n. PICK n : req' = [req EXCEPT ![r].status = "RUNNING", ![r].num_computed_tokens = n]
  BY <1>2
<1>5. Shapes' /\ Statuses' = [Statuses EXCEPT ![r] = "RUNNING"]
  BY <1>c, <1>n, <1>3, <1>4, ShapesAtHead
<1>6. LiveRunning = running /\ LiveRunning' = running' /\ running \in Seq(Req)
  BY <1>3, <1>4 DEF LiveRunning, QueueInv, Control
<1>7. Placed(Append(running, r), call.skipped, Tail(waiting), [Statuses EXCEPT ![r] = "RUNNING"])
  BY <1>1, <1>3, <1>6, PlaceScheduled DEF QueueInv, InPlace
<1>8. InPlace'
  BY <1>2, <1>4, <1>5, <1>6, <1>7 DEF InPlace
<1>9. running' \in Seq(Req)
  BY <1>2, <1>3, <1>6
<1>10. Control'
  BY <1>4, <1>9 DEF QueueInv, Control
<1> QED
  BY <1>5, <1>8, <1>10 DEF QueueInv

-----------------------------------------------------------------------------
\* A call begins, or there is none: its locals are fresh.
Fresh(c) ==
  DOMAIN c = CallFields /\ c.skipped = << >> /\ c.new_running = << >> /\ c.req_index = 1

LEMMA FreshCalls ==
  ASSUME NEW o, NEW a, NEW b
  PROVE  /\ Fresh(NoCall) /\ Fresh([NoCall EXCEPT !.phase = "execute", !.output = o])
         /\ Fresh(BeginUpdate(o))
         /\ Fresh([BeginUpdate(o) EXCEPT !.finished_recving = a, !.finished_sending = b])
<1>1. Fresh(NoCall)
  BY DEF Fresh, NoCall, CallFields
<1>2. ASSUME NEW c, Fresh(c), NEW p
      PROVE  /\ Fresh([c EXCEPT !.phase = p, !.output = o])
             /\ Fresh([c EXCEPT !.finished_recving = a, !.finished_sending = b])
  BY <1>2 DEF Fresh, CallFields
<1>3. Fresh(BeginUpdate(o)) /\ Fresh([NoCall EXCEPT !.phase = "execute", !.output = o])
  BY <1>1, <1>2 DEF BeginUpdate
<1> QED
  BY <1>1, <1>2, <1>3

LEMMA FreshQueues ==
  ASSUME Fresh(call'), Shapes', running' \in Seq(Req),
         Placed(running', << >>, waiting', Statuses')
  PROVE  QueueInv'
<1>1. /\ call'.skipped = << >> /\ call'.new_running = << >> /\ call'.req_index = 1
  BY DEF Fresh
<1>2. PICK s : s = running'
  OBVIOUS
<1>3. s \in Seq(Req) /\ SubSeq(s, 1, Len(s)) = s /\ << >> \o s = s
  BY <1>2
<1>4. LiveRunning' = running'
  BY <1>1, <1>2, <1>3 DEF LiveRunning
<1>5. InPlace'
  BY <1>1, <1>4 DEF InPlace
<1>6. << >> \in Seq(Req) /\ 1 \in Nat \ {0} /\ 1 <= Len(running') + 1
  BY <1>2, <1>3
<1>7. Control'
  BY <1>1, <1>6 DEF Control
<1> QED
  BY <1>5, <1>7 DEF QueueInv

LEMMA QueueStepDrains ==
  ASSUME QueueInv, StepDrains PROVE QueueInv'
<1>1. /\ UNCHANGED <<req, waiting, running, conn>> /\ call.phase = "idle"
      /\ call' = BeginUpdate(Head(batch_queue))
  BY DEF StepDrains
<1>2. Fresh(call')
  BY <1>1, FreshCalls
<1>3. LiveRunning = running /\ call.skipped = << >> /\ running \in Seq(Req)
  BY <1>1 DEF LiveRunning, QueueInv, Control
<1>4. Shapes' /\ Statuses' = Statuses
  BY <1>1, <1>2 DEF QueueInv, Shapes, Statuses, Fresh
<1>5. Placed(running', << >>, waiting', Statuses')
  BY <1>1, <1>3, <1>4 DEF QueueInv, InPlace
<1> QED
  BY <1>1, <1>2, <1>3, <1>4, <1>5, FreshQueues

LEMMA QueueExecuteModel ==
  ASSUME QueueInv, ExecuteModel PROVE QueueInv'
<1>1. /\ UNCHANGED <<req, waiting, running, conn>> /\ call.phase = "execute"
      /\ \E a, b : call' = [BeginUpdate(call.output) EXCEPT !.finished_recving = a,
                                                           !.finished_sending = b]
  BY DEF ExecuteModel
<1>a. PICK o, a, b : call' = [BeginUpdate(o) EXCEPT !.finished_recving = a, !.finished_sending = b]
  BY <1>1
<1>2. Fresh(call')
  BY <1>a, FreshCalls
<1>3. LiveRunning = running /\ call.skipped = << >> /\ running \in Seq(Req)
  BY <1>1 DEF LiveRunning, QueueInv, Control
<1>4. Shapes' /\ Statuses' = Statuses
  BY <1>1, <1>2 DEF QueueInv, Shapes, Statuses, Fresh
<1>5. Placed(running', << >>, waiting', Statuses')
  BY <1>1, <1>3, <1>4 DEF QueueInv, InPlace
<1> QED
  BY <1>1, <1>2, <1>3, <1>4, <1>5, FreshQueues

LEMMA QueueStepDispatches ==
  ASSUME QueueInv, StepDispatches PROVE QueueInv'
<1>1. /\ running' = running /\ call.phase = "finish"
      /\ waiting' = Reverse(call.skipped) \o waiting
      /\ conn' = [conn EXCEPT !.reqs_need_recv = {}]
      /\ req' = [r \in Req |-> [req[r] EXCEPT
                    !.num_computed_tokens = @ + call.output.num_scheduled_tokens[r]]]
  BY DEF StepDispatches, EndSchedule, ExtendLeft
<1>2. Fresh(call')
  <2>1. \/ call' = NoCall
        \/ call' = [NoCall EXCEPT !.phase = "execute", !.output = OutputOfCall]
        \/ call' = BeginUpdate(Head(batch_queue))
    BY DEF StepDispatches
  <2> QED
    BY <2>1, FreshCalls
<1>3. LiveRunning = running /\ running \in Seq(Req)
  BY <1>1 DEF LiveRunning, QueueInv, Control
<1>4. \A r \in Req : DOMAIN req'[r] = DOMAIN req[r] /\ req'[r].status = req[r].status
  BY <1>1 DEF QueueInv, Shapes, ReqFields
<1>5. DOMAIN conn' = DOMAIN conn /\ conn'.do_remote_prefill = conn.do_remote_prefill
  BY <1>1 DEF QueueInv, Shapes
<1>6. Shapes' /\ Statuses' = Statuses
  BY <1>1, <1>2, <1>4, <1>5 DEF QueueInv, Shapes, Statuses, Fresh
<1>7. Placed(running', << >>, waiting', Statuses')
  BY <1>1, <1>3, <1>6, PlacePutBack DEF QueueInv, InPlace
<1> QED
  BY <1>1, <1>2, <1>3, <1>6, <1>7, FreshQueues

-----------------------------------------------------------------------------
\* Sequences of requests are put together in any order.
LEMMA JoinAssociative ==
  ASSUME NEW p \in Seq(Req), NEW q \in Seq(Req), NEW s \in Seq(Req)
  PROVE  (p \o q) \o s = p \o (q \o s)
  BY ConcatAssociative

\* The steps of update_from_output().  The rest of the running list loses its first
\* request, which the new list takes or not.
LEMMA RestOfRunning ==
  ASSUME NEW s \in Seq(Req), NEW n \in Seq(Req), NEW i \in 1..Len(s)
  PROVE  /\ s[i] \in Req /\ SubSeq(s, i, Len(s)) \in Seq(Req)
         /\ SubSeq(s, i + 1, Len(s)) \in Seq(Req)
         /\ SubSeq(s, i, Len(s)) = <<s[i]>> \o SubSeq(s, i + 1, Len(s))
         /\ Append(n, s[i]) \o SubSeq(s, i + 1, Len(s)) = n \o SubSeq(s, i, Len(s))
<1>1. PICK m : m = Len(s)
  OBVIOUS
<1>2. m \in Nat /\ i \in 1..m /\ m \in i..m /\ \A j \in 1..m : s[j] \in Req
  BY <1>1
<1>3. PICK u : u = SubSeq(s, i + 1, m)
  OBVIOUS
<1>4. u \in Seq(Req) /\ SubSeq(s, i, m) \in Seq(Req)
  <2>1. i \in Int /\ i + 1 \in Int /\ m \in Int /\ \A j \in i..m : s[j] \in Req
    BY <1>2
  <2>2. \A j \in (i + 1)..m : s[j] \in Req
    BY <1>2
  <2> QED
    BY <2>1, <2>2, <1>3, SubSeqProperties
<1>5. SubSeq(s, i, m) = <<s[i]>> \o u
  BY <1>1, <1>2, <1>3, SubSeqRecursiveFirst
<1>6. PICK e : e = <<s[i]>>
  OBVIOUS
<1>7. s[i] \in Req /\ e \in Seq(Req)
  BY <1>2, <1>6
<1>8. Append(n, s[i]) = n \o e
  BY <1>6, <1>7, AppendIsConcat
<1>9. (n \o e) \o u = n \o (e \o u)
  BY <1>4, <1>7, JoinAssociative
<1> QED
  BY <1>1, <1>3, <1>4, <1>5, <1>6, <1>7, <1>8, <1>9

\* A list without one request in its middle.
LEMMA DropProper ==
  ASSUME NEW n, NEW u, NEW r \in Req, n \in Seq(Req), u \in Seq(Req), Proper(n \o (<<r>> \o u))
  PROVE  Proper(n \o u) /\ Members(n \o u) = Members(n \o (<<r>> \o u)) \ {r}
         /\ r \in Members(n \o (<<r>> \o u))
<1>1. PICK e : e = <<r>>
  OBVIOUS
<1>2. e \in Seq(Req) /\ Members(e) = {r}
  BY <1>1, OneProper DEF Proper
<1>3. PICK w : w = e \o u
  OBVIOUS
<1>4. /\ w \in Seq(Req) /\ Members(w) = {r} \cup Members(u)
      /\ IsInjective(w) => IsInjective(u) /\ {r} \cap Members(u) = {}
      /\ Ordered(w) => Ordered(u)
  BY <1>2, <1>3, ConcatProper
<1>5. IsInjective(n \o w) /\ Ordered(n \o w)
  BY <1>1, <1>3 DEF Proper
<1>6. /\ Members(n \o w) = Members(n) \cup Members(w)
      /\ IsInjective(n) /\ IsInjective(w) /\ Members(n) \cap Members(w) = {}
      /\ Ordered(n) /\ Ordered(w) /\ AheadOf(Members(n), Members(w))
  BY <1>4, <1>5, ConcatProper
<1>7. Members(n) \cap Members(u) = {} /\ AheadOf(Members(n), Members(u))
  BY <1>4, <1>6 DEF AheadOf
<1>8. Proper(n) /\ Proper(u)
  BY <1>4, <1>6 DEF Proper
<1>9. Proper(n \o u) /\ Members(n \o u) = Members(n) \cup Members(u)
  BY <1>7, <1>8, JoinProper
<1>10. Members(n \o u) = Members(n \o w) \ {r} /\ r \in Members(n \o w)
  BY <1>4, <1>6, <1>9
<1> QED
  BY <1>1, <1>3, <1>9, <1>10

\* The request at hand in the loop of update_from_output().
LEMMA CurrentRuns ==
  ASSUME QueueInv, InUpdateLoop
  PROVE  /\ call.phase = "update" /\ call.req_index \in 1..Len(running)
         /\ running \in Seq(Req) /\ call.new_running \in Seq(Req)
         /\ Current \in Req /\ Current = running[call.req_index]
         /\ LiveRunning = call.new_running \o SubSeq(running, call.req_index, Len(running))
<1>1. call.phase = "update" /\ call.req_index \in Nat \ {0} /\ call.req_index <= Len(running)
      /\ running \in Seq(Req) /\ call.new_running \in Seq(Req)
  BY DEF InUpdateLoop, QueueInv, Control
<1>2. call.req_index \in 1..Len(running)
  BY <1>1
<1> QED
  BY <1>1, <1>2 DEF Current, LiveRunning

\* The request at hand stays.
LEMMA QueueStays ==
  ASSUME QueueInv, InUpdateLoop, UNCHANGED <<waiting, running, conn>>,
         DOMAIN req' = Req, \A r \in Req : DOMAIN req'[r] = ReqFields,
         \A r \in Req : req'[r].status = req[r].status,
         call' = [call EXCEPT !.req_index = @ + 1, !.new_running = Append(@, Current)]
  PROVE  QueueInv'
<1>1. PICK i, n, s : i = call.req_index /\ n = call.new_running /\ s = running
  OBVIOUS
<1>2. /\ call.phase = "update" /\ i \in 1..Len(s) /\ s \in Seq(Req) /\ n \in Seq(Req)
      /\ s[i] \in Req /\ Current = s[i] /\ LiveRunning = n \o SubSeq(s, i, Len(s))
  BY <1>1, CurrentRuns
<1>3. /\ DOMAIN call' = CallFields /\ call'.phase = "update" /\ call'.skipped = call.skipped
      /\ call'.req_index = i + 1 /\ call'.new_running = Append(n, s[i])
  BY <1>1, <1>2 DEF CallFields, QueueInv, Shapes
<1>4. LiveRunning' = Append(n, s[i]) \o SubSeq(s, i + 1, Len(s))
  BY <1>1, <1>3 DEF LiveRunning
<1>5. LiveRunning' = LiveRunning
  BY <1>2, <1>4, RestOfRunning
<1>6. Statuses' = Statuses
  BY DEF Statuses
<1>7. Shapes'
  BY <1>3 DEF QueueInv, Shapes
<1>8. Append(n, s[i]) \in Seq(Req) /\ i + 1 \in Nat \ {0} /\ i + 1 <= Len(s) + 1
  BY <1>2
<1>9. Control'
  BY <1>1, <1>2, <1>3, <1>8 DEF QueueInv, Control
<1> QED
  BY <1>3, <1>5, <1>6, <1>7, <1>9 DEF QueueInv, InPlace

LEMMA QueueKeepUnscheduled ==
  ASSUME QueueInv, KeepUnscheduled PROVE QueueInv'
<1>1. /\ InUpdateLoop /\ UNCHANGED <<req, waiting, running, conn>>
      /\ call' = [call EXCEPT !.req_index = @ + 1, !.new_running = Append(@, Current)]
  BY DEF KeepUnscheduled
<1>2. /\ DOMAIN req' = Req
      /\ \A r \in Req : DOMAIN req'[r] = ReqFields /\ req'[r].status = req[r].status
  BY <1>1 DEF QueueInv, Shapes
<1> QED
  BY <1>1, <1>2, QueueStays

LEMMA QueueUpdateContinues ==
  ASSUME QueueInv, InUpdateLoop, NEW g, NEW d, UpdateContinues(Current, g, d) PROVE QueueInv'
<1>1. PICK r, a, b : r = Current /\ a = req[r].num_tokens + g /\ b = ComputedAfter(r, g)
  OBVIOUS
<1>2. /\ req' = [req EXCEPT ![r].num_tokens = a, ![r].num_computed_tokens = b,
                            ![r].spec_token_ids = d]
      /\ call' = [call EXCEPT !.req_index = @ + 1, !.new_running = Append(@, Current)]
      /\ UNCHANGED <<waiting, running, conn>>
  BY <1>1 DEF UpdateContinues
<1>3. /\ DOMAIN req' = Req
      /\ \A q \in Req : DOMAIN req'[q] = ReqFields /\ req'[q].status = req[q].status
  BY <1>2 DEF QueueInv, Shapes, ReqFields
<1> QED
  BY <1>2, <1>3, QueueStays

LEMMA QueueUpdateStops ==
  ASSUME QueueInv, InUpdateLoop, NEW g, UpdateStops(Current, g) PROVE QueueInv'
<1>1. PICK i, n, s, r : i = call.req_index /\ n = call.new_running /\ s = running /\ r = Current
  OBVIOUS
<1>2. /\ call.phase = "update" /\ i \in 1..Len(s) /\ s \in Seq(Req) /\ n \in Seq(Req)
      /\ r \in Req /\ r = s[i] /\ LiveRunning = n \o SubSeq(s, i, Len(s))
  BY <1>1, CurrentRuns
<1>3. /\ \E a, b : req' = [req EXCEPT ![r].status = "FINISHED", ![r].num_tokens = a,
                                      ![r].num_computed_tokens = b]
      /\ call' = [call EXCEPT !.req_index = @ + 1] /\ UNCHANGED <<waiting, running, conn>>
  BY <1>1 DEF UpdateStops
<1>4. /\ DOMAIN call' = CallFields /\ call'.phase = "update" /\ call'.skipped = call.skipped
      /\ call'.req_index = i + 1 /\ call'.new_running = n
  BY <1>1, <1>2, <1>3 DEF CallFields, QueueInv, Shapes
<1>5. DOMAIN req' = Req /\ \A q \in Req : DOMAIN req'[q] = ReqFields
  BY <1>3 DEF QueueInv, Shapes, ReqFields
<1>6. \A q \in Req : req'[q].status = IF q = r THEN "FINISHED" ELSE req[q].status
  BY <1>2, <1>3 DEF QueueInv, Shapes, ReqFields
<1>7. Shapes' /\ Statuses' = [Statuses EXCEPT ![r] = "FINISHED"]
  BY <1>3, <1>4, <1>5, <1>6 DEF QueueInv, Shapes, Statuses
<1>8. PICK u : u = SubSeq(s, i + 1, Len(s))
  OBVIOUS
<1>9. u \in Seq(Req) /\ LiveRunning = n \o (<<r>> \o u) /\ LiveRunning' = n \o u
  <2>1. LiveRunning' = n \o u
    BY <1>1, <1>3, <1>4, <1>8 DEF LiveRunning
  <2>2. u \in Seq(Req) /\ SubSeq(s, i, Len(s)) = <<r>> \o u
    BY <1>2, <1>8, RestOfRunning
  <2> QED
    BY <2>1, <2>2, <1>2
<1>10. Proper(LiveRunning)
  BY DEF QueueInv, InPlace, Placed
<1>11. Proper(n \o u) /\ Members(n \o u) = Members(LiveRunning) \ {r} /\ r \in Members(LiveRunning)
  BY <1>2, <1>9, <1>10, DropProper
<1>12. Statuses[r] = "RUNNING"
  BY <1>11 DEF QueueInv, InPlace, Placed
<1>13. Placed(n \o u, call.skipped, waiting, [Statuses EXCEPT ![r] = "FINISHED"])
  BY <1>2, <1>11, <1>12, PlaceFinishedRunning DEF QueueInv, InPlace
<1>14. InPlace'
  BY <1>3, <1>4, <1>7, <1>9, <1>13 DEF InPlace
<1>15. i + 1 \in Nat \ {0} /\ i + 1 <= Len(s) + 1
  BY <1>2
<1>16. Control'
  BY <1>1, <1>2, <1>3, <1>4, <1>15 DEF QueueInv, Control
<1> QED
  BY <1>7, <1>14, <1>16 DEF QueueInv

LEMMA QueueEndUpdate ==
  ASSUME QueueInv, EndUpdate PROVE QueueInv'
<1>1. /\ call.phase = "update" /\ ~InUpdateLoop /\ UNCHANGED <<req, waiting>>
      /\ running' = call.new_running /\ call' = NoCall
      /\ \E x : conn' = [conn EXCEPT !.finished_recving = x]
  BY DEF EndUpdate
<1>2. Fresh(call')
  BY <1>1, FreshCalls
<1>3. PICK i, n, s : i = call.req_index /\ n = call.new_running /\ s = running
  OBVIOUS
<1>4. i \in Nat /\ n \in Seq(Req) /\ s \in Seq(Req) /\ Len(s) < i /\ call.skipped = << >>
  BY <1>1, <1>3 DEF QueueInv, Control, InUpdateLoop
<1>5. SubSeq(s, i, Len(s)) = << >> /\ n \o << >> = n
  <2>1. i \in Int /\ Len(s) \in Int
    BY <1>4
  <2> QED
    BY <2>1, <1>4, SubSeqEmpty, ConcatEmptySeq
<1>6. LiveRunning = running'
  BY <1>1, <1>3, <1>5 DEF LiveRunning
<1>7. Shapes' /\ Statuses' = Statuses
  BY <1>1, <1>2 DEF QueueInv, Shapes, Statuses, Fresh
<1>8. Placed(running', << >>, waiting', Statuses')
  BY <1>1, <1>4, <1>6, <1>7 DEF QueueInv, InPlace
<1> QED
  BY <1>1, <1>2, <1>3, <1>4, <1>7, <1>8, FreshQueues

LEMMA QueueUpdateScheduled ==
  ASSUME QueueInv, UpdateScheduled PROVE QueueInv'
<1>1. /\ InUpdateLoop
      /\ \E g : (\E d : UpdateContinues(Current, g, d)) \/ UpdateStops(Current, g)
  BY DEF UpdateScheduled
<1>2. PICK g : (\E d : UpdateContinues(Current, g, d)) \/ UpdateStops(Current, g)
  BY <1>1
<1>3. CASE \E d : UpdateContinues(Current, g, d)
  BY <1>1, <1>3, QueueUpdateContinues
<1>4. CASE UpdateStops(Current, g)
  BY <1>1, <1>4, QueueUpdateStops
<1> QED
  BY <1>2, <1>3, <1>4

LEMMA QueueRunningLoopEnds ==
  ASSUME QueueInv, RunningLoopEnds PROVE QueueInv'
<1>1. PICK p : p = IF MayAdmit THEN "waiting" ELSE "finish"
  OBVIOUS
<1>2. /\ UNCHANGED <<req, waiting, running, conn>> /\ call.phase = "running"
      /\ call' = [call EXCEPT !.phase = p] /\ p \in {"waiting", "finish"}
  BY <1>1 DEF RunningLoopEnds
<1> QED
  BY <1>2, QueuePhase

LEMMA QueueWaitingLoopEnds ==
  ASSUME QueueInv, WaitingLoopEnds PROVE QueueInv'
<1>1. /\ UNCHANGED <<req, waiting, running, conn>> /\ call.phase = "waiting"
      /\ call' = [call EXCEPT !.phase = "finish"]
  BY DEF WaitingLoopEnds
<1> QED
  BY <1>1, QueuePhase

LEMMA QueueNext ==
  ASSUME QueueInv, [Steps]_engineVars PROVE QueueInv'
<1>1. ASSUME NEW r \in Req, AddRequest(r) \/ AbortRequest(r) \/ CompileGrammar(r) PROVE QueueInv'
  <2>1. CASE AddRequest(r)
    BY <2>1, QueueAdd
  <2>2. CASE AbortRequest(r)
    BY <2>2, QueueAbort
  <2>3. CASE CompileGrammar(r)
    BY <2>3, QueueFrame DEF CompileGrammar, GrammarCompiled
  <2> QED
    BY <1>1, <2>1, <2>2, <2>3
<1>2. ASSUME NEW k \in Ranks, NEW r \in Req, TransferArrives(k, r) \/ TransferIsRead(k, r)
      PROVE  QueueInv'
  BY <1>2, QueueFrame DEF TransferArrives, TransferIsRead, schedulerVars
<1>3. CASE ResetPrefixCache
  BY <1>3, QueueFrame DEF ResetPrefixCache
<1>4. CASE ScheduleSteps
  BY <1>4, QueueSkipRunning, QueueScheduleRunning, QueuePreemptLast, QueueRunningLoopEnds,
     QueueSkipWaiting, QueueSkipLora, QueueScheduleWaiting, QueueLoadRemote, QueueStopAtWaiting,
     QueueWaitingLoopEnds
  DEF ScheduleSteps
<1>5. CASE UpdateSteps
  BY <1>5, QueueKeepUnscheduled, QueueUpdateScheduled, QueueEndUpdate DEF UpdateSteps
<1>6. CASE EngineStep
  BY <1>4, <1>5, <1>6, QueueStepSchedules, QueueStepDrains, QueueStepDispatches,
     QueueExecuteModel DEF EngineStep
<1>7. CASE UNCHANGED engineVars
  BY <1>7, QueueFrame DEF engineVars, schedulerVars
<1> QED
  BY <1>1, <1>2, <1>3, <1>6, <1>7 DEF Steps

\* An abort that ends the engine core changes nothing else.
LEMMA NextSteps == [Next]_vars => [Steps]_engineVars
  BY DEF Next, AbortRaises, vars

\* The requests are in place in every state that the engine reaches.
THEOREM QueueInvariant == Spec => []QueueInv
<1>1. Init => QueueInv
  BY QueueInit
<1>2. QueueInv /\ [Next]_vars => QueueInv'
  BY QueueNext, NextSteps
<1> QED
  BY <1>1, <1>2, PTL DEF Spec

\* Every request that has arrived and not finished is in exactly one of the lists, the
\* one that fits its status, whatever was skipped, preempted, resumed or received; a
\* finished one is in none.  So `running.remove` and `waiting.remove` of finish_requests
\* find an unfinished request, and raise for a finished one that self.requests still
\* holds because its blocks are being sent (AbortRaises).
THEOREM RequestsHaveOnePlace == Spec => []OnePlace
<1>1. QueueInv => OnePlace
  <2> SUFFICES ASSUME QueueInv PROVE OnePlace
    OBVIOUS
  <2>1. PICK R, K, W, st : R = LiveRunning /\ K = call.skipped /\ W = waiting /\ st = Statuses
    OBVIOUS
  <2>2. Placed(R, K, W, st)
    BY <2>1 DEF QueueInv, InPlace
  <2>3. /\ R \in Seq(Req) /\ W \in Seq(Req) /\ K \in Seq(Req)
        /\ IsInjective(R) /\ IsInjective(W) /\ IsInjective(K)
        /\ Members(W) \cap Members(K) = {}
    BY <2>2 DEF Placed, Proper
  <2>4. PICK Q : Q = W \o K
    OBVIOUS
  <2>5. Q \in Seq(Req) /\ IsInjective(Q) /\ Members(Q) = Members(W) \cup Members(K)
    BY <2>3, <2>4, ConcatProper
  <2>6. Members(R) \cap Members(Q) = {}
    BY <2>2, <2>5 DEF Placed, Waits
  <2>7. IsInjective(R \o Q)
    BY <2>3, <2>5, <2>6, ConcatProper
  <2>8. \A r \in Req : st[r] = req[r].status /\ st[r] \in Status
    BY <2>1, <2>2 DEF Statuses, Placed
  <2>9. Members(R) = {r \in Req : req[r].status = "RUNNING"}
    BY <2>2, <2>8 DEF Placed
  <2>10. \A r \in Req : st[r] \in Waits <=> Live(r) /\ req[r].status # "RUNNING"
    BY <2>8 DEF Live, Waits, Status
  <2>11. Members(Q) = {r \in Req : st[r] \in Waits}
    BY <2>2, <2>5 DEF Placed
  <2>12. Members(Q) = {r \in Req : Live(r) /\ req[r].status # "RUNNING"}
    BY <2>10, <2>11
  <2> QED
    BY <2>1, <2>4, <2>7, <2>9, <2>12 DEF OnePlace, Queued
<1> QED
  BY <1>1, QueueInvariant, PTL

\* First come, first served: requests that are never skipped stand in the order of
\* their arrival along the running list and the waiting queue.
THEOREM ServedInOrder == Spec => []FirstComeFirstServed
<1>1. QueueInv => FirstComeFirstServed
  <2> SUFFICES ASSUME QueueInv PROVE FirstComeFirstServed
    OBVIOUS
  <2>1. PICK R, K, W, st : R = LiveRunning /\ K = call.skipped /\ W = waiting /\ st = Statuses
    OBVIOUS
  <2>2. Placed(R, K, W, st)
    BY <2>1 DEF QueueInv, InPlace
  <2>3. PICK v : v = Reverse(K)
    OBVIOUS
  <2>4. v \in Seq(Req) /\ R \in Seq(Req) /\ W \in Seq(Req)
    BY <2>2, <2>3, ReverseMembers DEF Placed, Proper
  <2>5. PICK w : w = v \o W
    OBVIOUS
  <2>6. Placed(R, << >>, w, st)
    BY <2>2, <2>3, <2>5, PlacePutBack
  <2>7. w \in Seq(Req) /\ Ordered(R) /\ Ordered(w) /\ AheadOf(Members(R), Members(w))
    BY <2>6 DEF Placed, Proper
  <2>8. Ordered(R \o w)
    BY <2>4, <2>7, ConcatProper
  <2>9. (R \o v) \o W = R \o w
    BY <2>4, <2>5, JoinAssociative
  <2>10. Ordered(Line)
    BY <2>1, <2>3, <2>8, <2>9 DEF Line
  <2> QED
    BY <2>10 DEF Ordered, FirstComeFirstServed
<1> QED
  BY <1>1, QueueInvariant, PTL

-----------------------------------------------------------------------------
\* The scheduler output, with one batch at a time: while schedule() builds it, it
\* records the scheduled requests as they are; when it is executed and applied, the
\* requests have advanced by just what it says, until their turn comes.
OutputFields ==
  {"num_scheduled_tokens", "spec", "num_computed_tokens", "num_tokens", "new", "resumed", "ran",
   "finished", "new_block_ids", "encoder_inputs", "free_encoder_input_ids", "kv_meta"}
OutputShape(o) ==
  /\ DOMAIN o = OutputFields
  /\ DOMAIN o.num_scheduled_tokens = Req /\ DOMAIN o.num_computed_tokens = Req
  /\ DOMAIN o.num_tokens = Req
  /\ o.ran \in Seq(Req) /\ o.resumed \in Seq(Req)
IsScheduled(r) == call.output.num_scheduled_tokens[r] > 0

\* In schedule(): the output tells a scheduled request's state.
Records(r) ==
  /\ req[r].status = "RUNNING"
  /\ call.output.num_computed_tokens[r] = req[r].num_computed_tokens
  /\ call.output.num_tokens[r] = req[r].num_tokens
\* After it: the scheduled tokens are counted as computed.
Advanced(r) ==
  /\ req[r].num_computed_tokens
       = call.output.num_computed_tokens[r] + call.output.num_scheduled_tokens[r]
  /\ req[r].num_tokens = call.output.num_tokens[r]
StillToCome == {running[j] : j \in call.req_index..Len(running)}

OutputRecords ==
  /\ OutputShape(call.output)
  /\ call.phase \in {"running", "waiting", "finish"} =>
       \A r \in Req : IsScheduled(r) => Records(r)
  /\ call.phase = "running" => \A r \in StillToCome : ~IsScheduled(r)
  /\ call.phase \in {"execute", "update"} => \A r \in StillToCome : IsScheduled(r) => Advanced(r)
  /\ call.phase = "execute" => call.req_index = 1

\* Cached request data: of the requests that the output will return it for, those that
\* are finished have finished since.
CachedData ==
  /\ DOMAIN cached_reqs_data = Req
  /\ \A r \in Req : req[r].status = "FINISHED" => cached_reqs_data[r] = 0
  /\ call.phase # "idle" =>
       \A r \in ScheduledCached(call.output) :
         Live(r) \/ (call.phase = "update" /\ r \in finished_req_ids)

OutputInv == OutputRecords /\ CachedData

LEMMA EmptyOutput ==
  /\ OutputShape(NoOutput) /\ ScheduledCached(NoOutput) = {}
  /\ \A r \in Req : NoOutput.num_scheduled_tokens[r] = 0
<1>1. << >> \in Seq(Req) /\ Members(<< >>) = {}
  BY DEF Members
<1>2. NoOutput.ran = << >> /\ NoOutput.resumed = << >> /\ DOMAIN NoOutput = OutputFields
  BY DEF NoOutput, OutputFields
<1>3. /\ NoOutput.num_scheduled_tokens = NoTokens /\ NoOutput.num_computed_tokens = NoTokens
      /\ NoOutput.num_tokens = NoTokens
  BY DEF NoOutput
<1>4. DOMAIN NoTokens = Req /\ \A r \in Req : NoTokens[r] = 0
  BY DEF NoTokens
<1> QED
  BY <1>1, <1>2, <1>3, <1>4 DEF OutputShape, ScheduledCached

LEMMA OutputInit == Init => OutputInv
<1> SUFFICES ASSUME Init PROVE OutputInv
  OBVIOUS
<1>1. /\ req = [r \in Req |-> [status |-> "NEW", num_tokens |-> PromptLen[r],
                           num_computed_tokens |-> 0, spec_token_ids |-> 0]]
      /\ cached_reqs_data = NoTokens /\ call = NoCall
  BY DEF Init, SchedulerInit
<1>2. call.phase = "idle" /\ call.output = NoOutput
  BY <1>1 DEF NoCall
<1>3. OutputRecords
  BY <1>2, EmptyOutput DEF OutputRecords
<1>4. CachedData
  BY <1>1, <1>2 DEF CachedData, NoTokens
<1> QED
  BY <1>3, <1>4 DEF OutputInv

LEMMA OutputFrame ==
  ASSUME OutputInv, UNCHANGED <<req, running, finished_req_ids, cached_reqs_data, call>>
  PROVE  OutputInv'
  BY DEF OutputInv, OutputRecords, CachedData, StillToCome, IsScheduled, Records, Advanced, Live

\* The requests of an output.
LEMMA CachedAreRequests ==
  ASSUME NEW o, OutputShape(o) PROVE ScheduledCached(o) \subseteq Req
<1>1. o.ran \in Seq(Req) /\ o.resumed \in Seq(Req)
  BY DEF OutputShape
<1>2. ASSUME NEW q \in Seq(Req) PROVE Members(q) \subseteq Req
  BY DEF Members
<1> QED
  BY <1>1, <1>2 DEF ScheduledCached

\* The rest of a list, from an index on.
LEMMA RestAreRequests ==
  ASSUME NEW s \in Seq(Req), NEW i \in Nat \ {0}
  PROVE  {s[j] : j \in i..Len(s)} \subseteq Req
<1>1. PICK n : n = Len(s)
  OBVIOUS
<1>2. n \in Nat /\ \A j \in 1..n : s[j] \in Req
  BY <1>1
<1>3. \A j \in i..n : j \in 1..n
  BY <1>2
<1> QED
  BY <1>1, <1>2, <1>3
LEMMA RestShrinks ==
  ASSUME NEW s \in Seq(Req), NEW i \in Nat \ {0}
  PROVE  {s[j] : j \in (i + 1)..Len(s)} \subseteq {s[j] : j \in i..Len(s)}
<1>1. PICK n : n = Len(s)
  OBVIOUS
<1>2. n \in Nat
  BY <1>1
<1>3. \A j \in (i + 1)..n : j \in i..n
  BY <1>2
<1> QED
  BY <1>1, <1>3
LEMMA RestDiffers ==
  ASSUME NEW s \in Seq(Req), NEW i \in Nat \ {0}, i <= Len(s), IsInjective(s)
  PROVE  s[i] \notin {s[j] : j \in (i + 1)..Len(s)}
<1>1. PICK n : n = Len(s)
  OBVIOUS
<1>2. n \in Nat /\ DOMAIN s = 1..n /\ i <= n
  BY <1>1
<1>3. i \in DOMAIN s /\ \A j \in (i + 1)..n : j \in DOMAIN s /\ j # i
  BY <1>2
<1>4. \A j \in (i + 1)..n : s[j] # s[i]
  BY <1>3 DEF IsInjective
<1> QED
  BY <1>1, <1>4

\* Client messages, between two steps.
LEMMA OutputAdd ==
  ASSUME QueueInv, OutputInv, NEW r \in Req, AddRequest(r) PROVE OutputInv'
<1>1. PICK v : v = IF r \in Guided THEN "WAITING_FOR_FSM" ELSE "WAITING"
  OBVIOUS
<1>2. /\ req' = [req EXCEPT ![r].status = v] /\ v # "FINISHED"
      /\ call' = call /\ call.phase = "idle" /\ cached_reqs_data' = cached_reqs_data
  BY <1>1 DEF AddRequest, add_request
<1>3. \A q \in Req : req'[q].status = "FINISHED" => req[q].status = "FINISHED"
  BY <1>2 DEF QueueInv, Shapes, ReqFields
<1>4. OutputRecords'
  BY <1>2 DEF OutputInv, OutputRecords
<1>5. CachedData'
  BY <1>2, <1>3 DEF OutputInv, CachedData
<1> QED
  BY <1>4, <1>5 DEF OutputInv

LEMMA OutputAbort ==
  ASSUME QueueInv, OutputInv, NEW r \in Req, AbortRequest(r) PROVE OutputInv'
<1>1. /\ req' = [req EXCEPT ![r].status = "FINISHED"]
      /\ call' = call /\ call.phase = "idle"
      /\ cached_reqs_data' = [cached_reqs_data EXCEPT ![r] = 0]
  BY DEF AbortRequest, finish_requests, free_request
<1>2. \A q \in Req : q # r => req'[q].status = req[q].status
  BY <1>1 DEF QueueInv, Shapes, ReqFields
<1>3. OutputRecords'
  BY <1>1 DEF OutputInv, OutputRecords
<1>4. DOMAIN cached_reqs_data' = Req /\ cached_reqs_data'[r] = 0
      /\ \A q \in Req : q # r => cached_reqs_data'[q] = cached_reqs_data[q]
  BY <1>1 DEF OutputInv, CachedData
<1>5. CachedData'
  BY <1>1, <1>2, <1>4 DEF OutputInv, CachedData
<1> QED
  BY <1>3, <1>5 DEF OutputInv

-----------------------------------------------------------------------------
\* The steps of schedule() that schedule nothing.
LEMMA OutputStepSchedules ==
  ASSUME QueueInv, OutputInv, StepSchedules PROVE OutputInv'
<1>1. /\ UNCHANGED <<req, running, cached_reqs_data>>
      /\ call' = [NoCall EXCEPT !.phase = "running", !.token_budget = MaxNumScheduledTokens,
                                !.encoder_budget = MaxNumEncoderInputTokens]
  BY DEF StepSchedules, BeginSchedule
<1>2. call'.phase = "running" /\ call'.output = NoOutput /\ call'.req_index = 1
  BY <1>1 DEF NoCall
<1>3. \A r \in Req : ~IsScheduled(r)'
  BY <1>2, EmptyOutput DEF IsScheduled
<1>4. StillToCome' \subseteq Req
  BY <1>1, <1>2, RestAreRequests DEF QueueInv, Control, StillToCome
<1>5. OutputRecords'
  BY <1>2, <1>3, <1>4, EmptyOutput DEF OutputRecords
<1>6. CachedData'
  BY <1>1, <1>2, EmptyOutput DEF OutputInv, CachedData
<1> QED
  BY <1>5, <1>6 DEF OutputInv

LEMMA OutputKept ==
  ASSUME QueueInv, OutputInv, call.phase \in {"running", "waiting"},
         call'.phase \in {"running", "waiting", "finish"}, call'.output = call.output,
         UNCHANGED cached_reqs_data,
         \A q \in Req : IsScheduled(q) => req'[q] = req[q],
         \A q \in Req : Live(q) => req'[q].status \notin {"NEW", "FINISHED"},
         \A q \in Req : req'[q].status = "FINISHED" => req[q].status = "FINISHED",
         call'.phase = "running" => call.phase = "running" /\ StillToCome' \subseteq StillToCome
  PROVE  OutputInv'
<1>1. \A q : IsScheduled(q)' <=> IsScheduled(q)
  BY DEF IsScheduled
<1>2. \A q \in Req : IsScheduled(q) => Records(q)
  BY DEF OutputInv, OutputRecords
<1>3. \A q \in Req : IsScheduled(q)' => Records(q)'
  BY <1>1, <1>2 DEF Records
<1>4. call'.phase = "running" => \A q \in StillToCome' : ~IsScheduled(q)'
  BY <1>1 DEF OutputInv, OutputRecords
<1>5. OutputShape(call'.output)
  BY DEF OutputInv, OutputRecords
<1>6. OutputRecords'
  BY <1>3, <1>4, <1>5 DEF OutputRecords
<1>7. \A q \in ScheduledCached(call.output) : q \in Req /\ Live(q)
  BY <1>5, CachedAreRequests DEF OutputInv, CachedData
<1>8. \A q \in ScheduledCached(call'.output) : Live(q)'
  BY <1>7 DEF Live
<1>9. CachedData'
  BY <1>8 DEF OutputInv, CachedData
<1> QED
  BY <1>6, <1>9 DEF OutputInv

LEMMA OutputSkipRunning ==
  ASSUME QueueInv, OutputInv, SkipRunning PROVE OutputInv'
<1>1. /\ UNCHANGED <<req, running, cached_reqs_data>> /\ call.phase = "running"
      /\ call' = [call EXCEPT !.req_index = @ + 1]
  BY DEF SkipRunning, InRunningLoop
<1>2. /\ call'.phase = "running" /\ call'.output = call.output
      /\ call'.req_index = call.req_index + 1
  BY <1>1 DEF CallFields, QueueInv, Shapes
<1>3. StillToCome' \subseteq StillToCome
  BY <1>1, <1>2, RestShrinks DEF StillToCome, QueueInv, Control
<1> QED
  BY <1>1, <1>2, <1>3, OutputKept DEF Live

LEMMA OutputRunningLoopEnds ==
  ASSUME QueueInv, OutputInv, RunningLoopEnds PROVE OutputInv'
<1>1. /\ UNCHANGED <<req, running, cached_reqs_data>> /\ call.phase = "running"
      /\ call' = [call EXCEPT !.phase = IF MayAdmit THEN "waiting" ELSE "finish"]
  BY DEF RunningLoopEnds
<1>2. call'.phase \in {"waiting", "finish"} /\ call'.output = call.output
  BY <1>1 DEF CallFields, QueueInv, Shapes
<1> QED
  BY <1>1, <1>2, OutputKept DEF Live

LEMMA OutputWaitingLoopEnds ==
  ASSUME QueueInv, OutputInv, WaitingLoopEnds PROVE OutputInv'
<1>1. /\ UNCHANGED <<req, running, cached_reqs_data>> /\ call.phase = "waiting"
      /\ call' = [call EXCEPT !.phase = "finish"]
  BY DEF WaitingLoopEnds
<1>2. call'.phase = "finish" /\ call'.output = call.output
  BY <1>1 DEF CallFields, QueueInv, Shapes
<1> QED
  BY <1>1, <1>2, OutputKept DEF Live

LEMMA OutputSkipWaiting ==
  ASSUME QueueInv, OutputInv, SkipWaiting PROVE OutputInv'
<1>1. /\ UNCHANGED <<req, running, cached_reqs_data>> /\ call.phase = "waiting"
      /\ call' = [call EXCEPT !.skipped = <<Head(waiting)>> \o @]
  BY DEF SkipWaiting, InWaitingLoop
<1>2. call'.phase = "waiting" /\ call'.output = call.output
  BY <1>1 DEF CallFields, QueueInv, Shapes
<1> QED
  BY <1>1, <1>2, OutputKept DEF Live

\* The request at the head of the waiting queue is changed; it is not scheduled.
LEMMA OutputAtHead ==
  ASSUME QueueInv, OutputInv, InWaitingLoop, UNCHANGED cached_reqs_data,
         call'.phase \in {"waiting", "finish"}, call'.output = call.output,
         \A q \in Req : q # Head(waiting) => req'[q] = req[q],
         req'[Head(waiting)].status \in Waits
  PROVE  OutputInv'
<1>1. PICK r : r = Head(waiting)
  OBVIOUS
<1>2. r \in Req /\ req[r].status \in Waits /\ call.phase = "waiting"
  BY <1>1, HeadWaits
<1>3. \A q \in Req : IsScheduled(q) => q # r
  BY <1>2 DEF OutputInv, OutputRecords, Records, Waits
<1>4. \A q \in Req : Live(q) => req'[q].status \notin {"NEW", "FINISHED"}
  BY <1>1, <1>2 DEF Waits, Live
<1>5. \A q \in Req : req'[q].status = "FINISHED" => req[q].status = "FINISHED"
  BY <1>1, <1>2 DEF Waits
<1> QED
  BY <1>1, <1>2, <1>3, <1>4, <1>5, OutputKept

LEMMA OutputSkipLora ==
  ASSUME QueueInv, OutputInv, SkipLora PROVE OutputInv'
<1>1. PICK r, n : r = Head(waiting) /\ n = ComputedAtHead(r)
  OBVIOUS
<1>2. /\ InWaitingLoop /\ UNCHANGED cached_reqs_data
      /\ call' = [call EXCEPT !.skipped = <<r>> \o @]
      /\ req' = [req EXCEPT ![r].status = StatusAtHead(r), ![r].num_computed_tokens = n]
  BY <1>1 DEF SkipLora, ReqAtHead
<1>3. r \in Req /\ StatusAtHead(r) \in Waits /\ call.phase = "waiting"
  BY <1>1, <1>2, HeadWaits, HeadBecomes
<1>4. call'.phase = "waiting" /\ call'.output = call.output
  BY <1>2, <1>3 DEF CallFields, QueueInv, Shapes
<1>5. req'[r].status \in Waits /\ \A q \in Req : q # r => req'[q] = req[q]
  BY <1>2, <1>3 DEF QueueInv, Shapes, ReqFields
<1> QED
  BY <1>1, <1>2, <1>4, <1>5, OutputAtHead

LEMMA OutputStopAtWaiting ==
  ASSUME QueueInv, OutputInv, StopAtWaiting PROVE OutputInv'
<1>1. PICK r, n : r = Head(waiting) /\ n = ComputedAtHead(r)
  OBVIOUS
<1>2. /\ InWaitingLoop /\ UNCHANGED cached_reqs_data
      /\ call' = [call EXCEPT !.phase = "finish"]
      /\ req' = [req EXCEPT ![r].status = StatusAtHead(r), ![r].num_computed_tokens = n]
  BY <1>1 DEF StopAtWaiting, ReqAtHead, LooksUpHead, ConsidersHead
<1>3. r \in Req /\ StatusAtHead(r) \in Waits /\ call.phase = "waiting"
  BY <1>1, <1>2, HeadWaits, HeadBecomes
<1>4. call'.phase = "finish" /\ call'.output = call.output
  BY <1>2, <1>3 DEF CallFields, QueueInv, Shapes
<1>5. req'[r].status \in Waits /\ \A q \in Req : q # r => req'[q] = req[q]
  BY <1>2, <1>3 DEF QueueInv, Shapes, ReqFields
<1> QED
  BY <1>1, <1>2, <1>4, <1>5, OutputAtHead

LEMMA OutputLoadRemote ==
  ASSUME QueueInv, OutputInv, LoadRemote PROVE OutputInv'
<1>1. PICK r : r = Head(waiting)
  OBVIOUS
<1>2. /\ InWaitingLoop /\ UNCHANGED cached_reqs_data
      /\ call' = [call EXCEPT !.skipped = <<r>> \o @]
      /\ req' = [req EXCEPT ![r].status = "WAITING_FOR_REMOTE_KVS"]
  BY <1>1 DEF LoadRemote, LooksUpHead, ConsidersHead
<1>3. r \in Req /\ call.phase = "waiting"
  BY <1>1, <1>2, HeadWaits
<1>4. call'.phase = "waiting" /\ call'.output = call.output
  BY <1>2, <1>3 DEF CallFields, QueueInv, Shapes
<1>5. req'[r].status \in Waits /\ \A q \in Req : q # r => req'[q] = req[q]
  BY <1>2, <1>3 DEF QueueInv, Shapes, ReqFields, Waits
<1> QED
  BY <1>1, <1>2, <1>4, <1>5, OutputAtHead

LEMMA OutputPreemptLast ==
  ASSUME QueueInv, OutputInv, PreemptLast PROVE OutputInv'
<1>r. PICK r, s : r = running[Len(running)] /\ s = running
  OBVIOUS
<1>1. /\ call.phase = "running" /\ call.req_index <= Len(running)
      /\ running' = Front(running) /\ UNCHANGED cached_reqs_data
      /\ req' = [req EXCEPT ![r].status = "PREEMPTED", ![r].num_computed_tokens = 0]
      /\ call' = [call EXCEPT !.preempted = @ \cup {r},
                              !.phase = IF r = Current THEN "finish" ELSE @]
  BY <1>r DEF PreemptLast, InRunningLoop
<1>2. /\ call'.phase \in {"running", "finish"} /\ call'.output = call.output
      /\ call'.req_index = call.req_index
  BY <1>1 DEF CallFields, QueueInv, Shapes
<1>3. s \in Seq(Req) /\ call.req_index \in Nat \ {0}
  BY <1>r DEF QueueInv, Control
<1>4. PICK i, n : i = call.req_index /\ n = Len(s)
  OBVIOUS
<1>5. i \in Nat \ {0} /\ n \in Nat /\ i <= n /\ n \in i..n /\ \A j \in i..(n - 1) : j \in i..n
  BY <1>r, <1>1, <1>3, <1>4
<1>6. r \in StillToCome /\ r \in Req
  BY <1>r, <1>3, <1>4, <1>5, RestAreRequests DEF StillToCome
<1>7. ~IsScheduled(r)
  BY <1>1, <1>6 DEF OutputInv, OutputRecords
<1>8. StillToCome' \subseteq StillToCome
  <2>1. PICK f : f = Front(s)
    OBVIOUS
  <2>2. Len(f) = n - 1 /\ \A j \in 1..(n - 1) : f[j] = s[j]
    BY <2>1, <1>3, <1>4, <1>5 DEF Front
  <2>3. \A j \in i..(n - 1) : f[j] = s[j] /\ j \in i..n
    BY <2>2, <1>5
  <2>4. StillToCome' = {f[j] : j \in i..(n - 1)} /\ StillToCome = {s[j] : j \in i..n}
    BY <2>1, <2>2, <1>r, <1>1, <1>2, <1>4 DEF StillToCome
  <2> QED
    BY <2>3, <2>4
<1>9. req'[r].status = "PREEMPTED" /\ \A q \in Req : q # r => req'[q] = req[q]
  BY <1>1, <1>6 DEF QueueInv, Shapes, ReqFields
<1> QED
  BY <1>1, <1>2, <1>7, <1>8, <1>9, OutputKept DEF Live

-----------------------------------------------------------------------------
\* A request is scheduled: what the output records of it.
LEMMA ScheduledRecords ==
  ASSUME NEW o, OutputShape(o), NEW r \in Req, NEW n, NEW c, NEW d, NEW b, NEW I, NEW p,
         p = Scheduled(o, r, n, c, d, b, I)
  PROVE  /\ OutputShape(p) /\ p.ran = o.ran /\ p.resumed = o.resumed
         /\ p.num_scheduled_tokens = [o.num_scheduled_tokens EXCEPT ![r] = n]
         /\ p.num_computed_tokens = [o.num_computed_tokens EXCEPT ![r] = c]
         /\ p.num_tokens = [o.num_tokens EXCEPT ![r] = req[r].num_tokens]
<1>1. \E e : p = [o EXCEPT !.num_scheduled_tokens[r] = n, !.spec[r] = d,
                           !.num_computed_tokens[r] = c, !.encoder_inputs = e,
                           !.num_tokens[r] = req[r].num_tokens, !.new_block_ids[r] = b]
  BY DEF Scheduled
<1>2. DOMAIN o = OutputFields
  BY DEF OutputShape
<1>3. /\ DOMAIN p = OutputFields /\ p.ran = o.ran /\ p.resumed = o.resumed
      /\ p.num_scheduled_tokens = [o.num_scheduled_tokens EXCEPT ![r] = n]
      /\ p.num_computed_tokens = [o.num_computed_tokens EXCEPT ![r] = c]
      /\ p.num_tokens = [o.num_tokens EXCEPT ![r] = req[r].num_tokens]
  BY <1>1, <1>2 DEF OutputFields
<1>4. OutputShape(p)
  BY <1>3 DEF OutputShape
<1> QED
  BY <1>3, <1>4

\* With the request at the end of one of the lists of the output.
LEMMA ListedRecords ==
  ASSUME NEW p, OutputShape(p), NEW r \in Req, NEW o,
         o \in {[p EXCEPT !.ran = Append(@, r)], [p EXCEPT !.resumed = Append(@, r)],
                [p EXCEPT !.new = Append(@, r)]}
  PROVE  /\ OutputShape(o) /\ o.num_scheduled_tokens = p.num_scheduled_tokens
         /\ o.num_computed_tokens = p.num_computed_tokens /\ o.num_tokens = p.num_tokens
         /\ ScheduledCached(o) \subseteq ScheduledCached(p) \cup {r}
<1>1. DOMAIN p = OutputFields /\ p.ran \in Seq(Req) /\ p.resumed \in Seq(Req)
  BY DEF OutputShape
<1>2. ASSUME NEW q \in Seq(Req)
      PROVE  Append(q, r) \in Seq(Req) /\ Members(Append(q, r)) \subseteq Members(q) \cup {r}
  <2>1. PICK a, n : a = Append(q, r) /\ n = Len(q)
    OBVIOUS
  <2>2. n \in Nat /\ DOMAIN q = 1..n /\ a \in Seq(Req) /\ DOMAIN a = 1..(n + 1)
        /\ \A i \in 1..(n + 1) : a[i] = IF i = n + 1 THEN r ELSE q[i]
    BY <2>1
  <2>3. \A i \in 1..(n + 1) : i = n + 1 \/ i \in 1..n
    BY <2>2
  <2>4. Members(a) \subseteq Members(q) \cup {r}
    BY <2>2, <2>3 DEF Members
  <2> QED
    BY <2>1, <2>2, <2>4
<1>3. /\ DOMAIN o = OutputFields
      /\ o.num_scheduled_tokens = p.num_scheduled_tokens
      /\ o.num_computed_tokens = p.num_computed_tokens /\ o.num_tokens = p.num_tokens
      /\ o.ran = p.ran \/ o.ran = Append(p.ran, r)
      /\ o.resumed = p.resumed \/ o.resumed = Append(p.resumed, r)
  BY <1>1 DEF OutputFields
<1>4. /\ o.ran \in Seq(Req) /\ Members(o.ran) \subseteq Members(p.ran) \cup {r}
      /\ o.resumed \in Seq(Req) /\ Members(o.resumed) \subseteq Members(p.resumed) \cup {r}
  BY <1>1, <1>2, <1>3
<1> QED
  BY <1>3, <1>4 DEF OutputShape, ScheduledCached

\* The output of the call with the request, which is in one of its lists.
Lists(o, r, n, c) ==
  /\ OutputShape(o) /\ ScheduledCached(o) \subseteq ScheduledCached(call.output) \cup {r}
  /\ o.num_scheduled_tokens = [call.output.num_scheduled_tokens EXCEPT ![r] = n]
  /\ o.num_computed_tokens = [call.output.num_computed_tokens EXCEPT ![r] = c]
  /\ o.num_tokens = [call.output.num_tokens EXCEPT ![r] = req[r].num_tokens]
LEMMA ListedAndScheduled ==
  ASSUME OutputInv, NEW r \in Req, NEW n, NEW c, NEW d, NEW b, NEW I, NEW p, NEW o,
         p = Scheduled(call.output, r, n, c, d, b, I),
         o \in {[p EXCEPT !.ran = Append(@, r)], [p EXCEPT !.resumed = Append(@, r)],
                [p EXCEPT !.new = Append(@, r)]}
  PROVE  Lists(o, r, n, c)
<1>k. PICK k : k = call.output
  OBVIOUS
<1>1. OutputShape(k) /\ p = Scheduled(k, r, n, c, d, b, I)
  BY <1>k DEF OutputInv, OutputRecords
<1>p. /\ OutputShape(p) /\ p.ran = k.ran /\ p.resumed = k.resumed
      /\ p.num_scheduled_tokens = [k.num_scheduled_tokens EXCEPT ![r] = n]
      /\ p.num_computed_tokens = [k.num_computed_tokens EXCEPT ![r] = c]
      /\ p.num_tokens = [k.num_tokens EXCEPT ![r] = req[r].num_tokens]
  BY <1>1, ScheduledRecords
<1>2. /\ OutputShape(p) /\ p.ran = call.output.ran /\ p.resumed = call.output.resumed
      /\ p.num_scheduled_tokens = [call.output.num_scheduled_tokens EXCEPT ![r] = n]
      /\ p.num_computed_tokens = [call.output.num_computed_tokens EXCEPT ![r] = c]
      /\ p.num_tokens = [call.output.num_tokens EXCEPT ![r] = req[r].num_tokens]
  BY <1>k, <1>p
<1>3. ScheduledCached(p) = ScheduledCached(call.output)
  BY <1>2 DEF ScheduledCached
<1>4. /\ OutputShape(o) /\ o.num_scheduled_tokens = p.num_scheduled_tokens
      /\ o.num_computed_tokens = p.num_computed_tokens /\ o.num_tokens = p.num_tokens
      /\ ScheduledCached(o) \subseteq ScheduledCached(p) \cup {r}
  BY <1>2, ListedRecords
<1> QED
  BY <1>2, <1>3, <1>4 DEF Lists

\* What is left, for both loops of schedule().
LEMMA OutputScheduled ==
  ASSUME QueueInv, OutputInv, call'.phase = call.phase, call.phase \in {"running", "waiting"},
         UNCHANGED cached_reqs_data, NEW r \in Req, NEW n, NEW c, NEW o, o = call'.output,
         Lists(o, r, n, c),
         req'[r].status = "RUNNING", req'[r].num_computed_tokens = c,
         req'[r].num_tokens = req[r].num_tokens,
         \A q \in Req : q # r => req'[q] = req[q],
         call'.phase = "running" => StillToCome' \subseteq StillToCome \ {r}
  PROVE  OutputInv'
<1>1. call'.output = o
  OBVIOUS
<1>2. /\ OutputShape(o) /\ ScheduledCached(o) \subseteq ScheduledCached(call.output) \cup {r}
      /\ o.num_scheduled_tokens = [call.output.num_scheduled_tokens EXCEPT ![r] = n]
      /\ o.num_computed_tokens = [call.output.num_computed_tokens EXCEPT ![r] = c]
      /\ o.num_tokens = [call.output.num_tokens EXCEPT ![r] = req[r].num_tokens]
  BY DEF Lists
<1>3. OutputShape(call.output)
  BY DEF OutputInv, OutputRecords
<1>4. /\ o.num_computed_tokens[r] = c /\ o.num_tokens[r] = req[r].num_tokens
      /\ \A q \in Req : q # r =>
            /\ o.num_scheduled_tokens[q] = call.output.num_scheduled_tokens[q]
            /\ o.num_computed_tokens[q] = call.output.num_computed_tokens[q]
            /\ o.num_tokens[q] = call.output.num_tokens[q]
  BY <1>2, <1>3 DEF OutputShape
<1>5. \A q \in Req : IsScheduled(q)' => Records(q)'
  <2> SUFFICES ASSUME NEW q \in Req, IsScheduled(q)' PROVE Records(q)'
    OBVIOUS
  <2>1. CASE q = r
    BY <2>1, <1>1, <1>4 DEF Records
  <2>2. CASE q # r
    BY <2>2, <1>1, <1>4 DEF Records, IsScheduled, OutputInv, OutputRecords
  <2> QED
    BY <2>1, <2>2
<1>6. call'.phase = "running" => \A q \in StillToCome' : ~IsScheduled(q)'
  <2> SUFFICES ASSUME call'.phase = "running", NEW q \in StillToCome' PROVE ~IsScheduled(q)'
    OBVIOUS
  <2>1. q \in StillToCome /\ q # r
    OBVIOUS
  <2>2. StillToCome \subseteq Req
    BY RestAreRequests DEF StillToCome, QueueInv, Control
  <2> QED
    BY <2>1, <2>2, <1>1, <1>4 DEF IsScheduled, OutputInv, OutputRecords
<1>7. OutputRecords'
  BY <1>1, <1>2, <1>5, <1>6 DEF OutputRecords
<1>9. \A q \in ScheduledCached(call.output) : q \in Req /\ Live(q)
  BY <1>3, CachedAreRequests DEF OutputInv, CachedData
<1>10. \A q \in ScheduledCached(o) : Live(q)'
  BY <1>2, <1>9 DEF Live
<1>11. CachedData'
  BY <1>1, <1>10 DEF OutputInv, CachedData
<1> QED
  BY <1>7, <1>11 DEF OutputInv

LEMMA OutputScheduleRunning ==
  ASSUME QueueInv, OutputInv, ScheduleRunning PROVE OutputInv'
<1>1. PICK r, c : r = Current /\ c = req[r].num_computed_tokens
  OBVIOUS
<1>2. /\ call.phase = "running" /\ call.req_index <= Len(running)
      /\ running' = running /\ UNCHANGED cached_reqs_data
      /\ \E x : req' = [req EXCEPT ![r].spec_token_ids = x]
      /\ \E n, d, b, I, t, e :
           call' = [call EXCEPT !.req_index = @ + 1, !.token_budget = t, !.encoder_budget = e,
                      !.output = LET o == Scheduled(@, r, n, c, d, b, I)
                                 IN [o EXCEPT !.ran = Append(@, r)]]
  BY <1>1 DEF ScheduleRunning, InRunningLoop
<1>3. PICK n, d, b, I, t, e :
        call' = [call EXCEPT !.req_index = @ + 1, !.token_budget = t, !.encoder_budget = e,
                   !.output = LET o == Scheduled(@, r, n, c, d, b, I)
                              IN [o EXCEPT !.ran = Append(@, r)]]
  BY <1>2
<1>p. PICK p : p = Scheduled(call.output, r, n, c, d, b, I)
  OBVIOUS
<1>o. PICK o : o = [p EXCEPT !.ran = Append(@, r)]
  OBVIOUS
<1>f. call' = [call EXCEPT !.req_index = @ + 1, !.token_budget = t, !.encoder_budget = e,
                           !.output = o]
  BY <1>3, <1>p, <1>o
<1>5. call'.phase = call.phase /\ call'.req_index = call.req_index + 1 /\ call'.output = o
  BY <1>f DEF CallFields, QueueInv, Shapes
<1>6. /\ running \in Seq(Req) /\ call.req_index \in Nat \ {0} /\ IsInjective(running)
      /\ Members(running) = {q \in Req : Statuses[q] = "RUNNING"}
  BY <1>2 DEF QueueInv, Control, InPlace, Placed, Proper, LiveRunning
<1>7. call.req_index \in DOMAIN running
  BY <1>2, <1>6
<1>8. r \in Req /\ req[r].status = "RUNNING"
  BY <1>1, <1>6, <1>7 DEF Current, Members, Statuses
<1>10. Lists(o, r, n, c)
  BY <1>p, <1>o, <1>8, ListedAndScheduled
<1>11. /\ req'[r].status = "RUNNING" /\ req'[r].num_computed_tokens = c
       /\ req'[r].num_tokens = req[r].num_tokens /\ \A q \in Req : q # r => req'[q] = req[q]
  BY <1>1, <1>2, <1>8 DEF QueueInv, Shapes, ReqFields
<1>12. StillToCome' \subseteq StillToCome \ {r}
  <2>1. PICK s, i : s = running /\ i = call.req_index
    OBVIOUS
  <2>2. s \in Seq(Req) /\ i \in Nat \ {0} /\ i <= Len(s) /\ IsInjective(s) /\ r = s[i]
    BY <2>1, <1>1, <1>2, <1>6 DEF Current
  <2>3. /\ {s[j] : j \in (i + 1)..Len(s)} \subseteq {s[j] : j \in i..Len(s)}
        /\ r \notin {s[j] : j \in (i + 1)..Len(s)}
    BY <2>2, RestShrinks, RestDiffers
  <2>4. /\ StillToCome' = {s[j] : j \in (i + 1)..Len(s)}
        /\ StillToCome = {s[j] : j \in i..Len(s)}
    BY <2>1, <1>2, <1>5 DEF StillToCome
  <2> QED
    BY <2>3, <2>4
<1>13. call.phase \in {"running", "waiting"} /\ UNCHANGED cached_reqs_data
  BY <1>2
<1> QED
  BY <1>5, <1>8, <1>10, <1>11, <1>12, <1>13, OutputScheduled

LEMMA OutputScheduleWaiting ==
  ASSUME QueueInv, OutputInv, ScheduleWaiting PROVE OutputInv'
<1>1. PICK r, c : r = Head(waiting) /\ c = LocalComputed(r)
  OBVIOUS
<1>2. /\ InWaitingLoop /\ UNCHANGED cached_reqs_data
      /\ req' = [req EXCEPT ![r].status = "RUNNING", ![r].num_computed_tokens = c]
      /\ \E n, b, I, t, e :
           call' = [call EXCEPT !.token_budget = t, !.encoder_budget = e,
                      !.output = LET o == Scheduled(@, r, n, c, 0, b, I)
                                 IN IF StatusAtHead(r) = "PREEMPTED"
                                    THEN [o EXCEPT !.resumed = Append(@, r)]
                                    ELSE [o EXCEPT !.new = Append(@, r)]]
  BY <1>1 DEF ScheduleWaiting, LooksUpHead, ConsidersHead
<1>3. PICK n, b, I, t, e :
           call' = [call EXCEPT !.token_budget = t, !.encoder_budget = e,
                      !.output = LET o == Scheduled(@, r, n, c, 0, b, I)
                                 IN IF StatusAtHead(r) = "PREEMPTED"
                                    THEN [o EXCEPT !.resumed = Append(@, r)]
                                    ELSE [o EXCEPT !.new = Append(@, r)]]
  BY <1>2
<1>4. PICK p : p = Scheduled(call.output, r, n, c, 0, b, I)
  OBVIOUS
<1>5. call.phase = "waiting" /\ r \in Req
  BY <1>1, <1>2, HeadWaits
<1>o. PICK o : o = IF StatusAtHead(r) = "PREEMPTED" THEN [p EXCEPT !.resumed = Append(@, r)]
                   ELSE [p EXCEPT !.new = Append(@, r)]
  OBVIOUS
<1>f. call' = [call EXCEPT !.token_budget = t, !.encoder_budget = e, !.output = o]
  BY <1>3, <1>4, <1>o
<1>6. call'.phase = call.phase /\ call'.output = o
  BY <1>f DEF CallFields, QueueInv, Shapes
<1>10. Lists(o, r, n, c)
  BY <1>3, <1>4, <1>5, <1>o, ListedAndScheduled
<1>11. /\ req'[r].status = "RUNNING" /\ req'[r].num_computed_tokens = c
       /\ req'[r].num_tokens = req[r].num_tokens /\ \A q \in Req : q # r => req'[q] = req[q]
  BY <1>2, <1>5 DEF QueueInv, Shapes, ReqFields
<1>12. /\ call.phase \in {"running", "waiting"} /\ UNCHANGED cached_reqs_data
       /\ call'.phase # "running"
  BY <1>2, <1>5, <1>6
<1> QED
  BY <1>5, <1>6, <1>10, <1>11, <1>12, OutputScheduled

-----------------------------------------------------------------------------
\* The output is complete, is executed and applied; only one batch at a time is in
\* flight.
LEMMA OutputStepDispatches ==
  ASSUME MaxConcurrentBatches = 1, QueueInv, OutputInv, StepDispatches PROVE OutputInv'
<1>1. /\ running' = running /\ call.phase = "finish"
      /\ cached_reqs_data' = [r \in Req |->
            IF r \in ScheduledCached(call.output) /\ cached_reqs_data[r] > 0
            THEN cached_reqs_data[r] - 1 ELSE cached_reqs_data[r]]
      /\ req' = [r \in Req |-> [req[r] EXCEPT
                    !.num_computed_tokens = @ + call.output.num_scheduled_tokens[r]]]
      /\ call' = [NoCall EXCEPT !.phase = "execute", !.output = OutputOfCall]
  BY DEF StepDispatches, EndSchedule
<1>2. PICK o, p : o = call.output /\ p = OutputOfCall
  OBVIOUS
<1>3. OutputShape(o)
  BY <1>2 DEF OutputInv, OutputRecords
<1>4. \E a, b, c : p = [o EXCEPT !.finished = a, !.free_encoder_input_ids = b, !.kv_meta = c]
  BY <1>2 DEF OutputOfCall
<1>5. /\ DOMAIN p = OutputFields /\ p.num_scheduled_tokens = o.num_scheduled_tokens
      /\ p.num_computed_tokens = o.num_computed_tokens /\ p.num_tokens = o.num_tokens
      /\ p.ran = o.ran /\ p.resumed = o.resumed
  BY <1>3, <1>4 DEF OutputShape, OutputFields
<1>6. OutputShape(p) /\ ScheduledCached(p) = ScheduledCached(o)
  BY <1>3, <1>5 DEF OutputShape, ScheduledCached
<1>7. call'.phase = "execute" /\ call'.output = p /\ call'.req_index = 1
  BY <1>1, <1>2 DEF NoCall
<1>8. \A r \in Req : /\ req'[r].num_computed_tokens
                          = req[r].num_computed_tokens + o.num_scheduled_tokens[r]
                     /\ req'[r].num_tokens = req[r].num_tokens
                     /\ req'[r].status = req[r].status
  BY <1>1, <1>2 DEF QueueInv, Shapes, ReqFields
<1>9. \A r \in Req : IsScheduled(r)' => Advanced(r)'
  BY <1>1, <1>2, <1>5, <1>7, <1>8 DEF IsScheduled, Advanced, Records, OutputInv, OutputRecords
<1>10. StillToCome' \subseteq Req
  BY <1>1, <1>7, RestAreRequests DEF QueueInv, Control, StillToCome
<1>11. OutputRecords'
  BY <1>6, <1>7, <1>9, <1>10 DEF OutputRecords
<1>12. \A r \in ScheduledCached(o) : r \in Req /\ Live(r)
  BY <1>1, <1>2, <1>3, CachedAreRequests DEF OutputInv, CachedData
<1>13. \A r \in ScheduledCached(p) : Live(r)'
  BY <1>6, <1>8, <1>12 DEF Live
<1>14. \A r \in Req : req'[r].status = "FINISHED" => cached_reqs_data'[r] = 0
  BY <1>1, <1>8 DEF OutputInv, CachedData
<1>15. CachedData'
  BY <1>1, <1>7, <1>13, <1>14 DEF CachedData
<1> QED
  BY <1>11, <1>15 DEF OutputInv

LEMMA OutputExecuteModel ==
  ASSUME QueueInv, OutputInv, ExecuteModel PROVE OutputInv'
<1>1. /\ UNCHANGED <<req, running, finished_req_ids, cached_reqs_data>> /\ call.phase = "execute"
      /\ \E a, b : call' = [BeginUpdate(call.output) EXCEPT !.finished_recving = a,
                                                           !.finished_sending = b]
  BY DEF ExecuteModel
<1>2. call'.phase = "update" /\ call'.output = call.output /\ call'.req_index = 1
  BY <1>1 DEF BeginUpdate, NoCall
<1>3. call.req_index = 1
  BY <1>1 DEF OutputInv, OutputRecords
<1>4. StillToCome' = StillToCome
  BY <1>1, <1>2, <1>3 DEF StillToCome
<1>5. \A r : (IsScheduled(r)' <=> IsScheduled(r)) /\ (Advanced(r)' <=> Advanced(r))
             /\ (Live(r)' <=> Live(r))
  BY <1>1, <1>2 DEF IsScheduled, Advanced, Live
<1>6. OutputRecords'
  BY <1>1, <1>2, <1>4, <1>5 DEF OutputInv, OutputRecords
<1>7. CachedData'
  BY <1>1, <1>2, <1>5 DEF OutputInv, CachedData
<1> QED
  BY <1>6, <1>7 DEF OutputInv

\* One iteration of the loop of update_from_output(): only the request at hand is
\* changed, and it does not come again.
LEMMA CurrentIsNotToCome ==
  ASSUME QueueInv, InUpdateLoop
  PROVE  /\ {running[j] : j \in (call.req_index + 1)..Len(running)} \subseteq StillToCome
         /\ Current \notin {running[j] : j \in (call.req_index + 1)..Len(running)}
         /\ Current \in StillToCome /\ StillToCome \subseteq Req
<1>1. PICK i, n, s, m : /\ i = call.req_index /\ n = call.new_running /\ s = running
                        /\ m = Len(s)
  OBVIOUS
<1>2. /\ i \in 1..Len(s) /\ s \in Seq(Req) /\ n \in Seq(Req)
      /\ s[i] \in Req /\ Current = s[i] /\ LiveRunning = n \o SubSeq(s, i, Len(s))
  BY <1>1, CurrentRuns
<1>3. PICK u : u = SubSeq(s, i + 1, m)
  OBVIOUS
<1>4. u \in Seq(Req) /\ SubSeq(s, i, m) = <<s[i]>> \o u
  <2>1. /\ SubSeq(s, i + 1, Len(s)) \in Seq(Req)
        /\ SubSeq(s, i, Len(s)) = <<s[i]>> \o SubSeq(s, i + 1, Len(s))
    BY <1>2, RestOfRunning
  <2> QED
    BY <2>1, <1>1, <1>3
<1>5. i \in Nat \ {0} /\ m \in Nat /\ i <= m /\ i \in i..m /\ i + 1 \in Int /\ m \in Int
      /\ \A j \in (i + 1)..m : s[j] \in Req
  BY <1>1, <1>2
<1>6. Len(u) = (IF i + 1 <= m THEN m - (i + 1) + 1 ELSE 0)
      /\ \A k \in 1..(m - (i + 1) + 1) : u[k] = s[(i + 1) + k - 1]
  BY <1>3, <1>5, SubSeqProperties
<1>7. {s[j] : j \in (i + 1)..m} \subseteq Members(u)
  <2> SUFFICES ASSUME NEW j \in (i + 1)..m PROVE s[j] \in Members(u)
    OBVIOUS
  <2>1. /\ j - i \in 1..(m - (i + 1) + 1) /\ (i + 1) + (j - i) - 1 = j
        /\ i + 1 <= m
    BY <1>5
  <2>2. s[j] = u[j - i]
    BY <2>1, <1>6
  <2>3. DOMAIN u = 1..Len(u)
    BY <1>4
  <2>4. j - i \in DOMAIN u
    BY <2>1, <2>3, <1>6
  <2> QED
    BY <2>2, <2>4 DEF Members
<1>8. IsInjective(n \o SubSeq(s, i, m))
  BY <1>1, <1>2 DEF QueueInv, InPlace, Placed, Proper
<1>9. PICK e, w : e = <<s[i]>> /\ w = e \o u
  OBVIOUS
<1>10. e \in Seq(Req) /\ Members(e) = {s[i]}
  BY <1>2, <1>9, OneProper DEF Proper
<1>11. w \in Seq(Req) /\ (IsInjective(w) => Members(e) \cap Members(u) = {})
  BY <1>4, <1>9, <1>10, ConcatProper
<1>12. IsInjective(w)
  BY <1>2, <1>4, <1>8, <1>9, <1>11, ConcatProper
<1>13. s[i] \notin {s[j] : j \in (i + 1)..m}
  BY <1>7, <1>10, <1>11, <1>12
<1>14. StillToCome = {s[j] : j \in i..m}
  BY <1>1 DEF StillToCome
<1>15. {s[j] : j \in (i + 1)..m} \subseteq {s[j] : j \in i..m} /\ {s[j] : j \in i..m} \subseteq Req
  BY <1>1, <1>2, <1>5, RestShrinks, RestAreRequests
<1>16. s[i] \in {s[j] : j \in i..m}
  BY <1>5
<1> QED
  BY <1>1, <1>2, <1>13, <1>14, <1>15, <1>16

LEMMA OutputStays ==
  ASSUME QueueInv, OutputInv, InUpdateLoop,
         UNCHANGED <<running, finished_req_ids, cached_reqs_data>>,
         \A q \in Req : q # Current => req'[q] = req[q],
         req'[Current].status = req[Current].status,
         call' = [call EXCEPT !.req_index = @ + 1, !.new_running = Append(@, Current)]
  PROVE  OutputInv'
<1>1. call.phase = "update" /\ Current \in Req
  BY CurrentRuns
<1>2. call'.phase = "update" /\ call'.output = call.output /\ call'.req_index = call.req_index + 1
  BY <1>1 DEF QueueInv, Shapes, CallFields
<1>s. StillToCome' = {running[j] : j \in (call.req_index + 1)..Len(running)}
  BY <1>2 DEF StillToCome
<1>3. StillToCome' \subseteq StillToCome \ {Current} /\ StillToCome' \subseteq Req
  BY <1>s, CurrentIsNotToCome
<1>4. \A r \in StillToCome' : IsScheduled(r)' => Advanced(r)'
  BY <1>1, <1>2, <1>3 DEF IsScheduled, Advanced, OutputInv, OutputRecords
<1>5. \A q \in Req : req'[q].status = req[q].status
  BY <1>1
<1>6. OutputShape(call.output)
  BY DEF OutputInv, OutputRecords
<1>7. OutputRecords'
  BY <1>2, <1>4, <1>6 DEF OutputRecords
<1>8. ScheduledCached(call.output) \subseteq Req
  BY <1>6, CachedAreRequests
<1>9. CachedData'
  BY <1>1, <1>2, <1>5, <1>8 DEF OutputInv, CachedData, Live
<1> QED
  BY <1>7, <1>9 DEF OutputInv

LEMMA OutputUpdateContinues ==
  ASSUME QueueInv, OutputInv, InUpdateLoop, NEW g, NEW d, UpdateContinues(Current, g, d)
  PROVE  OutputInv'
<1>1. PICK r, a, b : r = Current /\ a = req[r].num_tokens + g /\ b = ComputedAfter(r, g)
  OBVIOUS
<1>2. /\ req' = [req EXCEPT ![r].num_tokens = a, ![r].num_computed_tokens = b,
                            ![r].spec_token_ids = d]
      /\ call' = [call EXCEPT !.req_index = @ + 1, !.new_running = Append(@, Current)]
      /\ UNCHANGED <<running, finished_req_ids, cached_reqs_data>>
  BY <1>1 DEF UpdateContinues
<1>3. r \in Req
  BY <1>1, CurrentRuns
<1>4. (\A q \in Req : q # r => req'[q] = req[q]) /\ req'[r].status = req[r].status
  BY <1>2, <1>3 DEF QueueInv, Shapes, ReqFields
<1> QED
  BY <1>1, <1>2, <1>4, OutputStays

LEMMA OutputUpdateStops ==
  ASSUME QueueInv, OutputInv, InUpdateLoop, NEW g, UpdateStops(Current, g) PROVE OutputInv'
<1>1. PICK r : r = Current
  OBVIOUS
<1>2. /\ \E a, b : req' = [req EXCEPT ![r].status = "FINISHED", ![r].num_tokens = a,
                                      ![r].num_computed_tokens = b]
      /\ call' = [call EXCEPT !.req_index = @ + 1] /\ running' = running
      /\ cached_reqs_data' = [cached_reqs_data EXCEPT ![r] = 0]
      /\ finished_req_ids' = finished_req_ids \cup {r}
  <2>1. PICK n \in 1..g :
          /\ req' = [req EXCEPT ![r].status = "FINISHED", ![r].num_tokens = @ + n,
                                ![r].num_computed_tokens = ComputedAfter(r, g)]
          /\ \E delay : free_request(r, delay)
    BY <1>1 DEF UpdateStops
  <2>2. /\ cached_reqs_data' = [cached_reqs_data EXCEPT ![r] = 0]
        /\ finished_req_ids' = finished_req_ids \cup {r}
    BY <2>1 DEF free_request
  <2>3. call' = [call EXCEPT !.req_index = @ + 1] /\ running' = running
    BY <1>1 DEF UpdateStops
  <2> QED
    BY <2>1, <2>2, <2>3
<1>3. call.phase = "update" /\ r \in Req
  BY <1>1, CurrentRuns
<1>4. call'.phase = "update" /\ call'.output = call.output /\ call'.req_index = call.req_index + 1
  BY <1>2, <1>3 DEF QueueInv, Shapes, CallFields
<1>5. (\A q \in Req : q # r => req'[q] = req[q]) /\ req'[r].status = "FINISHED"
  BY <1>2, <1>3 DEF QueueInv, Shapes, ReqFields
<1>s. StillToCome' = {running[j] : j \in (call.req_index + 1)..Len(running)}
  BY <1>2, <1>4 DEF StillToCome
<1>6. StillToCome' \subseteq StillToCome \ {r} /\ StillToCome' \subseteq Req
  BY <1>1, <1>s, CurrentIsNotToCome
<1>7. \A q \in StillToCome' : IsScheduled(q)' => Advanced(q)'
  BY <1>3, <1>4, <1>5, <1>6 DEF IsScheduled, Advanced, OutputInv, OutputRecords
<1>8. OutputShape(call.output)
  BY DEF OutputInv, OutputRecords
<1>9. OutputRecords'
  BY <1>4, <1>7, <1>8 DEF OutputRecords
<1>10. ScheduledCached(call.output) \subseteq Req
  BY <1>8, CachedAreRequests
<1>11. \A q \in ScheduledCached(call.output) : Live(q)' \/ q \in finished_req_ids'
  BY <1>2, <1>3, <1>5, <1>10 DEF OutputInv, CachedData, Live
<1>12. /\ DOMAIN cached_reqs_data' = Req /\ cached_reqs_data'[r] = 0
       /\ \A q \in Req : q # r => cached_reqs_data'[q] = cached_reqs_data[q]
  BY <1>2, <1>3 DEF OutputInv, CachedData
<1>13. CachedData'
  BY <1>4, <1>5, <1>11, <1>12 DEF OutputInv, CachedData
<1> QED
  BY <1>9, <1>13 DEF OutputInv

LEMMA OutputEndUpdate ==
  ASSUME QueueInv, OutputInv, EndUpdate PROVE OutputInv'
<1>1. /\ call.phase = "update" /\ req' = req /\ call' = NoCall
      /\ cached_reqs_data' = [r \in Req |->
            IF r \in ScheduledCached(call.output) /\ r \notin finished_req_ids
            THEN cached_reqs_data[r] + 1 ELSE cached_reqs_data[r]]
  BY DEF EndUpdate, ReturnsData
<1>2. call'.phase = "idle" /\ call'.output = NoOutput
  BY <1>1 DEF NoCall
<1>3. OutputRecords'
  BY <1>2, EmptyOutput DEF OutputRecords
<1>4. CachedData'
  BY <1>1, <1>2 DEF OutputInv, CachedData, Live
<1> QED
  BY <1>3, <1>4 DEF OutputInv

LEMMA OutputNext ==
  ASSUME MaxConcurrentBatches = 1, QueueInv, OutputInv, [Steps]_engineVars PROVE OutputInv'
<1>1. ASSUME NEW r \in Req, AddRequest(r) \/ AbortRequest(r) \/ CompileGrammar(r) PROVE OutputInv'
  <2>1. CASE AddRequest(r)
    BY <2>1, OutputAdd
  <2>2. CASE AbortRequest(r)
    BY <2>2, OutputAbort
  <2>3. CASE CompileGrammar(r)
    BY <2>3, OutputFrame DEF CompileGrammar, GrammarCompiled
  <2> QED
    BY <1>1, <2>1, <2>2, <2>3
<1>2. ASSUME NEW k \in Ranks, NEW r \in Req, TransferArrives(k, r) \/ TransferIsRead(k, r)
      PROVE  OutputInv'
  BY <1>2, OutputFrame DEF TransferArrives, TransferIsRead, schedulerVars
<1>3. CASE ResetPrefixCache
  BY <1>3, OutputFrame DEF ResetPrefixCache
<1>4. CASE ScheduleSteps
  BY <1>4, OutputSkipRunning, OutputScheduleRunning, OutputPreemptLast, OutputRunningLoopEnds,
     OutputSkipWaiting, OutputSkipLora, OutputScheduleWaiting, OutputLoadRemote,
     OutputStopAtWaiting, OutputWaitingLoopEnds
  DEF ScheduleSteps
<1>5. CASE KeepUnscheduled
  <2>1. /\ InUpdateLoop /\ UNCHANGED <<req, running, finished_req_ids, cached_reqs_data>>
        /\ call' = [call EXCEPT !.req_index = @ + 1, !.new_running = Append(@, Current)]
    BY <1>5 DEF KeepUnscheduled
  <2> QED
    BY <2>1, OutputStays
<1>6. CASE UpdateScheduled
  <2>1. /\ InUpdateLoop
        /\ \E g : (\E d : UpdateContinues(Current, g, d)) \/ UpdateStops(Current, g)
    BY <1>6 DEF UpdateScheduled
  <2> QED
    BY <2>1, OutputUpdateContinues, OutputUpdateStops
<1>7. CASE StepDrains
  <2>1. ~(1 > 1)
    OBVIOUS
  <2> QED
    BY <1>7, <2>1 DEF StepDrains, BatchQueueFull
<1>8. CASE EngineStep
  BY <1>4, <1>5, <1>6, <1>7, <1>8, OutputEndUpdate, OutputStepSchedules, OutputStepDispatches,
     OutputExecuteModel DEF EngineStep, UpdateSteps
<1>9. CASE UNCHANGED engineVars
  BY <1>9, OutputFrame DEF engineVars, schedulerVars
<1> QED
  BY <1>1, <1>2, <1>3, <1>8, <1>9 DEF Steps

\* With one batch at a time, the scheduler output keeps step with the requests.
THEOREM OutputInvariant ==
  ASSUME MaxConcurrentBatches = 1 PROVE Spec => [](QueueInv /\ OutputInv)
<1>1. Init => QueueInv /\ OutputInv
  BY QueueInit, OutputInit
<1>2. (QueueInv /\ OutputInv) /\ [Next]_vars => (QueueInv /\ OutputInv)'
  BY QueueNext, OutputNext, NextSteps
<1> QED
  BY <1>1, <1>2, PTL DEF Spec

\* _cached_reqs_data keeps nothing for a finished request, wherever it stops or is
\* aborted.
THEOREM CachedDataIsDropped ==
  ASSUME MaxConcurrentBatches = 1 PROVE Spec => []NoCachedDataLeak
<1>1. OutputInv => NoCachedDataLeak
  BY DEF OutputInv, CachedData, NoCachedDataLeak
<1> QED
  BY <1>1, OutputInvariant, PTL

\* update_from_output() appends tokens only to a request that is as it was when the
\* tokens were computed: it has the tokens and the computed tokens that it was scheduled
\* with, and so is not being prefilled.
THEOREM AnswersStayCurrent ==
  ASSUME MaxConcurrentBatches = 1 PROVE Spec => []AnswersAreCurrent
<1>1. QueueInv /\ OutputInv => AnswersAreCurrent
  <2> SUFFICES ASSUME QueueInv, OutputInv, InUpdateLoop,
                      call.output.num_scheduled_tokens[Current] > 0
               PROVE  Advanced(Current)
    BY DEF AnswersAreCurrent, Advanced
  <2>1. call.phase = "update" /\ Current \in StillToCome
    BY CurrentRuns, CurrentIsNotToCome
  <2> QED
    BY <2>1 DEF OutputInv, OutputRecords, IsScheduled
<1> QED
  BY <1>1, OutputInvariant, PTL

-----------------------------------------------------------------------------
(* The block pool: what one iteration of each of its loops does. *)

\* The blocks of a sequence are distinct; a is before b in it.
Distinct(q) == \A i, j \in DOMAIN q : q[i] = q[j] => i = j
Before(q, a, b) == \E i, j \in DOMAIN q : i < j /\ q[i] = a /\ q[j] = b

Pools ==
  [free_block_queue : Seq(Blocks),
   ref_cnt : [Blocks -> Nat],
   block_hash : [Blocks -> Hashes \cup {NoHash}],
   cached : [Hashes -> Seq(Blocks)],
   view : SUBSET Hashes]

-----------------------------------------------------------------------------
\* What DropAt returns: the sequence without its i-th element.
LEMMA DropAtElements ==
  ASSUME NEW S, NEW q \in Seq(S), NEW i \in 1..Len(q)
  PROVE  /\ DropAt(q, i) \in Seq(S)
         /\ Len(DropAt(q, i)) = Len(q) - 1
         /\ \A j \in 1..(Len(q) - 1) :
              DropAt(q, i)[j] = IF j < i THEN q[j] ELSE q[j + 1]
<1> DEFINE d == DropAt(q, i)
<1>1. Len(q) \in Nat /\ DOMAIN q = 1..Len(q) /\ q \in [1..Len(q) -> S]
  BY LenProperties
<1>2a. Len(q) - 1 \in Nat
  BY <1>1
<1>2. PICK n \in Nat : n = Len(q) - 1
  BY <1>2a
<1>3. d = [j \in 1..n |-> IF j < i THEN q[j] ELSE q[j + 1]]
  BY <1>2 DEF DropAt
<1>4. \A j \in 1..n : (IF j < i THEN q[j] ELSE q[j + 1]) \in S
  BY <1>1, <1>2
<1>5. d \in [1..n -> S]
  BY <1>3, <1>4
<1>6. d \in Seq(S)
  BY <1>5, SeqDef
<1>7. Len(d) = n
  BY <1>5, <1>6, LenProperties
<1> QED BY <1>2, <1>3, <1>6, <1>7

\* Dropping an element of a sequence without repetitions.
LEMMA DropAtDistinct ==
  ASSUME NEW S, NEW q \in Seq(S), Distinct(q), NEW i \in 1..Len(q)
  PROVE  /\ Distinct(DropAt(q, i))
         /\ Members(DropAt(q, i)) = Members(q) \ {q[i]}
         /\ \A x, y : x # q[i] /\ y # q[i] /\ Before(q, x, y) => Before(DropAt(q, i), x, y)
<1> DEFINE d == DropAt(q, i)
<1>1. Len(q) \in Nat /\ DOMAIN q = 1..Len(q)
  BY LenProperties
<1>2. /\ d \in Seq(S) /\ Len(d) = Len(q) - 1 /\ DOMAIN d = 1..(Len(q) - 1)
      /\ \A j \in 1..(Len(q) - 1) : d[j] = IF j < i THEN q[j] ELSE q[j + 1]
  BY DropAtElements, LenProperties
<1> HIDE DEF d
<1>3. \A j \in 1..Len(q) : j # i =>
        \E k \in DOMAIN d : d[k] = q[j] /\ k = IF j < i THEN j ELSE j - 1
  <2> SUFFICES ASSUME NEW j \in 1..Len(q), j # i
               PROVE  \E k \in DOMAIN d : d[k] = q[j] /\ k = IF j < i THEN j ELSE j - 1
    OBVIOUS
  <2>1. CASE j < i
    <3>1. j \in DOMAIN d /\ d[j] = q[j]
      BY <1>1, <1>2, <2>1
    <3> QED BY <3>1, <2>1
  <2>2. CASE j > i
    <3>1. j - 1 \in DOMAIN d /\ d[j - 1] = q[j]
      BY <1>1, <1>2, <2>2
    <3> QED BY <3>1, <2>2
  <2> QED BY <2>1, <2>2, <1>1
<1>4. \A k \in DOMAIN d : \E j \in 1..Len(q) :
        j # i /\ d[k] = q[j] /\ j = IF k < i THEN k ELSE k + 1
  <2> SUFFICES ASSUME NEW k \in DOMAIN d
               PROVE  \E j \in 1..Len(q) :
                        j # i /\ d[k] = q[j] /\ j = IF k < i THEN k ELSE k + 1
    OBVIOUS
  <2>1. CASE k < i
    BY <1>1, <1>2, <2>1
  <2>2. CASE ~(k < i)
    <3>1. k + 1 \in 1..Len(q) /\ k + 1 # i /\ d[k] = q[k + 1]
      BY <1>1, <1>2, <2>2
    <3> QED BY <3>1, <2>2
  <2> QED BY <2>1, <2>2
<1>5. Distinct(d)
  <2> SUFFICES ASSUME NEW k \in DOMAIN d, NEW l \in DOMAIN d, d[k] = d[l]
               PROVE  k = l
    BY DEF Distinct
  <2>1. PICK j \in 1..Len(q) : j # i /\ d[k] = q[j] /\ j = IF k < i THEN k ELSE k + 1
    BY <1>4
  <2>2. PICK m \in 1..Len(q) : m # i /\ d[l] = q[m] /\ m = IF l < i THEN l ELSE l + 1
    BY <1>4
  <2>3. j = m
    BY <2>1, <2>2, <1>1 DEF Distinct
  <2> QED BY <2>1, <2>2, <2>3, <1>2, <1>1
<1>6. Members(d) = Members(q) \ {q[i]}
  <2>1. ASSUME NEW x \in Members(d) PROVE x \in Members(q) \ {q[i]}
    <3>1. PICK k \in DOMAIN d : d[k] = x
      BY <2>1 DEF Members
    <3>2. PICK j \in 1..Len(q) : j # i /\ x = q[j]
      BY <1>4, <3>1
    <3> QED BY <3>2, <1>1 DEF Members, Distinct
  <2>2. ASSUME NEW x \in Members(q) \ {q[i]} PROVE x \in Members(d)
    <3>1. PICK j \in 1..Len(q) : j # i /\ x = q[j]
      BY <1>1 DEF Members
    <3> QED BY <1>3, <3>1 DEF Members
  <2> QED BY <2>1, <2>2
<1>7. ASSUME NEW x, NEW y, x # q[i], y # q[i], Before(q, x, y) PROVE Before(d, x, y)
  <2>1. PICK j \in 1..Len(q), m \in 1..Len(q) : j < m /\ q[j] = x /\ q[m] = y
    BY <1>1, <1>7 DEF Before
  <2>2. j # i /\ m # i
    BY <2>1, <1>7
  <2>3. PICK k \in DOMAIN d : d[k] = q[j] /\ k = IF j < i THEN j ELSE j - 1
    BY <1>3, <2>2
  <2>4. PICK l \in DOMAIN d : d[l] = q[m] /\ l = IF m < i THEN m ELSE m - 1
    BY <1>3, <2>2
  <2>5. k < l
    BY <2>1, <2>2, <2>3, <2>4, <1>1
  <2> QED BY <2>1, <2>3, <2>4, <2>5 DEF Before
<1> QED BY <1>5, <1>6, <1>7 DEF d

\* Removing a block of a queue without repetitions.
LEMMA WithoutBlock ==
  ASSUME NEW S, NEW q \in Seq(S), Distinct(q), NEW b \in Members(q)
  PROVE  /\ Without(q, b) \in Seq(S)
         /\ Len(Without(q, b)) = Len(q) - 1
         /\ Distinct(Without(q, b))
         /\ Members(Without(q, b)) = Members(q) \ {b}
         /\ \A x, y : x # b /\ y # b /\ Before(q, x, y) => Before(Without(q, b), x, y)
<1> DEFINE i == IndexIn(q, b)
<1>1. i \in DOMAIN q /\ q[i] = b
  BY DEF IndexIn, Members
<1>2. i \in 1..Len(q)
  BY <1>1, LenProperties
<1> HIDE DEF i
<1>3. Without(q, b) = DropAt(q, i)
  BY DEF Without, i
<1> QED BY <1>1, <1>2, <1>3, DropAtElements, DropAtDistinct

\* Appending a block to a sequence that does not hold it.
LEMMA AppendBlock ==
  ASSUME NEW S, NEW q \in Seq(S), Distinct(q), NEW b \in S, b \notin Members(q)
  PROVE  /\ Append(q, b) \in Seq(S)
         /\ Len(Append(q, b)) = Len(q) + 1
         /\ Distinct(Append(q, b))
         /\ Members(Append(q, b)) = Members(q) \cup {b}
         /\ \A i \in 1..Len(q) : Append(q, b)[i] = q[i]
         /\ Append(q, b)[Len(q) + 1] = b
         /\ \A x, y : Before(q, x, y) => Before(Append(q, b), x, y)
         /\ \A x \in Members(q) : Before(Append(q, b), x, b)
<1> DEFINE a == Append(q, b)
<1>1. Len(q) \in Nat /\ DOMAIN q = 1..Len(q)
  BY LenProperties
<1>2. /\ a \in Seq(S) /\ Len(a) = Len(q) + 1
      /\ \A i \in 1..Len(q) : a[i] = q[i]
      /\ a[Len(q) + 1] = b
  BY AppendProperties, <1>1
<1>3. DOMAIN a = 1..(Len(q) + 1)
  BY <1>2, LenProperties
<1> HIDE DEF a
<1>4. \A i \in 1..Len(q) : i \in DOMAIN a /\ a[i] = q[i] /\ q[i] # b
  BY <1>1, <1>2, <1>3 DEF Members
<1>5. \A i \in DOMAIN a : i \in 1..Len(q) \/ i = Len(q) + 1
  BY <1>1, <1>3
<1>6. Len(q) + 1 \in DOMAIN a
  BY <1>1, <1>3
<1>7. Distinct(a)
  BY <1>1, <1>2, <1>4, <1>5 DEF Distinct
<1>8. Members(a) = Members(q) \cup {b}
  BY <1>1, <1>2, <1>4, <1>5, <1>6 DEF Members
<1>9. \A x, y : Before(q, x, y) => Before(a, x, y)
  BY <1>1, <1>4 DEF Before
<1>10. \A x \in Members(q) : Before(a, x, b)
  <2> SUFFICES ASSUME NEW x \in Members(q) PROVE Before(a, x, b)
    OBVIOUS
  <2>1. PICK i \in 1..Len(q) : q[i] = x
    BY <1>1 DEF Members
  <2>2. i < Len(q) + 1
    BY <1>1
  <2> QED BY <2>1, <2>2, <1>2, <1>4, <1>6 DEF Before
<1> QED BY <1>2, <1>7, <1>8, <1>9, <1>10 DEF a

\* A sequence without repetitions is as long as the set of its elements.
LEMMA CardMembers ==
  ASSUME NEW S, NEW q \in Seq(S), Distinct(q)
  PROVE  IsFiniteSet(Members(q)) /\ Cardinality(Members(q)) = Len(q)
<1>1. Len(q) \in Nat /\ DOMAIN q = 1..Len(q) /\ q \in [1..Len(q) -> S]
  BY LenProperties
<1>2. q \in Bijection(1..Len(q), Members(q))
  BY <1>1 DEF Bijection, Injection, Surjection, IsInjective, Members, Distinct
<1>3. ExistsBijection(1..Len(q), Members(q))
  BY <1>2 DEF ExistsBijection
<1> QED BY <1>1, <1>3, FS_NatBijection, FS_CountingElements

\* The elements of a sequence, by their places.
LEMMA MembersOf ==
  ASSUME NEW S, NEW q \in Seq(S)
  PROVE  /\ Len(q) \in Nat
         /\ DOMAIN q = 1..Len(q)
         /\ \A i \in 1..Len(q) : q[i] \in S /\ q[i] \in Members(q)
         /\ Members(q) \subseteq S
         /\ Members(q) = {} <=> q = << >>
         /\ Len(q) = 0 <=> q = << >>
<1>1. Len(q) \in Nat /\ DOMAIN q = 1..Len(q) /\ q \in [1..Len(q) -> S]
  BY LenProperties
<1>2. \A i \in 1..Len(q) : q[i] \in S /\ q[i] \in Members(q)
  BY <1>1 DEF Members
<1>3. Members(q) \subseteq S
  BY <1>1 DEF Members
<1>4. Len(q) = 0 <=> q = << >>
  BY EmptySeq
<1>5. Members(q) = {} => Len(q) = 0
  BY <1>1, <1>2
<1>6. Members(<< >>) = {}
  BY DEF Members
<1> QED BY <1>1, <1>2, <1>3, <1>4, <1>5, <1>6

\* The fields of a pool.
LEMMA PoolFields ==
  ASSUME NEW p \in Pools
  PROVE  /\ p.free_block_queue \in Seq(Blocks)
         /\ p.ref_cnt \in [Blocks -> Nat]
         /\ p.block_hash \in [Blocks -> Hashes \cup {NoHash}]
         /\ p.cached \in [Hashes -> Seq(Blocks)]
         /\ p.view \in SUBSET Hashes
BY DEF Pools

\* Pool g is pool p after touch of block b: a reference more, and not in the queue.
Touched(p, g, b) ==
  /\ g \in Pools
  /\ g.ref_cnt = [p.ref_cnt EXCEPT ![b] = @ + 1]
  /\ g.block_hash = p.block_hash
  /\ g.cached = p.cached
  /\ g.view = p.view
  /\ g.free_block_queue = IF p.ref_cnt[b] = 0 THEN Without(p.free_block_queue, b)
                          ELSE p.free_block_queue

\* What touch does to a block that is queued exactly when it has no reference.
LEMMA TouchFields ==
  ASSUME NEW p \in Pools, NEW b \in Blocks \ {NullBlock}, Distinct(p.free_block_queue),
         b \in Members(p.free_block_queue) <=> p.ref_cnt[b] = 0
  PROVE  Touched(p, touch(p, b), b)
<1> DEFINE t == touch(p, b)
           q == IF p.ref_cnt[b] = 0 THEN Without(p.free_block_queue, b)
                ELSE p.free_block_queue
           c == [p.ref_cnt EXCEPT ![b] = @ + 1]
<1>1. q \in Seq(Blocks)
  BY PoolFields, WithoutBlock
<1>2. c \in [Blocks -> Nat]
  BY PoolFields
<1>3. t = [p EXCEPT !.free_block_queue = q, !.ref_cnt = c]
  BY DEF touch, Pools
<1> HIDE DEF q, c, t
<1>4. t = [free_block_queue |-> q, ref_cnt |-> c, block_hash |-> p.block_hash,
           cached |-> p.cached, view |-> p.view]
  BY <1>3 DEF Pools
<1>5. t \in Pools
  BY <1>1, <1>2, <1>4, PoolFields DEF Pools
<1> QED BY <1>4, <1>5 DEF q, c, t, Touched

\* Pool g is pool p after free_block of block b: a reference less, and at the end
\* of the queue when it was the last.
Freed(p, g, b) ==
  /\ g \in Pools
  /\ g.ref_cnt = [p.ref_cnt EXCEPT ![b] = @ - 1]
  /\ g.block_hash = p.block_hash
  /\ g.cached = p.cached
  /\ g.view = p.view
  /\ g.free_block_queue = IF p.ref_cnt[b] = 1 THEN Append(p.free_block_queue, b)
                          ELSE p.free_block_queue

\* What free_block does to a block with a reference.
LEMMA FreeFields ==
  ASSUME NEW p \in Pools, NEW b \in Blocks \ {NullBlock}, p.ref_cnt[b] > 0
  PROVE  Freed(p, free_block(p, b), b)
<1> DEFINE t == free_block(p, b)
           q == IF p.ref_cnt[b] = 1 THEN Append(p.free_block_queue, b)
                ELSE p.free_block_queue
           c == [p.ref_cnt EXCEPT ![b] = @ - 1]
<1>1. q \in Seq(Blocks)
  BY PoolFields, AppendProperties
<1>2. c \in [Blocks -> Nat]
  BY PoolFields
<1>3. t = [p EXCEPT !.ref_cnt = c, !.free_block_queue = q]
  BY DEF free_block, Pools
<1> HIDE DEF q, c, t
<1>4. t = [free_block_queue |-> q, ref_cnt |-> c, block_hash |-> p.block_hash,
           cached |-> p.cached, view |-> p.view]
  BY <1>3 DEF Pools
<1>5. t \in Pools
  BY <1>1, <1>2, <1>4, PoolFields DEF Pools
<1> QED BY <1>4, <1>5 DEF q, c, t, Freed

\* Pool g is pool p with hash h on block b and an entry for it in the index.
Stored(p, g, b, h) ==
  /\ g \in Pools
  /\ g.free_block_queue = p.free_block_queue
  /\ g.ref_cnt = p.ref_cnt
  /\ g.block_hash = [p.block_hash EXCEPT ![b] = h]
  /\ g.cached = [p.cached EXCEPT ![h] = Append(@, b)]
  /\ g.view = p.view \cup {h}

\* What cache_full_block does.
LEMMA CacheFields ==
  ASSUME NEW p \in Pools, NEW b \in Blocks, NEW h \in Hashes
  PROVE  Stored(p, cache_full_block(p, b, h), b, h)
<1> DEFINE t == cache_full_block(p, b, h)
           k == [p.block_hash EXCEPT ![b] = h]
           c == [p.cached EXCEPT ![h] = Append(@, b)]
           v == p.view \cup {h}
<1>1. k \in [Blocks -> Hashes \cup {NoHash}]
  BY PoolFields
<1>2. c \in [Hashes -> Seq(Blocks)]
  <2>1. Append(p.cached[h], b) \in Seq(Blocks)
    BY PoolFields, AppendProperties
  <2> QED BY <2>1, PoolFields
<1>3. v \in SUBSET Hashes
  BY PoolFields
<1>4. t = [p EXCEPT !.block_hash = k, !.cached = c, !.view = v]
  BY DEF cache_full_block, Pools
<1> HIDE DEF k, c, v, t
<1>5. t = [free_block_queue |-> p.free_block_queue, ref_cnt |-> p.ref_cnt,
           block_hash |-> k, cached |-> c, view |-> v]
  BY <1>4 DEF Pools
<1>6. t \in Pools
  BY <1>1, <1>2, <1>3, <1>5, PoolFields DEF Pools
<1> QED BY <1>5, <1>6 DEF k, c, v, t, Stored

\* reset_prefix_cache forgets every hash.
LEMMA ResetFields ==
  ASSUME NEW p \in Pools
  PROVE  /\ reset_prefix_cache(p) \in Pools
         /\ reset_prefix_cache(p).free_block_queue = p.free_block_queue
         /\ reset_prefix_cache(p).ref_cnt = p.ref_cnt
         /\ reset_prefix_cache(p).block_hash = [b \in Blocks |-> NoHash]
         /\ reset_prefix_cache(p).cached = [h \in Hashes |-> << >>]
         /\ reset_prefix_cache(p).view = {}
<1>1. << >> \in Seq(Blocks)
  BY EmptySeq
<1> QED BY <1>1 DEF reset_prefix_cache, Pools

\* popleft takes a block of the queue; with prefix caching it is the head, and no
\* block of the queue is before it.
LEMMA PopleftBlock ==
  ASSUME NEW p \in Pools, Distinct(p.free_block_queue), Len(p.free_block_queue) > 0
  PROVE  /\ popleft(p) \in Members(p.free_block_queue)
         /\ EnableCaching => \A x : ~Before(p.free_block_queue, x, popleft(p))
<1> DEFINE q == p.free_block_queue
<1>1. /\ q \in Seq(Blocks) /\ Len(q) \in Nat /\ DOMAIN q = 1..Len(q) /\ 1 \in DOMAIN q
      /\ q[1] \in Members(q) /\ Members(q) \subseteq Blocks
  <2>1. q \in Seq(Blocks) BY PoolFields
  <2> QED BY <2>1, MembersOf
<1> HIDE DEF q
<1>2. CASE EnableCaching
  <2>1. popleft(p) = q[1]
    BY <1>2 DEF popleft, q
  <2>2. ASSUME NEW x, Before(q, x, q[1]) PROVE FALSE
    <3>1. PICK i \in DOMAIN q, j \in DOMAIN q : i < j /\ q[j] = q[1]
      BY <2>2 DEF Before
    <3>2. j = 1
      BY <3>1, <1>1 DEF Distinct, q
    <3> QED BY <3>1, <3>2, <1>1
  <2> QED BY <2>1, <2>2, <1>1 DEF q
<1>3. CASE ~EnableCaching
  <2>1. PICK b \in Members(q) : \A c \in Members(q) : b <= c
    <3>1. Members(q) # {} /\ Members(q) \in SUBSET Nat
      BY <1>1, PoolAssumption DEF Blocks
    <3>2. PICK b \in Members(q) : \A c \in Members(q) : ~(<<c, b>> \in OpToRel(<, Nat))
      BY <3>1, NatLessThanWellFounded, WFMin, Zenon
    <3>3. \A c \in Nat : c < b /\ b \in Nat => <<c, b>> \in OpToRel(<, Nat)
      BY Zenon DEF OpToRel
    <3>4. \A c \in Members(q) : c \in Nat /\ b \in Nat /\ ~(c < b)
      BY <3>1, <3>2, <3>3, Zenon
    <3> QED BY <3>4
  <2>2. popleft(p) = CHOOSE a \in Members(q) : \A c \in Members(q) : a <= c
    BY <1>3 DEF popleft, q
  <2>3. popleft(p) \in Members(q)
    BY <2>1, <2>2
  <2> QED BY <2>3, <1>3 DEF q
<1> QED BY <1>2, <1>3

\* A pool whose index is exact and whose queue has a block to take.
Indexed(p) ==
  /\ Distinct(p.free_block_queue)
  /\ Len(p.free_block_queue) > 0
  /\ \A h \in Hashes : Distinct(p.cached[h])
  /\ \A h \in Hashes : \A c \in Blocks : c \in Members(p.cached[h]) <=> p.block_hash[c] = h
  /\ ~EnableCaching => \A c \in Blocks : p.block_hash[c] = NoHash

\* The index and the events of pool g are those of pool p without block b.
Evicted(p, g, b) ==
  /\ \A h \in Hashes :
       Distinct(g.cached[h]) /\ Members(g.cached[h]) = Members(p.cached[h]) \ {b}
  /\ \A h \in g.view : h \in p.view /\ p.block_hash[b] # h

\* get_new_block takes a block of the queue, counts the reference and evicts the
\* block from the index, and tells the consumer of the events.
LEMMA NewBlockFields ==
  ASSUME NEW p \in Pools, Indexed(p), NEW b, b = popleft(p)
  PROVE  /\ get_new_block(p) \in Pools
         /\ get_new_block(p).free_block_queue = Without(p.free_block_queue, b)
         /\ get_new_block(p).ref_cnt = [p.ref_cnt EXCEPT ![b] = @ + 1]
         /\ get_new_block(p).block_hash = [p.block_hash EXCEPT ![b] = NoHash]
         /\ Evicted(p, get_new_block(p), b)
<1> DEFINE w == Without(p.free_block_queue, b)
           q == [p EXCEPT !.free_block_queue = w]
           c == [p.ref_cnt EXCEPT ![b] = @ + 1]
           g == get_new_block(p)
           h == p.block_hash[b]
           nh == [p.block_hash EXCEPT ![b] = NoHash]
           nc == [p.cached EXCEPT ![h] = Without(@, b)]
<1>1. b \in Blocks /\ b \in Members(p.free_block_queue)
  BY PopleftBlock, PoolFields, MembersOf DEF Indexed
<1>2. w \in Seq(Blocks)
  BY <1>1, PoolFields, WithoutBlock DEF Indexed
<1>3. c \in [Blocks -> Nat] /\ nh \in [Blocks -> Hashes \cup {NoHash}]
  BY <1>1, PoolFields
<1> HIDE DEF w, c, nh
<1>4. q = [free_block_queue |-> w, ref_cnt |-> p.ref_cnt, block_hash |-> p.block_hash,
           cached |-> p.cached, view |-> p.view]
  <2>1. p = [free_block_queue |-> p.free_block_queue, ref_cnt |-> p.ref_cnt,
             block_hash |-> p.block_hash, cached |-> p.cached, view |-> p.view]
    BY DEF Pools
  <2> QED BY <2>1
<1> HIDE DEF q
<1>5. g = [(IF EnableCaching THEN maybe_evict_cached_block(q, b) ELSE q)
             EXCEPT !.ref_cnt[b] = @ + 1]
  BY DEF get_new_block, q, w
<1>6. p.ref_cnt \in [Blocks -> Nat] /\ p.block_hash \in [Blocks -> Hashes \cup {NoHash}]
      /\ p.cached \in [Hashes -> Seq(Blocks)] /\ p.view \in SUBSET Hashes
  BY PoolFields
<1> HIDE DEF g
<1>7. CASE h = NoHash
  <2>1. (IF EnableCaching THEN maybe_evict_cached_block(q, b) ELSE q) = q
    BY <1>4, <1>7 DEF maybe_evict_cached_block
  <2>2. g = [q EXCEPT !.ref_cnt[b] = @ + 1]
    BY <1>5, <2>1
  <2>3. g = [free_block_queue |-> w, ref_cnt |-> c, block_hash |-> p.block_hash,
             cached |-> p.cached, view |-> p.view]
    BY <1>4, <2>2 DEF c
  <2>4. nh = p.block_hash
    BY <1>1, <1>6, <1>7 DEF nh
  <2>5. g \in Pools
    BY <1>2, <1>3, <1>6, <2>3 DEF Pools
  <2>6. \A k \in Hashes : b \notin Members(p.cached[k])
    BY <1>1, <1>7, PoolAssumption DEF Indexed
  <2>7. \A k \in Hashes : Members(p.cached[k]) = Members(p.cached[k]) \ {b}
    BY <2>6
  <2>8. \A k \in p.view : p.block_hash[b] # k
    BY <1>6, <1>7, PoolAssumption
  <2>9. /\ g.free_block_queue = w /\ g.ref_cnt = c /\ g.block_hash = nh
        /\ g.cached = p.cached /\ g.view = p.view
    BY <2>3, <2>4
  <2> QED BY <2>5, <2>7, <2>8, <2>9 DEF g, w, c, nh, Indexed, Evicted
<1>8. CASE h # NoHash
  <2> HIDE DEF nc
  <2>1. h \in Hashes /\ b \in Members(p.cached[h]) /\ EnableCaching
    BY <1>1, <1>6, <1>8 DEF Indexed
  <2>2. maybe_evict_cached_block(q, b) =
          [q EXCEPT !.block_hash[b] = NoHash, !.cached[h] = Without(@, b), !.view = @ \ {h}]
    BY <1>4, <1>8, <2>1 DEF maybe_evict_cached_block
  <2>3. maybe_evict_cached_block(q, b) =
          [free_block_queue |-> w, ref_cnt |-> p.ref_cnt, block_hash |-> nh,
           cached |-> nc, view |-> p.view \ {h}]
    BY <1>4, <2>2 DEF nh, nc
  <2>4. g = [free_block_queue |-> w, ref_cnt |-> c, block_hash |-> nh,
             cached |-> nc, view |-> p.view \ {h}]
    <3>1. g = [maybe_evict_cached_block(q, b) EXCEPT !.ref_cnt[b] = @ + 1]
      BY <1>5, <2>1
    <3>2. \A v : [[free_block_queue |-> w, ref_cnt |-> p.ref_cnt, block_hash |-> nh,
                   cached |-> nc, view |-> v] EXCEPT !.ref_cnt[b] = @ + 1] =
                 [free_block_queue |-> w, ref_cnt |-> c, block_hash |-> nh,
                  cached |-> nc, view |-> v]
      BY DEF c
    <3> QED BY <3>1, <3>2, <2>3, Zenon
  <2>5. /\ Without(p.cached[h], b) \in Seq(Blocks)
        /\ Distinct(Without(p.cached[h], b))
        /\ Members(Without(p.cached[h], b)) = Members(p.cached[h]) \ {b}
    BY <1>6, <2>1, WithoutBlock DEF Indexed
  <2>6. nc \in [Hashes -> Seq(Blocks)]
    BY <1>6, <2>5 DEF nc
  <2>7. g \in Pools
    BY <1>2, <1>3, <1>6, <2>4, <2>6 DEF Pools
  <2>8. ASSUME NEW k \in Hashes
        PROVE  Distinct(nc[k]) /\ Members(nc[k]) = Members(p.cached[k]) \ {b}
    <3>1. CASE k = h
      BY <1>6, <2>5, <3>1 DEF nc
    <3>2. CASE k # h
      <4>1. nc[k] = p.cached[k]
        BY <1>6, <3>2 DEF nc
      <4>2. b \notin Members(p.cached[k])
        BY <1>1, <3>2 DEF Indexed
      <4> QED BY <4>1, <4>2 DEF Indexed
    <3> QED BY <3>1, <3>2
  <2>9. Evicted(p, g, b)
    BY <2>4, <2>8 DEF Evicted
  <2> QED BY <2>4, <2>7, <2>9 DEF g, w, c, nh
<1> QED BY <1>7, <1>8

-----------------------------------------------------------------------------
(* The KV cache manager: what each of its calls makes of a manager that is in order. *)

\* A non-empty set of natural numbers has a least element.
LEMMA Smallest ==
  ASSUME NEW T, T \subseteq Nat, T # {}
  PROVE  \E m \in T : \A k \in T : m <= k
<1>1. PICK m \in T : \A k \in T : ~(<<k, m>> \in OpToRel(<, Nat))
  BY NatLessThanWellFounded, WFMin
<1>2. \A k \in T : ~(k < m)
  BY <1>1 DEF OpToRel
<1> QED
  BY <1>2

\* A set of numbers that has 0 and with m the next has all up to n
LEMMA CountUp ==
  ASSUME NEW n \in Nat, NEW T, 0 \in T, \A m \in 0..(n - 1) : m \in T => m + 1 \in T
  PROVE  \A m \in 0..n : m \in T
<1>1. SUFFICES ASSUME {m \in 0..n : m \notin T} # {} PROVE FALSE
  OBVIOUS
<1>2. PICK m \in {i \in 0..n : i \notin T} : \A k \in {i \in 0..n : i \notin T} : m <= k
  <2>1. {i \in 0..n : i \notin T} \subseteq Nat
    OBVIOUS
  <2> QED
    BY <1>1, <2>1, Smallest
<1>3. m # 0 /\ m - 1 \in 0..(n - 1) /\ m - 1 + 1 = m
  BY <1>2
<1>4. m - 1 \in T
  BY <1>2, <1>3
<1> QED
  BY <1>2, <1>3, <1>4

\* The greatest of numbers up to n.
LEMMA Greatest ==
  ASSUME NEW n \in Nat, NEW s \in SUBSET (1..n), s # {}
  PROVE  Max(s) \in s /\ \A i \in s : i <= Max(s)
<1>1. PICK m \in {n - i : i \in s} : \A k \in {n - i : i \in s} : m <= k
  <2>1. \A i \in s : n - i \in Nat
    OBVIOUS
  <2>2. {n - i : i \in s} \subseteq Nat /\ {n - i : i \in s} # {}
    BY <2>1
  <2> QED
    BY <2>2, Smallest
<1>2. PICK x \in s : m = n - x
  BY <1>1
<1>3. ASSUME NEW y \in s PROVE x >= y
  <2>1. m <= n - y
    BY <1>1
  <2> QED
    BY <2>1, <1>2
<1> QED
  BY <1>3 DEF Max

\* The numbers up to m, and those before.
LEMMA UpTo ==
  ASSUME NEW n \in Nat, NEW m \in 1..n
  PROVE  /\ 1..m \in SUBSET (1..n) /\ 1..m # {} /\ Max(1..m) = m
         /\ (1..m) \ {Max(1..m)} = 1..(m - 1) /\ 1..(m - 1) \in SUBSET (1..n)
<1>1. m \in Nat /\ 1..m \in SUBSET (1..m) /\ m \in 1..m
  OBVIOUS
<1>2. Max(1..m) \in 1..m /\ m <= Max(1..m)
  BY <1>1, Greatest
<1>3. Max(1..m) = m
  BY <1>2
<1>4. \A i : i \in (1..m) \ {m} <=> i \in 1..(m - 1)
  OBVIOUS
<1> QED
  BY <1>1, <1>3, <1>4

\* touch, block by block.
LEMMA TouchIterates ==
  ASSUME NEW p, NEW S, NEW q \in Seq(S)
  PROVE  \E h : /\ h[0] = p
                /\ \A m \in 1..Len(q) : h[m] = touch(h[m - 1], q[m])
                /\ touch_blocks(p, q) = h[Len(q)]
<1>n. PICK n \in Nat : n = Len(q) /\ DOMAIN q = 1..n
  BY LenProperties
<1> USE <1>n
<1> DEFINE Eq(g, s) == g[s] = IF s = {} THEN p
                              ELSE touch(g[s \ {Max(s)}], q[Max(s)])
           Works(g, m) == g = [s \in SUBSET (1..n) |-> g[s]] /\ \A s \in SUBSET (1..m) : Eq(g, s)
           T == {m \in 0..n : \E g : Works(g, m)}
<1> HIDE DEF Works
<1>1. 0 \in T
  <2>1. PICK g : g = [s \in SUBSET (1..n) |-> p]
    OBVIOUS
  <2>2. \A s \in SUBSET (1..0) : s = {}
    OBVIOUS
  <2>3. Works(g, 0)
    BY <2>1, <2>2 DEF Works
  <2> QED
    BY <2>3
<1>2. ASSUME NEW m \in 0..(n - 1), m \in T PROVE m + 1 \in T
  <2>1. PICK g : Works(g, m)
    BY <1>2
  <2>2. PICK f : f = [s \in SUBSET (1..n) |->
                        IF m + 1 \in s THEN touch(g[s \ {Max(s)}], q[Max(s)])
                        ELSE g[s]]
    OBVIOUS
  <2>3. ASSUME NEW s \in SUBSET (1..(m + 1)) PROVE Eq(f, s)
    <3>1. s \in SUBSET (1..n)
      OBVIOUS
    <3>2. CASE m + 1 \in s
      <4>1. Max(s) = m + 1
        <5>1. Max(s) \in s /\ m + 1 <= Max(s) /\ Max(s) \in 1..(m + 1)
          BY <3>1, <3>2, Greatest
        <5> QED
          BY <5>1
      <4>2. s \ {Max(s)} \in SUBSET (1..n) /\ m + 1 \notin s \ {Max(s)}
        BY <4>1, <3>1
      <4>3. f[s \ {Max(s)}] = g[s \ {Max(s)}]
        BY <4>2, <2>2
      <4> QED
        BY <2>2, <3>1, <3>2, <4>3
    <3>3. CASE m + 1 \notin s
      <4>1. s \in SUBSET (1..m)
        BY <3>3
      <4>2. Eq(g, s) /\ f[s] = g[s]
        BY <4>1, <2>1, <2>2, <3>1, <3>3 DEF Works
      <4>3. s # {} => f[s \ {Max(s)}] = g[s \ {Max(s)}]
        BY <2>2, <3>1, <3>3
      <4> QED
        BY <4>2, <4>3
    <3> QED
      BY <3>2, <3>3
  <2>4. Works(f, m + 1)
    <3> HIDE DEF Eq
    <3>1. f = [s \in SUBSET (1..n) |-> f[s]]
      BY <2>2
    <3> QED
      BY <2>3, <3>1 DEF Works
  <2> QED
    BY <2>4
<1>3. n \in T
  <2> HIDE DEF T
  <2>1. \A m \in 0..n : m \in T
    BY <1>1, <1>2, CountUp
  <2> QED
    BY <2>1
<1>4. PICK g : Works(g, n)
  BY <1>3
<1>5. g = [s \in SUBSET (1..n) |-> IF s = {} THEN p
                                  ELSE touch(g[s \ {Max(s)}], q[Max(s)])]
  BY <1>4 DEF Works
<1>6. PICK w : /\ w = [s \in SUBSET (1..n) |-> IF s = {} THEN p
                         ELSE touch(w[s \ {Max(s)}], q[Max(s)])]
               /\ touch_blocks(p, q) = w[1..n]
  BY <1>5 DEF touch_blocks, FoldLeft, MapThenFoldSet
<1>7. PICK h : h = [m \in 0..n |-> w[1..m]]
  OBVIOUS
<1>8. h[0] = p
  <2>1. 1..0 = {} /\ {} \in SUBSET (1..n)
    OBVIOUS
  <2> QED
    BY <2>1, <1>6, <1>7
<1>9. \A m \in 1..n : h[m] = touch(h[m - 1], q[m])
  <2> SUFFICES ASSUME NEW m \in 1..n PROVE h[m] = touch(h[m - 1], q[m])
    OBVIOUS
  <2>1. w[1..m] = touch(w[1..(m - 1)], q[m])
    BY UpTo, <1>6
  <2> QED
    BY <2>1, <1>7
<1>10. touch_blocks(p, q) = h[n]
  <2>1. h[n] = w[1..n]
    BY <1>7
  <2> QED
    BY <2>1, <1>6, Zenon
<1> QED
  BY <1>8, <1>9, <1>10, Zenon

\* free_blocks, block by block.
LEMMA FreeIterates ==
  ASSUME NEW p, NEW S, NEW q \in Seq(S)
  PROVE  \E h : /\ h[0] = p
                /\ \A m \in 1..Len(q) : h[m] = free_block(h[m - 1], q[m])
                /\ free_blocks(p, q) = h[Len(q)]
<1>n. PICK n \in Nat : n = Len(q) /\ DOMAIN q = 1..n
  BY LenProperties
<1> USE <1>n
<1> DEFINE Eq(g, s) == g[s] = IF s = {} THEN p
                              ELSE free_block(g[s \ {Max(s)}], q[Max(s)])
           Works(g, m) == g = [s \in SUBSET (1..n) |-> g[s]] /\ \A s \in SUBSET (1..m) : Eq(g, s)
           T == {m \in 0..n : \E g : Works(g, m)}
<1> HIDE DEF Works
<1>1. 0 \in T
  <2>1. PICK g : g = [s \in SUBSET (1..n) |-> p]
    OBVIOUS
  <2>2. \A s \in SUBSET (1..0) : s = {}
    OBVIOUS
  <2>3. Works(g, 0)
    BY <2>1, <2>2 DEF Works
  <2> QED
    BY <2>3
<1>2. ASSUME NEW m \in 0..(n - 1), m \in T PROVE m + 1 \in T
  <2>1. PICK g : Works(g, m)
    BY <1>2
  <2>2. PICK f : f = [s \in SUBSET (1..n) |->
                        IF m + 1 \in s THEN free_block(g[s \ {Max(s)}], q[Max(s)])
                        ELSE g[s]]
    OBVIOUS
  <2>3. ASSUME NEW s \in SUBSET (1..(m + 1)) PROVE Eq(f, s)
    <3>1. s \in SUBSET (1..n)
      OBVIOUS
    <3>2. CASE m + 1 \in s
      <4>1. Max(s) = m + 1
        <5>1. Max(s) \in s /\ m + 1 <= Max(s) /\ Max(s) \in 1..(m + 1)
          BY <3>1, <3>2, Greatest
        <5> QED
          BY <5>1
      <4>2. s \ {Max(s)} \in SUBSET (1..n) /\ m + 1 \notin s \ {Max(s)}
        BY <4>1, <3>1
      <4>3. f[s \ {Max(s)}] = g[s \ {Max(s)}]
        BY <4>2, <2>2
      <4> QED
        BY <2>2, <3>1, <3>2, <4>3
    <3>3. CASE m + 1 \notin s
      <4>1. s \in SUBSET (1..m)
        BY <3>3
      <4>2. Eq(g, s) /\ f[s] = g[s]
        BY <4>1, <2>1, <2>2, <3>1, <3>3 DEF Works
      <4>3. s # {} => f[s \ {Max(s)}] = g[s \ {Max(s)}]
        BY <2>2, <3>1, <3>3
      <4> QED
        BY <4>2, <4>3
    <3> QED
      BY <3>2, <3>3
  <2>4. Works(f, m + 1)
    <3> HIDE DEF Eq
    <3>1. f = [s \in SUBSET (1..n) |-> f[s]]
      BY <2>2
    <3> QED
      BY <2>3, <3>1 DEF Works
  <2> QED
    BY <2>4
<1>3. n \in T
  <2> HIDE DEF T
  <2>1. \A m \in 0..n : m \in T
    BY <1>1, <1>2, CountUp
  <2> QED
    BY <2>1
<1>4. PICK g : Works(g, n)
  BY <1>3
<1>5. g = [s \in SUBSET (1..n) |-> IF s = {} THEN p
                                  ELSE free_block(g[s \ {Max(s)}], q[Max(s)])]
  BY <1>4 DEF Works
<1>6. PICK w : /\ w = [s \in SUBSET (1..n) |-> IF s = {} THEN p
                         ELSE free_block(w[s \ {Max(s)}], q[Max(s)])]
               /\ free_blocks(p, q) = w[1..n]
  BY <1>5 DEF free_blocks, FoldLeft, MapThenFoldSet
<1>7. PICK h : h = [m \in 0..n |-> w[1..m]]
  OBVIOUS
<1>8. h[0] = p
  <2>1. 1..0 = {} /\ {} \in SUBSET (1..n)
    OBVIOUS
  <2> QED
    BY <2>1, <1>6, <1>7
<1>9. \A m \in 1..n : h[m] = free_block(h[m - 1], q[m])
  <2> SUFFICES ASSUME NEW m \in 1..n PROVE h[m] = free_block(h[m - 1], q[m])
    OBVIOUS
  <2>1. w[1..m] = free_block(w[1..(m - 1)], q[m])
    BY UpTo, <1>6
  <2> QED
    BY <2>1, <1>7
<1>10. free_blocks(p, q) = h[n]
  <2>1. h[n] = w[1..n]
    BY <1>7
  <2> QED
    BY <2>1, <1>6, Zenon
<1> QED
  BY <1>8, <1>9, <1>10, Zenon

\* One round of get_new_blocks.
OneMore(acc) ==
  [pool |-> get_new_block(acc.pool), blocks |-> Append(acc.blocks, popleft(acc.pool))]

\* get_new_blocks, block by block.
LEMMA NewIterates ==
  ASSUME NEW p, NEW n \in Nat
  PROVE  \E h : /\ h[0] = [pool |-> p, blocks |-> << >>]
                /\ \A m \in 1..n : h[m] = OneMore(h[m - 1])
                /\ get_new_blocks(p, n) = h[n]
<1> DEFINE Eq(g, s) == g[s] = IF s = {} THEN [pool |-> p, blocks |-> << >>]
                              ELSE OneMore(g[s \ {Max(s)}])
           Works(g, m) == g = [s \in SUBSET (1..n) |-> g[s]] /\ \A s \in SUBSET (1..m) : Eq(g, s)
           T == {m \in 0..n : \E g : Works(g, m)}
<1> HIDE DEF Works
<1>1. 0 \in T
  <2>1. PICK g : g = [s \in SUBSET (1..n) |-> [pool |-> p, blocks |-> << >>]]
    OBVIOUS
  <2>2. \A s \in SUBSET (1..0) : s = {}
    OBVIOUS
  <2>3. Works(g, 0)
    BY <2>1, <2>2 DEF Works
  <2> QED
    BY <2>3
<1>2. ASSUME NEW m \in 0..(n - 1), m \in T PROVE m + 1 \in T
  <2>1. PICK g : Works(g, m)
    BY <1>2
  <2>2. PICK f : f = [s \in SUBSET (1..n) |->
                        IF m + 1 \in s THEN OneMore(g[s \ {Max(s)}])
                        ELSE g[s]]
    OBVIOUS
  <2>3. ASSUME NEW s \in SUBSET (1..(m + 1)) PROVE Eq(f, s)
    <3>1. s \in SUBSET (1..n)
      OBVIOUS
    <3>2. CASE m + 1 \in s
      <4>1. Max(s) = m + 1
        <5>1. Max(s) \in s /\ m + 1 <= Max(s) /\ Max(s) \in 1..(m + 1)
          BY <3>1, <3>2, Greatest
        <5> QED
          BY <5>1
      <4>2. s \ {Max(s)} \in SUBSET (1..n) /\ m + 1 \notin s \ {Max(s)}
        BY <4>1, <3>1
      <4>3. f[s \ {Max(s)}] = g[s \ {Max(s)}]
        BY <4>2, <2>2
      <4> QED
        BY <2>2, <3>1, <3>2, <4>3
    <3>3. CASE m + 1 \notin s
      <4>1. s \in SUBSET (1..m)
        BY <3>3
      <4>2. Eq(g, s) /\ f[s] = g[s]
        BY <4>1, <2>1, <2>2, <3>1, <3>3 DEF Works
      <4>3. s # {} => f[s \ {Max(s)}] = g[s \ {Max(s)}]
        BY <2>2, <3>1, <3>3
      <4> QED
        BY <4>2, <4>3
    <3> QED
      BY <3>2, <3>3
  <2>4. Works(f, m + 1)
    <3> HIDE DEF Eq
    <3>1. f = [s \in SUBSET (1..n) |-> f[s]]
      BY <2>2
    <3> QED
      BY <2>3, <3>1 DEF Works
  <2> QED
    BY <2>4
<1>3. n \in T
  <2> HIDE DEF T
  <2>1. \A m \in 0..n : m \in T
    BY <1>1, <1>2, CountUp
  <2> QED
    BY <2>1
<1>4. PICK g : Works(g, n)
  BY <1>3
<1>5. g = [s \in SUBSET (1..n) |-> IF s = {} THEN [pool |-> p, blocks |-> << >>]
                                  ELSE OneMore(g[s \ {Max(s)}])]
  BY <1>4 DEF Works
<1>6. PICK w : /\ w = [s \in SUBSET (1..n) |-> IF s = {} THEN [pool |-> p, blocks |-> << >>]
                         ELSE OneMore(w[s \ {Max(s)}])]
               /\ get_new_blocks(p, n) = w[1..n]
  BY <1>5 DEF get_new_blocks, OneMore, FoldLeft, MapThenFoldSet
<1>7. PICK h : h = [m \in 0..n |-> w[1..m]]
  OBVIOUS
<1>8. h[0] = [pool |-> p, blocks |-> << >>]
  <2>1. 1..0 = {} /\ {} \in SUBSET (1..n)
    OBVIOUS
  <2> QED
    BY <2>1, <1>6, <1>7
<1>9. \A m \in 1..n : h[m] = OneMore(h[m - 1])
  <2> SUFFICES ASSUME NEW m \in 1..n PROVE h[m] = OneMore(h[m - 1])
    OBVIOUS
  <2>1. w[1..m] = OneMore(w[1..(m - 1)])
    BY UpTo, <1>6
  <2> QED
    BY <2>1, <1>7
<1>10. get_new_blocks(p, n) = h[n]
  <2>1. h[n] = w[1..n]
    BY <1>7
  <2> QED
    BY <2>1, <1>6, Zenon
<1> QED
  BY <1>8, <1>9, <1>10, Zenon

\* One round of cache_full_blocks.
CacheNth(p, r, blocks, i) == cache_full_block(p, blocks[i], block_hash_of(r, i))

CacheRun(h, p, r, blocks, q) ==
  /\ h[0] = p
  /\ \A m \in 1..Len(q) : h[m] = CacheNth(h[m - 1], r, blocks, q[m])
  /\ cache_full_blocks(p, r, blocks, q) = h[Len(q)]

\* cache_full_blocks, block by block.
LEMMA CacheIterates ==
  ASSUME NEW p, NEW r, NEW blocks, NEW q \in Seq(Int)
  PROVE  \E h : CacheRun(h, p, r, blocks, q)
<1>n. PICK n \in Nat : n = Len(q) /\ DOMAIN q = 1..n
  BY LenProperties
<1> USE <1>n
<1> DEFINE Eq(g, s) == g[s] = IF s = {} THEN p
                              ELSE CacheNth(g[s \ {Max(s)}], r, blocks, q[Max(s)])
           Works(g, m) == g = [s \in SUBSET (1..n) |-> g[s]] /\ \A s \in SUBSET (1..m) : Eq(g, s)
           T == {m \in 0..n : \E g : Works(g, m)}
<1> HIDE DEF Works
<1>1. 0 \in T
  <2>1. PICK g : g = [s \in SUBSET (1..n) |-> p]
    OBVIOUS
  <2>2. \A s \in SUBSET (1..0) : s = {}
    OBVIOUS
  <2>3. Works(g, 0)
    BY <2>1, <2>2 DEF Works
  <2> QED
    BY <2>3
<1>2. ASSUME NEW m \in 0..(n - 1), m \in T PROVE m + 1 \in T
  <2>1. PICK g : Works(g, m)
    BY <1>2
  <2>2. PICK f : f = [s \in SUBSET (1..n) |->
                        IF m + 1 \in s THEN CacheNth(g[s \ {Max(s)}], r, blocks, q[Max(s)])
                        ELSE g[s]]
    OBVIOUS
  <2>3. ASSUME NEW s \in SUBSET (1..(m + 1)) PROVE Eq(f, s)
    <3>1. s \in SUBSET (1..n)
      OBVIOUS
    <3>2. CASE m + 1 \in s
      <4>1. Max(s) = m + 1
        <5>1. Max(s) \in s /\ m + 1 <= Max(s) /\ Max(s) \in 1..(m + 1)
          BY <3>1, <3>2, Greatest
        <5> QED
          BY <5>1
      <4>2. s \ {Max(s)} \in SUBSET (1..n) /\ m + 1 \notin s \ {Max(s)}
        BY <4>1, <3>1
      <4>3. f[s \ {Max(s)}] = g[s \ {Max(s)}]
        BY <4>2, <2>2
      <4> QED
        BY <2>2, <3>1, <3>2, <4>3
    <3>3. CASE m + 1 \notin s
      <4>1. s \in SUBSET (1..m)
        BY <3>3
      <4>2. Eq(g, s) /\ f[s] = g[s]
        BY <4>1, <2>1, <2>2, <3>1, <3>3 DEF Works
      <4>3. s # {} => f[s \ {Max(s)}] = g[s \ {Max(s)}]
        BY <2>2, <3>1, <3>3
      <4> QED
        BY <4>2, <4>3
    <3> QED
      BY <3>2, <3>3
  <2>4. Works(f, m + 1)
    <3> HIDE DEF Eq
    <3>1. f = [s \in SUBSET (1..n) |-> f[s]]
      BY <2>2
    <3> QED
      BY <2>3, <3>1 DEF Works
  <2> QED
    BY <2>4
<1>3. n \in T
  <2> HIDE DEF T
  <2>1. \A m \in 0..n : m \in T
    BY <1>1, <1>2, CountUp
  <2> QED
    BY <2>1
<1>4. PICK g : Works(g, n)
  BY <1>3
<1>5. g = [s \in SUBSET (1..n) |-> IF s = {} THEN p
                                  ELSE CacheNth(g[s \ {Max(s)}], r, blocks, q[Max(s)])]
  BY <1>4 DEF Works
<1>6. PICK w : /\ w = [s \in SUBSET (1..n) |-> IF s = {} THEN p
                         ELSE CacheNth(w[s \ {Max(s)}], r, blocks, q[Max(s)])]
               /\ cache_full_blocks(p, r, blocks, q) = w[1..n]
  BY <1>5 DEF cache_full_blocks, CacheNth, FoldLeft, MapThenFoldSet
<1>7. PICK h : h = [m \in 0..n |-> w[1..m]]
  OBVIOUS
<1>8. h[0] = p
  <2>1. 1..0 = {} /\ {} \in SUBSET (1..n)
    OBVIOUS
  <2> QED
    BY <2>1, <1>6, <1>7
<1>9. \A m \in 1..n : h[m] = CacheNth(h[m - 1], r, blocks, q[m])
  <2> SUFFICES ASSUME NEW m \in 1..n PROVE h[m] = CacheNth(h[m - 1], r, blocks, q[m])
    OBVIOUS
  <2>1. w[1..m] = CacheNth(w[1..(m - 1)], r, blocks, q[m])
    BY UpTo, <1>6
  <2> QED
    BY <2>1, <1>7
<1>10. cache_full_blocks(p, r, blocks, q) = h[n]
  <2>1. h[n] = w[1..n]
    BY <1>7
  <2> QED
    BY <2>1, <1>6, Zenon
<1> QED
  BY <1>8, <1>9, <1>10, Zenon DEF CacheRun

\* A pool between two calls: a block is in the queue, once, exactly when it has no
\* reference; the index lists a block, once, exactly under the hash it carries; the
\* null block is in neither.
PoolExact(p) ==
  /\ p \in Pools
  /\ Distinct(p.free_block_queue)
  /\ NullBlock \notin Members(p.free_block_queue)
  /\ \A b \in Blocks \ {NullBlock} : b \in Members(p.free_block_queue) <=> p.ref_cnt[b] = 0
  /\ \A h \in Hashes : Distinct(p.cached[h])
  /\ \A h \in Hashes : \A b \in Blocks : b \in Members(p.cached[h]) <=> p.block_hash[b] = h
  /\ p.block_hash[NullBlock] = NoHash
  /\ ~EnableCaching => \A b \in Blocks : p.block_hash[b] = NoHash

\* The reference counts of d are those of p, with c more for the blocks of S.
Counts(p, d, S, c) == \A x \in Blocks : d.ref_cnt[x] = p.ref_cnt[x] + IF x \in S THEN c ELSE 0

LEMMA TouchExact ==
  ASSUME NEW p, PoolExact(p), NEW b \in Blocks \ {NullBlock}
  PROVE  /\ PoolExact(touch(p, b))
         /\ touch(p, b).ref_cnt = [p.ref_cnt EXCEPT ![b] = @ + 1]
         /\ touch(p, b).block_hash = p.block_hash /\ touch(p, b).cached = p.cached
         /\ Members(touch(p, b).free_block_queue) = Members(p.free_block_queue) \ {b}
<1>g. PICK g : g = touch(p, b)
  OBVIOUS
<1>1. p \in Pools /\ Distinct(p.free_block_queue) /\ (b \in Members(p.free_block_queue) <=> p.ref_cnt[b] = 0)
  BY DEF PoolExact
<1>2. Touched(p, g, b)
  BY <1>1, <1>g, TouchFields
<1>3. /\ g \in Pools /\ g.ref_cnt = [p.ref_cnt EXCEPT ![b] = @ + 1]
      /\ g.block_hash = p.block_hash /\ g.cached = p.cached
      /\ g.free_block_queue = IF p.ref_cnt[b] = 0 THEN Without(p.free_block_queue, b)
                          ELSE p.free_block_queue
  BY <1>2 DEF Touched
<1>4. p.free_block_queue \in Seq(Blocks) /\ p.ref_cnt \in [Blocks -> Nat]
  BY <1>1, PoolFields
<1>5. /\ Distinct(g.free_block_queue)
      /\ Members(g.free_block_queue) = Members(p.free_block_queue) \ {b}
  <2>1. CASE p.ref_cnt[b] = 0
    BY <2>1, <1>1, <1>3, <1>4, WithoutBlock
  <2>2. CASE p.ref_cnt[b] # 0
    BY <2>2, <1>1, <1>3, <1>4
  <2> QED
    BY <2>1, <2>2
<1>6. \A c \in Blocks : g.ref_cnt[c] = IF c = b THEN p.ref_cnt[b] + 1 ELSE p.ref_cnt[c]
  BY <1>3, <1>4
<1>7. \A c \in Blocks \ {NullBlock} : c \in Members(g.free_block_queue) <=> g.ref_cnt[c] = 0
  <2> SUFFICES ASSUME NEW c \in Blocks \ {NullBlock}
               PROVE c \in Members(g.free_block_queue) <=> g.ref_cnt[c] = 0
    OBVIOUS
  <2>1. CASE c = b
    <3>1. g.ref_cnt[c] # 0
      BY <2>1, <1>6, <1>4
    <3> QED
      BY <3>1, <2>1, <1>5
  <2>2. CASE c # b
    BY <2>2, <1>5, <1>6 DEF PoolExact
  <2> QED
    BY <2>1, <2>2
<1>8. PoolExact(g)
  BY <1>3, <1>5, <1>7 DEF PoolExact
<1> QED
  BY <1>g, <1>3, <1>5, <1>8

LEMMA FreeExact ==
  ASSUME NEW p, PoolExact(p), NEW b \in Blocks \ {NullBlock}, p.ref_cnt[b] > 0
  PROVE  /\ PoolExact(free_block(p, b))
         /\ free_block(p, b).ref_cnt = [p.ref_cnt EXCEPT ![b] = @ - 1]
         /\ free_block(p, b).block_hash = p.block_hash /\ free_block(p, b).cached = p.cached
<1>g. PICK g : g = free_block(p, b)
  OBVIOUS
<1>1. p \in Pools /\ Distinct(p.free_block_queue) /\ (b \in Members(p.free_block_queue) <=> p.ref_cnt[b] = 0)
  BY DEF PoolExact
<1>2. Freed(p, g, b)
  BY <1>1, <1>g, FreeFields
<1>3. /\ g \in Pools /\ g.ref_cnt = [p.ref_cnt EXCEPT ![b] = @ - 1]
      /\ g.block_hash = p.block_hash /\ g.cached = p.cached
      /\ g.free_block_queue = IF p.ref_cnt[b] = 1 THEN Append(p.free_block_queue, b)
                          ELSE p.free_block_queue
  BY <1>2 DEF Freed
<1>4. p.free_block_queue \in Seq(Blocks) /\ p.ref_cnt \in [Blocks -> Nat]
  BY <1>1, PoolFields
<1>0. b \notin Members(p.free_block_queue)
  BY <1>1, <1>4
<1>5. /\ Distinct(g.free_block_queue)
      /\ Members(g.free_block_queue)
           = Members(p.free_block_queue) \cup IF p.ref_cnt[b] = 1 THEN {b} ELSE {}
  <2>1. CASE p.ref_cnt[b] = 1
    BY <2>1, <1>0, <1>1, <1>3, <1>4, AppendBlock
  <2>2. CASE p.ref_cnt[b] # 1
    BY <2>2, <1>1, <1>3, <1>4
  <2> QED
    BY <2>1, <2>2
<1>6. \A c \in Blocks : g.ref_cnt[c] = IF c = b THEN p.ref_cnt[b] - 1 ELSE p.ref_cnt[c]
  BY <1>3, <1>4
<1>7. \A c \in Blocks \ {NullBlock} : c \in Members(g.free_block_queue) <=> g.ref_cnt[c] = 0
  <2> SUFFICES ASSUME NEW c \in Blocks \ {NullBlock}
               PROVE c \in Members(g.free_block_queue) <=> g.ref_cnt[c] = 0
    OBVIOUS
  <2>1. CASE c = b
    <3>1. g.ref_cnt[c] = 0 <=> p.ref_cnt[b] = 1
      BY <2>1, <1>6, <1>4
    <3> QED
      BY <3>1, <2>1, <1>0, <1>5
  <2>2. CASE c # b
    BY <2>2, <1>5, <1>6 DEF PoolExact
  <2> QED
    BY <2>1, <2>2
<1>8. NullBlock \notin Members(g.free_block_queue)
  BY <1>5 DEF PoolExact
<1>9. PoolExact(g)
  BY <1>3, <1>5, <1>7, <1>8 DEF PoolExact
<1> QED
  BY <1>g, <1>3, <1>9

LEMMA NewExact ==
  ASSUME NEW p, PoolExact(p), Len(p.free_block_queue) > 0
  PROVE  /\ PoolExact(get_new_block(p))
         /\ popleft(p) \in Members(p.free_block_queue) /\ popleft(p) \in Blocks \ {NullBlock}
         /\ get_new_block(p).ref_cnt = [p.ref_cnt EXCEPT ![popleft(p)] = @ + 1]
         /\ get_new_block(p).block_hash = [p.block_hash EXCEPT ![popleft(p)] = NoHash]
         /\ Members(get_new_block(p).free_block_queue) = Members(p.free_block_queue) \ {popleft(p)}
         /\ Len(get_new_block(p).free_block_queue) = Len(p.free_block_queue) - 1
<1>g. PICK g : g = get_new_block(p)
  OBVIOUS
<1>b. PICK b : b = popleft(p)
  OBVIOUS
<1>1. p \in Pools /\ Indexed(p) /\ Distinct(p.free_block_queue)
  BY DEF PoolExact, Indexed
<1>2. b \in Members(p.free_block_queue)
  BY <1>1, <1>b, PopleftBlock
<1>3. p.free_block_queue \in Seq(Blocks) /\ p.ref_cnt \in [Blocks -> Nat]
      /\ p.block_hash \in [Blocks -> Hashes \cup {NoHash}]
  BY <1>1, PoolFields
<1>4. b \in Blocks \ {NullBlock} /\ p.ref_cnt[b] = 0
  BY <1>2, <1>3, MembersOf DEF PoolExact
<1>5. /\ g \in Pools
      /\ g.free_block_queue = Without(p.free_block_queue, b)
      /\ g.ref_cnt = [p.ref_cnt EXCEPT ![b] = @ + 1]
      /\ g.block_hash = [p.block_hash EXCEPT ![b] = NoHash]
      /\ Evicted(p, g, b)
  BY <1>1, <1>g, <1>b, NewBlockFields
<1>6. /\ Distinct(g.free_block_queue)
      /\ Members(g.free_block_queue) = Members(p.free_block_queue) \ {b}
      /\ Len(g.free_block_queue) = Len(p.free_block_queue) - 1
  BY <1>1, <1>2, <1>3, <1>5, WithoutBlock
<1>7. \A c \in Blocks : /\ g.ref_cnt[c] = IF c = b THEN p.ref_cnt[b] + 1 ELSE p.ref_cnt[c]
                        /\ g.block_hash[c] = IF c = b THEN NoHash ELSE p.block_hash[c]
  BY <1>3, <1>5
<1>8. \A c \in Blocks \ {NullBlock} : c \in Members(g.free_block_queue) <=> g.ref_cnt[c] = 0
  <2> SUFFICES ASSUME NEW c \in Blocks \ {NullBlock}
               PROVE c \in Members(g.free_block_queue) <=> g.ref_cnt[c] = 0
    OBVIOUS
  <2>1. CASE c = b
    <3>1. g.ref_cnt[c] # 0
      BY <2>1, <1>4, <1>7
    <3> QED
      BY <3>1, <2>1, <1>6
  <2>2. CASE c # b
    BY <2>2, <1>6, <1>7 DEF PoolExact
  <2> QED
    BY <2>1, <2>2
<1>9. \A h \in Hashes : \A c \in Blocks : c \in Members(g.cached[h]) <=> g.block_hash[c] = h
  <2> SUFFICES ASSUME NEW h \in Hashes, NEW c \in Blocks
               PROVE  c \in Members(g.cached[h]) <=> g.block_hash[c] = h
    OBVIOUS
  <2>1. Members(g.cached[h]) = Members(p.cached[h]) \ {b} /\ h # NoHash
    BY <1>5, PoolAssumption DEF Evicted
  <2>2. CASE c = b
    BY <2>1, <2>2, <1>7
  <2>3. CASE c # b
    BY <2>1, <2>3, <1>7 DEF PoolExact
  <2> QED
    BY <2>2, <2>3
<1>10. \A h \in Hashes : Distinct(g.cached[h])
  BY <1>5 DEF Evicted
<1>11. g.block_hash[NullBlock] = NoHash /\ (~EnableCaching => \A c \in Blocks : g.block_hash[c] = NoHash)
  <2>1. NullBlock \in Blocks
    BY PoolAssumption DEF Blocks, NullBlock
  <2> QED
    BY <2>1, <1>7 DEF PoolExact
<1>12. NullBlock \notin Members(g.free_block_queue)
  BY <1>6 DEF PoolExact
<1>13. PoolExact(g)
  BY <1>5, <1>6, <1>8, <1>9, <1>10, <1>11, <1>12 DEF PoolExact
<1> QED
  BY <1>g, <1>b, <1>13, <1>2, <1>4, <1>5, <1>6

LEMMA CacheExact ==
  ASSUME NEW p, PoolExact(p), EnableCaching, NEW b \in Blocks \ {NullBlock}, NEW h \in Hashes,
         p.block_hash[b] = NoHash
  PROVE  /\ PoolExact(cache_full_block(p, b, h))
         /\ cache_full_block(p, b, h).ref_cnt = p.ref_cnt /\ cache_full_block(p, b, h).free_block_queue = p.free_block_queue
         /\ cache_full_block(p, b, h).block_hash = [p.block_hash EXCEPT ![b] = h]
<1>g. PICK g : g = cache_full_block(p, b, h)
  OBVIOUS
<1>1. p \in Pools
  BY DEF PoolExact
<1>2. Stored(p, g, b, h)
  BY <1>1, <1>g, CacheFields
<1>3. /\ g \in Pools /\ g.free_block_queue = p.free_block_queue /\ g.ref_cnt = p.ref_cnt
      /\ g.block_hash = [p.block_hash EXCEPT ![b] = h]
      /\ g.cached = [p.cached EXCEPT ![h] = Append(@, b)]
  BY <1>2 DEF Stored
<1>4. p.cached \in [Hashes -> Seq(Blocks)] /\ p.block_hash \in [Blocks -> Hashes \cup {NoHash}]
  BY <1>1, PoolFields
<1>5. b \notin Members(p.cached[h]) /\ Distinct(p.cached[h])
  BY PoolAssumption DEF PoolExact
<1>6. p.cached[h] \in Seq(Blocks)
  BY <1>4
<1>7. Distinct(Append(p.cached[h], b)) /\ Members(Append(p.cached[h], b)) = Members(p.cached[h]) \cup {b}
  BY <1>5, <1>6, AppendBlock
<1>8. ASSUME NEW k \in Hashes
      PROVE  Distinct(g.cached[k]) /\ \A c \in Blocks : c \in Members(g.cached[k]) <=> g.block_hash[c] = k
  <2>1. CASE k = h
    <3>1. g.cached[k] = Append(p.cached[h], b)
      BY <2>1, <1>3, <1>4
    <3>2. \A c \in Blocks : g.block_hash[c] = k <=> c = b \/ p.block_hash[c] = k
      BY <2>1, <1>3, <1>4
    <3> QED
      BY <3>1, <3>2, <2>1, <1>7 DEF PoolExact
  <2>2. CASE k # h
    <3>1. g.cached[k] = p.cached[k]
      BY <2>2, <1>3, <1>4
    <3>2. \A c \in Blocks : g.block_hash[c] = k <=> p.block_hash[c] = k
      BY <2>2, <1>3, <1>4, PoolAssumption
    <3> QED
      BY <3>1, <3>2 DEF PoolExact
  <2> QED
    BY <2>1, <2>2
<1>9. g.block_hash[NullBlock] = NoHash
  <2>1. NullBlock \in Blocks
    BY PoolAssumption DEF Blocks, NullBlock
  <2> QED
    BY <2>1, <1>3, <1>4 DEF PoolExact
<1>10. PoolExact(g)
  BY <1>3, <1>8, <1>9 DEF PoolExact
<1> QED
  BY <1>g, <1>3, <1>10

\* The first m elements of a sequence.
FirstOf(q, m) == {q[i] : i \in 1..m}

\* One more block is counted.
LEMMA CountsStep ==
  ASSUME NEW p, NEW c, NEW d, NEW S, NEW b \in Blocks, NEW n \in Int, Counts(p, c, S, n),
         p.ref_cnt \in [Blocks -> Nat], c.ref_cnt \in [Blocks -> Nat], b \notin S,
         d.ref_cnt = [c.ref_cnt EXCEPT ![b] = @ + n]
  PROVE  Counts(p, d, S \cup {b}, n)
<1> SUFFICES ASSUME NEW x \in Blocks
             PROVE  d.ref_cnt[x] = p.ref_cnt[x] + IF x \in S \cup {b} THEN n ELSE 0
  BY DEF Counts
<1>1. PICK i, j, k : i = p.ref_cnt[x] /\ j = c.ref_cnt[x] /\ k = d.ref_cnt[x]
  OBVIOUS
<1>2. i \in Nat /\ j \in Nat /\ j = i + IF x \in S THEN n ELSE 0
  BY <1>1 DEF Counts
<1>3. k = IF x = b THEN j + n ELSE j
  BY <1>1
<1>4. k = i + IF x \in S \cup {b} THEN n ELSE 0
  <2>1. CASE x = b
    BY <2>1, <1>2, <1>3
  <2>2. CASE x # b
    BY <2>2, <1>2, <1>3
  <2> QED
    BY <2>1, <2>2
<1> QED
  BY <1>1, <1>4

\* The first elements, one by one, when they are distinct.
LEMMA FirstStep ==
  ASSUME NEW S, NEW q \in Seq(S), Distinct(q)
  PROVE  /\ FirstOf(q, 0) = {} /\ FirstOf(q, Len(q)) = Members(q)
         /\ \A m \in 1..Len(q) : /\ FirstOf(q, m) = FirstOf(q, m - 1) \cup {q[m]}
                                 /\ q[m] \notin FirstOf(q, m - 1)
                                 /\ q[m] \in S
<1>1. Len(q) \in Nat /\ DOMAIN q = 1..Len(q) /\ \A i \in 1..Len(q) : q[i] \in S
  BY MembersOf
<1>2. FirstOf(q, 0) = {} /\ FirstOf(q, Len(q)) = Members(q)
  BY <1>1 DEF FirstOf, Members
<1>3. ASSUME NEW m \in 1..Len(q)
      PROVE  FirstOf(q, m) = FirstOf(q, m - 1) \cup {q[m]} /\ q[m] \notin FirstOf(q, m - 1)
  <2>1. \A i : i \in 1..m <=> i \in 1..(m - 1) \/ i = m
    BY <1>1
  <2>2. \A i \in 1..(m - 1) : i \in DOMAIN q /\ i # m
    BY <1>1
  <2>3. m \in DOMAIN q
    BY <1>1
  <2>4. \A i \in 1..(m - 1) : q[i] # q[m]
    BY <2>2, <2>3 DEF Distinct
  <2> QED
    BY <2>1, <2>4 DEF FirstOf
<1> QED
  BY <1>1, <1>2, <1>3

\* touch of distinct blocks: each gets a reference and leaves the queue.
LEMMA TouchLoop ==
  ASSUME NEW p, PoolExact(p), NEW q \in Seq(Blocks \ {NullBlock}), Distinct(q)
  PROVE  /\ PoolExact(touch_blocks(p, q))
         /\ Counts(p, touch_blocks(p, q), Members(q), 1)
         /\ touch_blocks(p, q).block_hash = p.block_hash
         /\ Members(touch_blocks(p, q).free_block_queue) = Members(p.free_block_queue) \ Members(q)
<1>g. PICK g : g = touch_blocks(p, q)
  OBVIOUS
<1>1. Len(q) \in Nat /\ DOMAIN q = 1..Len(q)
  BY MembersOf
<1>h. PICK h : /\ h[0] = p
               /\ \A m \in 1..Len(q) : h[m] = touch(h[m - 1], q[m])
               /\ touch_blocks(p, q) = h[Len(q)]
  BY TouchIterates
<1>2. /\ h[0] = p /\ (\A m \in 1..Len(q) : h[m] = touch(h[m - 1], q[m]))
      /\ g = h[Len(q)]
  BY <1>h, <1>g
<1> DEFINE After(m) == /\ PoolExact(h[m])
                       /\ Counts(p, h[m], FirstOf(q, m), 1)
                       /\ h[m].block_hash = p.block_hash
                       /\ Members(h[m].free_block_queue)
                            = Members(p.free_block_queue) \ FirstOf(q, m)
           T == {m \in 0..Len(q) : After(m)}
<1> HIDE DEF After
<1>3. 0 \in T
  <2>1. FirstOf(q, 0) = {}
    BY FirstStep
  <2>2. p.ref_cnt \in [Blocks -> Nat]
    BY PoolFields DEF PoolExact
  <2>3. Counts(p, p, {}, 1)
    BY <2>2 DEF Counts
  <2>4. After(0)
    BY <1>2, <2>1, <2>3 DEF After
  <2> QED
    BY <2>4, <1>1
<1>4. ASSUME NEW m \in 0..(Len(q) - 1), m \in T PROVE m + 1 \in T
  <2>0. PICK k : k = m + 1
    OBVIOUS
  <2>1. k \in 1..Len(q) /\ k - 1 = m /\ k \in 0..Len(q)
    BY <1>1, <2>0
  <2>2. After(m)
    BY <1>4
  <2>3. PICK b : b = q[k]
    OBVIOUS
  <2>4. /\ b \in Blocks \ {NullBlock} /\ FirstOf(q, k) = FirstOf(q, m) \cup {b}
        /\ b \notin FirstOf(q, m)
    BY <2>1, <2>3, FirstStep
  <2>5. h[k] = touch(h[m], b)
    BY <1>2, <2>1, <2>3
  <2>6. /\ PoolExact(h[k])
        /\ h[k].ref_cnt = [h[m].ref_cnt EXCEPT ![b] = @ + 1]
        /\ h[k].block_hash = h[m].block_hash
        /\ Members(h[k].free_block_queue) = Members(h[m].free_block_queue) \ {b}
    <3>0. PICK c, d : c = h[m] /\ d = h[k]
      OBVIOUS
    <3>1. PoolExact(c) /\ d = touch(c, b) /\ b \in Blocks \ {NullBlock}
      BY <3>0, <2>2, <2>4,  <2>5 DEF After
    <3>2. /\ PoolExact(d)
          /\ d.ref_cnt = [c.ref_cnt EXCEPT ![b] = @ + 1]
          /\ d.block_hash = c.block_hash
          /\ Members(d.free_block_queue) = Members(c.free_block_queue) \ {b}
      BY <3>1, TouchExact
    <3> QED
      BY <3>0, <3>2
  <2>7. p.ref_cnt \in [Blocks -> Nat] /\ h[m].ref_cnt \in [Blocks -> Nat]
    BY <2>2, PoolFields DEF After, PoolExact
  <2>9. Members(h[k].free_block_queue) = Members(p.free_block_queue) \ FirstOf(q, k)
    BY <2>2, <2>4, <2>6 DEF After
  <2>10. Counts(p, h[k], FirstOf(q, k), 1)
    <3>0. PICK c, d, S : c = h[m] /\ d = h[k] /\ S = FirstOf(q, m)
      OBVIOUS
    <3>1. /\ Counts(p, c, S, 1) /\ c.ref_cnt \in [Blocks -> Nat] /\ b \notin S /\ b \in Blocks
          /\ FirstOf(q, k) = S \cup {b}
      BY <3>0, <2>2, <2>4, <2>7 DEF After
    <3>2. d.ref_cnt = [c.ref_cnt EXCEPT ![b] = @ + 1]
      BY <3>0, <3>1, <2>6
    <3>3. 1 \in Int
      OBVIOUS
    <3>4. Counts(p, d, S \cup {b}, 1)
      BY <3>1, <3>2, <3>3, <2>7, CountsStep
    <3> QED
      BY <3>0, <3>1, <3>4
  <2>11. After(k)
    BY <2>2, <2>6, <2>9, <2>10 DEF After
  <2> QED
    BY <2>0, <2>1, <2>11
<1>5. After(Len(q))
  <2> HIDE DEF T
  <2>1. \A m \in 0..Len(q) : m \in T
    BY <1>1, <1>3, <1>4, CountUp
  <2>2. Len(q) \in T
    BY <2>1, <1>1
  <2> QED
    BY <2>2 DEF T
<1>6. FirstOf(q, Len(q)) = Members(q)
  BY FirstStep
<1> QED
  BY <1>g, <1>2, <1>5, <1>6 DEF After

\* free_blocks of distinct blocks with references: each has one less.
LEMMA FreeLoop ==
  ASSUME NEW p, PoolExact(p), NEW q \in Seq(Blocks \ {NullBlock}), Distinct(q),
         \A b \in Members(q) : p.ref_cnt[b] > 0
  PROVE  /\ PoolExact(free_blocks(p, q))
         /\ Counts(p, free_blocks(p, q), Members(q), -1)
         /\ free_blocks(p, q).block_hash = p.block_hash
<1>g. PICK g : g = free_blocks(p, q)
  OBVIOUS
<1>1. Len(q) \in Nat /\ DOMAIN q = 1..Len(q) /\ \A i \in 1..Len(q) : q[i] \in Members(q)
  BY MembersOf
<1>h. PICK h : /\ h[0] = p
               /\ \A m \in 1..Len(q) : h[m] = free_block(h[m - 1], q[m])
               /\ free_blocks(p, q) = h[Len(q)]
  BY FreeIterates
<1>2. /\ h[0] = p /\ (\A m \in 1..Len(q) : h[m] = free_block(h[m - 1], q[m]))
      /\ g = h[Len(q)]
  BY <1>h, <1>g
<1>r. p.ref_cnt \in [Blocks -> Nat]
  BY PoolFields DEF PoolExact
<1> DEFINE After(m) == /\ PoolExact(h[m])
                       /\ Counts(p, h[m], FirstOf(q, m), -1)
                       /\ h[m].block_hash = p.block_hash
           T == {m \in 0..Len(q) : After(m)}
<1> HIDE DEF After
<1>3. 0 \in T
  <2>1. FirstOf(q, 0) = {}
    BY FirstStep
  <2>3. Counts(p, p, {}, -1)
    BY <1>r DEF Counts
  <2>4. After(0)
    BY <1>2, <2>1, <2>3 DEF After
  <2> QED
    BY <2>4, <1>1
<1>4. ASSUME NEW m \in 0..(Len(q) - 1), m \in T PROVE m + 1 \in T
  <2>0. PICK k : k = m + 1
    OBVIOUS
  <2>1. k \in 1..Len(q) /\ k - 1 = m /\ k \in 0..Len(q)
    BY <1>1, <2>0
  <2>2. After(m)
    BY <1>4
  <2>3. PICK b : b = q[k]
    OBVIOUS
  <2>4. /\ b \in Blocks \ {NullBlock} /\ FirstOf(q, k) = FirstOf(q, m) \cup {b}
        /\ b \notin FirstOf(q, m) /\ b \in Members(q)
    BY <2>1, <2>3, <1>1, FirstStep
  <2>5. h[k] = free_block(h[m], b)
    BY <1>2, <2>1, <2>3
  <2>6. h[m].ref_cnt[b] > 0
    BY <2>2, <2>4, <1>r DEF After, Counts
  <2>7. /\ PoolExact(h[k])
        /\ h[k].ref_cnt = [h[m].ref_cnt EXCEPT ![b] = @ - 1]
        /\ h[k].block_hash = h[m].block_hash
    <3>0. PICK c, d : c = h[m] /\ d = h[k]
      OBVIOUS
    <3>1. PoolExact(c) /\ d = free_block(c, b) /\ b \in Blocks \ {NullBlock} /\ c.ref_cnt[b] > 0
      BY <3>0, <2>2, <2>4, <2>5, <2>6 DEF After
    <3>2. /\ PoolExact(d)
          /\ d.ref_cnt = [c.ref_cnt EXCEPT ![b] = @ - 1]
          /\ d.block_hash = c.block_hash
      BY <3>1, FreeExact
    <3> QED
      BY <3>0, <3>2
  <2>8. h[m].ref_cnt \in [Blocks -> Nat]
    BY <2>2, PoolFields DEF After, PoolExact
  <2>10. Counts(p, h[k], FirstOf(q, k), -1)
    <3>0. PICK c, d, S : c = h[m] /\ d = h[k] /\ S = FirstOf(q, m)
      OBVIOUS
    <3>1. /\ Counts(p, c, S, -1) /\ c.ref_cnt \in [Blocks -> Nat] /\ b \notin S /\ b \in Blocks
          /\ FirstOf(q, k) = S \cup {b}
      BY <3>0, <2>2, <2>4, <2>8 DEF After
    <3>2. d.ref_cnt = [c.ref_cnt EXCEPT ![b] = @ + (-1)]
      BY <3>0, <3>1, <2>7
    <3>3. -1 \in Int
      OBVIOUS
    <3>4. Counts(p, d, S \cup {b}, -1)
      BY <3>1, <3>2, <3>3, <1>r, CountsStep
    <3> QED
      BY <3>0, <3>1, <3>4
  <2>11. After(k)
    BY <2>2, <2>7, <2>10 DEF After
  <2> QED
    BY <2>0, <2>1, <2>11
<1>5. After(Len(q))
  <2> HIDE DEF T
  <2>1. \A m \in 0..Len(q) : m \in T
    BY <1>1, <1>3, <1>4, CountUp
  <2>2. Len(q) \in T
    BY <2>1, <1>1
  <2> QED
    BY <2>2 DEF T
<1>6. FirstOf(q, Len(q)) = Members(q)
  BY FirstStep
<1> QED
  BY <1>g, <1>2, <1>5, <1>6 DEF After

\* get_new_blocks takes distinct blocks from the queue; they have one reference and
\* no hash.
LEMMA NewLoop ==
  ASSUME NEW p, PoolExact(p), NEW n \in Nat, n <= Len(p.free_block_queue)
  PROVE  /\ PoolExact(get_new_blocks(p, n).pool)
         /\ get_new_blocks(p, n).blocks \in Seq(Blocks \ {NullBlock}) /\ Distinct(get_new_blocks(p, n).blocks) /\ Len(get_new_blocks(p, n).blocks) = n
         /\ Members(get_new_blocks(p, n).blocks) \subseteq Members(p.free_block_queue)
         /\ Counts(p, get_new_blocks(p, n).pool, Members(get_new_blocks(p, n).blocks), 1)
         /\ get_new_blocks(p, n).pool.block_hash
              = [b \in Blocks |-> IF b \in Members(get_new_blocks(p, n).blocks) THEN NoHash ELSE p.block_hash[b]]
<1>g. PICK a : a = get_new_blocks(p, n)
  OBVIOUS
<1>h. PICK h : /\ h[0] = [pool |-> p, blocks |-> << >>]
               /\ \A m \in 1..n : h[m] = OneMore(h[m - 1])
               /\ get_new_blocks(p, n) = h[n]
  BY NewIterates
<1>1. /\ h[0] = [pool |-> p, blocks |-> << >>]
      /\ \A m \in 1..n : h[m] = OneMore(h[m - 1])
      /\ a = h[n]
  BY <1>g, <1>h
<1>2. /\ p.ref_cnt \in [Blocks -> Nat] /\ p.block_hash \in [Blocks -> Hashes \cup {NoHash}]
      /\ p.free_block_queue \in Seq(Blocks) /\ Len(p.free_block_queue) \in Nat
  BY PoolFields, MembersOf DEF PoolExact
<1> DEFINE After(m) ==
             /\ PoolExact(h[m].pool)
             /\ h[m].blocks \in Seq(Blocks \ {NullBlock})
             /\ Distinct(h[m].blocks) /\ Len(h[m].blocks) = m
             /\ Len(h[m].pool.free_block_queue) = Len(p.free_block_queue) - m
             /\ Members(h[m].blocks) \subseteq Members(p.free_block_queue)
             /\ Members(h[m].pool.free_block_queue)
                  = Members(p.free_block_queue) \ Members(h[m].blocks)
             /\ Counts(p, h[m].pool, Members(h[m].blocks), 1)
             /\ h[m].pool.block_hash
                  = [b \in Blocks |-> IF b \in Members(h[m].blocks) THEN NoHash ELSE p.block_hash[b]]
           T == {m \in 0..n : After(m)}
<1> HIDE DEF After
<1>3. 0 \in T
  <2>0. PICK E : E = << >>
    OBVIOUS
  <2>1. E \in Seq(Blocks \ {NullBlock}) /\ Distinct(E) /\ Len(E) = 0 /\ Members(E) = {}
    BY <2>0 DEF Distinct, Members
  <2>2. h[0].pool = p /\ h[0].blocks = E
    BY <1>1, <2>0
  <2>3. Counts(p, p, {}, 1)
    BY <1>2 DEF Counts
  <2>4. p.block_hash = [b \in Blocks |-> IF b \in {} THEN NoHash ELSE p.block_hash[b]]
    BY <1>2
  <2>5. Len(p.free_block_queue) = Len(p.free_block_queue) - 0
    BY <1>2
  <2>6. After(0)
    BY <2>1, <2>2, <2>3, <2>4, <2>5 DEF After
  <2> QED
    BY <2>6
<1>4. ASSUME NEW m \in 0..(n - 1), m \in T PROVE m + 1 \in T
  <2>0. PICK k : k = m + 1
    OBVIOUS
  <2>1. k \in 1..n /\ k - 1 = m /\ k \in 0..n /\ k = m + 1
    BY <2>0
  <2>2. After(m)
    BY <1>4
  <2>3. PICK c, l, b, d : c = h[m].pool /\ l = h[m].blocks /\ b = popleft(c) /\ d = h[k].pool
    OBVIOUS
  <2>4. h[k] = OneMore(h[m])
    BY <1>1, <2>1
  <2>5. d = get_new_block(c) /\ h[k].blocks = Append(l, b)
    BY <2>3, <2>4 DEF OneMore
  <2>6. PoolExact(c) /\ Len(c.free_block_queue) > 0
    BY <2>1, <2>2, <2>3, <1>2 DEF After
  <2>7. /\ PoolExact(d)
        /\ b \in Members(c.free_block_queue) /\ b \in Blocks \ {NullBlock}
        /\ d.ref_cnt = [c.ref_cnt EXCEPT ![b] = @ + 1]
        /\ d.block_hash = [c.block_hash EXCEPT ![b] = NoHash]
        /\ Members(d.free_block_queue) = Members(c.free_block_queue) \ {b}
        /\ Len(d.free_block_queue) = Len(c.free_block_queue) - 1
    <3>1. /\ PoolExact(get_new_block(c))
          /\ popleft(c) \in Members(c.free_block_queue) /\ popleft(c) \in Blocks \ {NullBlock}
          /\ get_new_block(c).ref_cnt = [c.ref_cnt EXCEPT ![popleft(c)] = @ + 1]
          /\ get_new_block(c).block_hash = [c.block_hash EXCEPT ![popleft(c)] = NoHash]
          /\ Members(get_new_block(c).free_block_queue)
               = Members(c.free_block_queue) \ {popleft(c)}
          /\ Len(get_new_block(c).free_block_queue) = Len(c.free_block_queue) - 1
      BY <2>6, NewExact
    <3> QED
      BY <2>3, <2>5, <3>1
  <2>8. /\ l \in Seq(Blocks \ {NullBlock}) /\ Distinct(l) /\ Len(l) = m
        /\ Len(c.free_block_queue) = Len(p.free_block_queue) - m
        /\ Members(l) \subseteq Members(p.free_block_queue)
        /\ Members(c.free_block_queue) = Members(p.free_block_queue) \ Members(l)
        /\ Counts(p, c, Members(l), 1)
        /\ c.block_hash = [x \in Blocks |-> IF x \in Members(l) THEN NoHash ELSE p.block_hash[x]]
    BY <2>2, <2>3 DEF After
  <2>9. b \notin Members(l) /\ b \in Members(p.free_block_queue)
    BY <2>7, <2>8
  <2>10. PICK e : e = h[k].blocks
    OBVIOUS
  <2>11. /\ e \in Seq(Blocks \ {NullBlock}) /\ Len(e) = m + 1 /\ Distinct(e)
         /\ Members(e) = Members(l) \cup {b}
    BY <2>5, <2>7, <2>8, <2>9, <2>10, AppendBlock
  <2>12. Len(d.free_block_queue) = Len(p.free_block_queue) - k
    BY <2>1, <2>7, <2>8, <1>2
  <2>13. Counts(p, d, Members(e), 1)
    <3>0. c.ref_cnt \in [Blocks -> Nat]
      BY <2>6, PoolFields DEF PoolExact
    <3>1. \A x \in Blocks : d.ref_cnt[x] = c.ref_cnt[x] + IF x = b THEN 1 ELSE 0
      BY <2>7, <3>0
    <3> QED
      <4> SUFFICES ASSUME NEW x \in Blocks
                   PROVE  d.ref_cnt[x] = p.ref_cnt[x] + IF x \in Members(e) THEN 1 ELSE 0
        BY DEF Counts
      <4>1. PICK s : s = p.ref_cnt[x]
        OBVIOUS
      <4>2. c.ref_cnt[x] = s + IF x \in Members(l) THEN 1 ELSE 0
        BY <2>8, <4>1 DEF Counts
      <4>3. s \in Nat
        BY <1>2, <4>1
      <4>4. CASE x = b
        BY <4>1, <4>2, <4>3, <4>4, <3>1, <2>9, <2>11
      <4>5. CASE x # b
        <5>1. x \in Members(e) <=> x \in Members(l)
          BY <4>5, <2>11
        <5> QED
          BY <4>1, <4>2, <4>3, <4>5, <5>1, <3>1
      <4> QED
        BY <4>4, <4>5
  <2>14. d.block_hash = [x \in Blocks |-> IF x \in Members(e) THEN NoHash ELSE p.block_hash[x]]
    BY <2>7, <2>8, <2>11, <1>2
  <2>15. Members(d.free_block_queue) = Members(p.free_block_queue) \ Members(e)
    BY <2>7, <2>8, <2>11
  <2>16. Members(e) \subseteq Members(p.free_block_queue)
    BY <2>8, <2>9, <2>11
  <2>17. After(k)
    <3>1. h[k].pool = d /\ h[k].blocks = e
      BY <2>3, <2>10
    <3>2. PoolExact(d) /\ Len(e) = k
      BY <2>1, <2>7, <2>11
    <3> QED
      BY <3>1, <3>2, <2>11, <2>12, <2>13, <2>14, <2>15, <2>16 DEF After
  <2> QED
    BY <2>1, <2>17
<1>5. After(n)
  <2> HIDE DEF T
  <2>1. \A m \in 0..n : m \in T
    BY <1>3, <1>4, CountUp
  <2>2. n \in T
    BY <2>1
  <2> QED
    BY <2>2 DEF T
<1> QED
  BY <1>g, <1>1, <1>5 DEF After

\* The n blocks after the first c of a list have no hash yet, and can get one.
Hashable(p, r, l, c, n) ==
  \A i \in 1..n : p.block_hash[l[c + i]] = NoHash /\ block_hash_of(r, c + i) \in Hashes

\* cache_full_blocks gives its hash to each of distinct blocks without one.
\* The n numbers after c.
Numbered(q, c, n) == q \in Seq(Int) /\ Len(q) = n /\ \A i \in 1..n : q[i] = c + i
\* Pool d is pool p with the hashes of the n blocks of list l after the first c.
NowHashed(p, d, r, l, c, n) ==
  /\ PoolExact(d) /\ d.ref_cnt = p.ref_cnt /\ d.free_block_queue = p.free_block_queue
  /\ \A i \in 1..n : d.block_hash[l[c + i]] = block_hash_of(r, c + i)
  /\ \A b \in Blocks : (\A i \in 1..n : b # l[c + i]) => d.block_hash[b] = p.block_hash[b]

LEMMA CacheLoop ==
  ASSUME NEW p, PoolExact(p), EnableCaching, NEW r, NEW l \in Seq(Blocks \ {NullBlock}), Distinct(l),
         NEW c \in Nat, NEW n \in Nat, c + n <= Len(l),
         NEW q, Numbered(q, c, n), Hashable(p, r, l, c, n)
  PROVE  NowHashed(p, cache_full_blocks(p, r, l, q), r, l, c, n)
<1>q. q \in Seq(Int) /\ Len(q) = n /\ \A i \in 1..n : q[i] = c + i
  BY DEF Numbered
<1>g. PICK g : g = cache_full_blocks(p, r, l, q)
  OBVIOUS
<1>1. Len(l) \in Nat /\ DOMAIN l = 1..Len(l) /\ \A i \in 1..Len(l) : l[i] \in Blocks \ {NullBlock}
  BY MembersOf
<1>2. \A i \in 1..n : c + i \in 1..Len(l)
  BY <1>1
<1>h. PICK h : CacheRun(h, p, r, l, q)
  BY <1>q, CacheIterates
<1>3. /\ h[0] = p
      /\ \A m \in 1..n : h[m] = CacheNth(h[m - 1], r, l, c + m)
      /\ g = h[n]
  BY <1>h, <1>g, <1>q DEF CacheRun
<1> DEFINE After(m) ==
             /\ PoolExact(h[m])
             /\ h[m].ref_cnt = p.ref_cnt /\ h[m].free_block_queue = p.free_block_queue
             /\ \A i \in 1..m : h[m].block_hash[l[c + i]] = block_hash_of(r, c + i)
             /\ \A b \in Blocks : (\A i \in 1..m : b # l[c + i]) =>
                  h[m].block_hash[b] = p.block_hash[b]
           T == {m \in 0..n : After(m)}
<1> HIDE DEF After
<1>4. 0 \in T
  <2>1. 1..0 = {}
    OBVIOUS
  <2>2. After(0)
    BY <1>3, <2>1 DEF After
  <2> QED
    BY <2>2
<1>5. ASSUME NEW m \in 0..(n - 1), m \in T PROVE m + 1 \in T
  <2>0. PICK k : k = m + 1
    OBVIOUS
  <2>1. k \in 1..n /\ k - 1 = m /\ k \in 0..n /\ k = m + 1
    BY <2>0
  <2>2. After(m)
    BY <1>5
  <2>5. PICK b, v : b = l[c + k] /\ v = block_hash_of(r, c + k)
    OBVIOUS
  <2>6. h[k] = cache_full_block(h[m], b, v)
    BY <1>3, <2>1, <2>5 DEF CacheNth
  <2>7. b \in Blocks \ {NullBlock} /\ v \in Hashes /\ p.block_hash[b] = NoHash
    BY <2>1, <2>5, <1>1, <1>2 DEF Hashable
  <2>8. \A i \in 1..m : c + i \in 1..Len(l) /\ c + k \in 1..Len(l) /\ c + i # c + k
    BY <2>1, <1>1, <1>2
  <2>9. \A i \in 1..m : l[c + i] # b
    BY <2>5, <2>8, <1>1 DEF Distinct
  <2>10. h[m].block_hash[b] = NoHash
    BY <2>2, <2>7, <2>9 DEF After
  <2>11. /\ PoolExact(h[k])
         /\ h[k].ref_cnt = h[m].ref_cnt /\ h[k].free_block_queue = h[m].free_block_queue
         /\ h[k].block_hash = [h[m].block_hash EXCEPT ![b] = v]
    <3>0. PICK e, d : e = h[m] /\ d = h[k]
      OBVIOUS
    <3>1. /\ PoolExact(e) /\ d = cache_full_block(e, b, v) /\ b \in Blocks \ {NullBlock}
          /\ v \in Hashes /\ e.block_hash[b] = NoHash
      BY <3>0, <2>2, <2>6, <2>7, <2>10 DEF After
    <3>2. /\ PoolExact(d)
          /\ d.ref_cnt = e.ref_cnt /\ d.free_block_queue = e.free_block_queue
          /\ d.block_hash = [e.block_hash EXCEPT ![b] = v]
      BY <3>1, CacheExact
    <3> QED
      BY <3>0, <3>2
  <2>12. h[m].block_hash \in [Blocks -> Hashes \cup {NoHash}]
    BY <2>2, PoolFields DEF After, PoolExact
  <2>13. \A x \in Blocks : h[k].block_hash[x] = IF x = b THEN v ELSE h[m].block_hash[x]
    BY <2>11, <2>12
  <2>14. \A i : i \in 1..k <=> i \in 1..m \/ i = k
    BY <2>1
  <2>15. \A i \in 1..m : l[c + i] \in Blocks
    BY <2>8, <1>1
  <2>16. \A i \in 1..k : h[k].block_hash[l[c + i]] = block_hash_of(r, c + i)
    BY <2>2, <2>5, <2>7, <2>9, <2>13, <2>14, <2>15 DEF After
  <2>17. ASSUME NEW x \in Blocks, \A i \in 1..k : x # l[c + i]
         PROVE  h[k].block_hash[x] = p.block_hash[x]
    <3>1. x # b /\ \A i \in 1..m : x # l[c + i]
      BY <2>5, <2>14, <2>17
    <3> QED
      BY <3>1, <2>2, <2>13 DEF After
  <2>18. After(k)
    BY <2>2, <2>11, <2>16, <2>17 DEF After
  <2> QED
    BY <2>1, <2>18
<1>6. After(n)
  <2> HIDE DEF T
  <2>1. \A m \in 0..n : m \in T
    BY <1>4, <1>5, CountUp
  <2>2. n \in T
    BY <2>1
  <2> QED
    BY <2>2 DEF T
<1>7. NowHashed(p, g, r, l, c, n)
  BY <1>3, <1>6 DEF After, NowHashed
<1> QED
  BY <1>g, <1>7

-----------------------------------------------------------------------------
\* A manager between two calls.  The blocks of a list are distinct; the first
\* num_cached_block of them carry the hashes of the request's tokens, the others
\* none; a block without a hash has at most one holder; and the reference count
\* of a block is the number of its holders.
ManagerFields == {"pool", "req_to_blocks", "num_cached_block", "block_hashes"}
ManagerShape(k) ==
  /\ DOMAIN k = ManagerFields
  /\ k.req_to_blocks \in [Req -> Seq(Blocks \ {NullBlock})]
  /\ k.num_cached_block \in [Req -> Nat]
  /\ k.block_hashes \in [Req -> Nat]
HoldersIn(lists, b) == {r \in Req : b \in Members(lists[r])}
HashAt(r, i, cached) == IF i <= cached THEN block_hash_of(r, i) ELSE NoHash
ListOK(p, r, list, cached) ==
  /\ Distinct(list)
  /\ cached <= Len(list)
  /\ cached * BlockSize <= Len(Tokens[r])
  /\ \A i \in 1..Len(list) : p.block_hash[list[i]] = HashAt(r, i, cached)
RefsExact(p, lists) ==
  \A b \in Blocks \ {NullBlock} : p.ref_cnt[b] = Cardinality(HoldersIn(lists, b))
HeldAlone(p, lists) ==
  \A b \in Blocks \ {NullBlock} : p.block_hash[b] = NoHash =>
    \A q, r \in Req : b \in Members(lists[q]) /\ b \in Members(lists[r]) => q = r
ManagerOK(k) ==
  /\ ManagerShape(k)
  /\ PoolExact(k.pool)
  /\ \A r \in Req : ListOK(k.pool, r, k.req_to_blocks[r], k.num_cached_block[r])
  /\ RefsExact(k.pool, k.req_to_blocks)
  /\ HeldAlone(k.pool, k.req_to_blocks)

\* The last blocks first: the same blocks.
LEMMA FreeOrder ==
  ASSUME NEW S, NEW q \in Seq(S), Distinct(q)
  PROVE  free_order(q) \in Seq(S) /\ Distinct(free_order(q)) /\ Members(free_order(q)) = Members(q)
<1>n. PICK n : n = Len(q)
  OBVIOUS
<1>v. PICK v : v = free_order(q)
  OBVIOUS
<1>1. n \in Nat /\ DOMAIN q = 1..n /\ \A i \in 1..n : q[i] \in S
  BY <1>n
<1>2. v = [i \in 1..n |-> q[(n - i) + 1]]
  BY <1>n, <1>v DEF free_order, Reverse
<1>3. \A i \in 1..n : (n - i) + 1 \in 1..n
  BY <1>1
<1>4. v \in [1..n -> S] /\ DOMAIN v = 1..n /\ \A i \in 1..n : v[i] = q[(n - i) + 1]
  BY <1>1, <1>2, <1>3
<1>5. v \in Seq(S)
  BY <1>1, <1>4, IsASeq
<1>6. Distinct(v)
  <2> SUFFICES ASSUME NEW i \in 1..n, NEW j \in 1..n, i # j PROVE v[i] # v[j]
    BY <1>4 DEF Distinct
  <2>1. (n - i) + 1 # (n - j) + 1
    BY <1>1
  <2> QED
    BY <2>1, <1>1, <1>3, <1>4 DEF Distinct
<1>7. ASSUME NEW x PROVE x \in Members(v) <=> x \in Members(q)
  <2>1. ASSUME NEW i \in 1..n, x = q[i] PROVE \E j \in 1..n : x = v[j]
    <3>1. (n - i) + 1 \in 1..n /\ (n - ((n - i) + 1)) + 1 = i
      BY <1>1
    <3>2. v[(n - i) + 1] = q[i]
      BY <3>1, <1>4
    <3> QED
      BY <3>1, <3>2, <2>1
  <2> QED
    BY <2>1, <1>1, <1>3, <1>4 DEF Members
<1> QED
  BY <1>5, <1>6, <1>7, <1>v

\* One holder less, or one more.
LEMMA HolderLeaves ==
  ASSUME NEW H \in SUBSET Req, NEW r \in H
  PROVE  Cardinality(H \ {r}) = Cardinality(H) - 1 /\ Cardinality(H) \in Nat /\ Cardinality(H) > 0
<1>1. IsFiniteSet(H)
  BY ManagerAssumption, FS_Subset
<1>2. Cardinality(H) \in Nat /\ Cardinality(H \ {r}) = Cardinality(H) - 1 /\ IsFiniteSet(H \ {r})
  BY <1>1, FS_RemoveElement, FS_CardinalityType
<1>3. Cardinality(H \ {r}) \in Nat
  BY <1>2, FS_CardinalityType
<1> QED
  BY <1>2, <1>3
LEMMA HolderJoins ==
  ASSUME NEW H \in SUBSET Req, NEW r \in Req \ H
  PROVE  Cardinality(H \cup {r}) = Cardinality(H) + 1 /\ Cardinality(H) \in Nat
<1>1. IsFiniteSet(H)
  BY ManagerAssumption, FS_Subset
<1> QED
  BY <1>1, FS_AddElement, FS_CardinalityType
LEMMA NoHolders ==
  ASSUME NEW H \in SUBSET Req
  PROVE  Cardinality(H) = 0 <=> H = {}
  BY ManagerAssumption, FS_Subset, FS_EmptySet

\* free: the blocks of the request lose a holder.
LEMMA FreeOK ==
  ASSUME NEW k, ManagerOK(k), NEW r \in Req
  PROVE  /\ ManagerOK(free(k, r))
         /\ free(k, r).req_to_blocks = [k.req_to_blocks EXCEPT ![r] = << >>]
         /\ free(k, r).num_cached_block = [k.num_cached_block EXCEPT ![r] = 0]
         /\ free(k, r).block_hashes = k.block_hashes
<1>g. PICK g : g = free(k, r)
  OBVIOUS
<1>q. PICK p, l, q, d : p = k.pool /\ l = k.req_to_blocks[r] /\ q = free_order(l) /\ d = free_blocks(p, q)
  OBVIOUS
<1>1. /\ DOMAIN k = ManagerFields /\ k.req_to_blocks \in [Req -> Seq(Blocks \ {NullBlock})]
      /\ k.num_cached_block \in [Req -> Nat] /\ k.block_hashes \in [Req -> Nat]
      /\ PoolExact(p) /\ l \in Seq(Blocks \ {NullBlock}) /\ Distinct(l)
  BY <1>q DEF ManagerOK, ManagerShape, ListOK
<1>2. /\ DOMAIN g = ManagerFields /\ g.pool = d
      /\ g.req_to_blocks = [k.req_to_blocks EXCEPT ![r] = << >>]
      /\ g.num_cached_block = [k.num_cached_block EXCEPT ![r] = 0]
      /\ g.block_hashes = k.block_hashes
  BY <1>g, <1>q, <1>1 DEF free, ManagerFields
<1>3. q \in Seq(Blocks \ {NullBlock}) /\ Distinct(q) /\ Members(q) = Members(l)
  BY <1>1, <1>q, FreeOrder
<1>4. \A b \in Members(l) : b \in Blocks \ {NullBlock} /\ r \in HoldersIn(k.req_to_blocks, b)
  BY <1>1, <1>q, MembersOf DEF HoldersIn
<1>5. \A b \in Blocks : HoldersIn(k.req_to_blocks, b) \in SUBSET Req
  BY DEF HoldersIn
<1>6. \A b \in Members(q) : p.ref_cnt[b] > 0
  <2> SUFFICES ASSUME NEW b \in Members(l) PROVE p.ref_cnt[b] > 0
    BY <1>3
  <2>1. p.ref_cnt[b] = Cardinality(HoldersIn(k.req_to_blocks, b))
    BY <1>4, <1>q DEF ManagerOK, RefsExact
  <2>2. Cardinality(HoldersIn(k.req_to_blocks, b)) > 0
    BY <1>4, <1>5, HolderLeaves
  <2> QED
    BY <2>1, <2>2
<1>7. PoolExact(d) /\ Counts(p, d, Members(l), -1) /\ d.block_hash = p.block_hash
  <2>1. PoolExact(free_blocks(p, q)) /\ Counts(p, free_blocks(p, q), Members(q), -1)
        /\ free_blocks(p, q).block_hash = p.block_hash
    BY <1>1, <1>3, <1>6, FreeLoop
  <2> QED
    BY <2>1, <1>q, <1>3
<1>e. PICK E : E = << >>
  OBVIOUS
<1>f. E \in Seq(Blocks \ {NullBlock}) /\ Distinct(E) /\ Len(E) = 0 /\ Members(E) = {}
  BY <1>e DEF Distinct, Members
<1>8. \A s \in Req : /\ g.req_to_blocks[s] = IF s = r THEN E ELSE k.req_to_blocks[s]
                     /\ g.num_cached_block[s] = IF s = r THEN 0 ELSE k.num_cached_block[s]
  BY <1>1, <1>2, <1>e
<1>9. ManagerShape(g)
  <2>1. g.req_to_blocks \in [Req -> Seq(Blocks \ {NullBlock})]
    BY <1>1, <1>2, <1>e, <1>f
  <2>2. g.num_cached_block \in [Req -> Nat]
    BY <1>1, <1>2
  <2> QED
    BY <2>1, <2>2, <1>1, <1>2 DEF ManagerShape
<1>10. ASSUME NEW s \in Req PROVE ListOK(g.pool, s, g.req_to_blocks[s], g.num_cached_block[s])
  <2>1. CASE s = r
    <3>1. 0 * BlockSize <= Len(Tokens[s])
      BY ManagerAssumption
    <3>2. ListOK(d, s, E, 0)
      BY <3>1, <1>f DEF ListOK
    <3> QED
      BY <3>2, <2>1, <1>2, <1>8
  <2>2. CASE s # r
    <3>1. ListOK(p, s, k.req_to_blocks[s], k.num_cached_block[s])
      BY <1>q DEF ManagerOK
    <3> QED
      BY <3>1, <2>2, <1>2, <1>7, <1>8 DEF ListOK
  <2> QED
    BY <2>1, <2>2
<1>11. ASSUME NEW b \in Blocks \ {NullBlock}
       PROVE  HoldersIn(g.req_to_blocks, b) = HoldersIn(k.req_to_blocks, b) \ {r}
  BY <1>8, <1>f DEF HoldersIn
<1>12. RefsExact(g.pool, g.req_to_blocks)
  <2> SUFFICES ASSUME NEW b \in Blocks \ {NullBlock}
               PROVE  d.ref_cnt[b] = Cardinality(HoldersIn(g.req_to_blocks, b))
    BY <1>2 DEF RefsExact
  <2>0. PICK H : H = HoldersIn(k.req_to_blocks, b)
    OBVIOUS
  <2>1. p.ref_cnt[b] = Cardinality(H) /\ H \in SUBSET Req /\ (r \in H <=> b \in Members(l))
    BY <2>0, <1>5, <1>q DEF ManagerOK, RefsExact, HoldersIn
  <2>2. d.ref_cnt[b] = p.ref_cnt[b] + IF b \in Members(l) THEN -1 ELSE 0
    BY <1>7 DEF Counts
  <2>3. HoldersIn(g.req_to_blocks, b) = H \ {r}
    BY <2>0, <1>11
  <2>4. CASE b \in Members(l)
    <3>1. Cardinality(H \ {r}) = Cardinality(H) - 1 /\ Cardinality(H) \in Nat
      BY <2>1, <2>4, HolderLeaves
    <3> QED
      BY <3>1, <2>1, <2>2, <2>3, <2>4
  <2>5. CASE b \notin Members(l)
    <3>1. H \ {r} = H /\ p.ref_cnt[b] \in Nat
      BY <2>1, <2>5, <1>1, PoolFields DEF PoolExact
    <3> QED
      BY <3>1, <2>1, <2>2, <2>3, <2>5
  <2> QED
    BY <2>4, <2>5
<1>13. HeldAlone(g.pool, g.req_to_blocks)
  <2> SUFFICES ASSUME NEW b \in Blocks \ {NullBlock}, d.block_hash[b] = NoHash, NEW s \in Req, NEW t \in Req,
                      b \in Members(g.req_to_blocks[s]), b \in Members(g.req_to_blocks[t])
               PROVE  s = t
    BY <1>2 DEF HeldAlone
  <2>1. b \in Members(k.req_to_blocks[s]) /\ b \in Members(k.req_to_blocks[t])
    BY <1>8, <1>f
  <2> QED
    BY <2>1, <1>7, <1>q DEF ManagerOK, HeldAlone
<1>14. ManagerOK(g)
  BY <1>2, <1>7, <1>9, <1>10, <1>12, <1>13 DEF ManagerOK
<1> QED
  BY <1>g, <1>2, <1>14

\* Whole blocks and tokens.
LEMMA WholeBlocks ==
  ASSUME NEW t \in Nat
  PROVE  /\ t \div BlockSize \in Nat
         /\ (t \div BlockSize) * BlockSize <= t
         /\ t < (t \div BlockSize + 1) * BlockSize
  BY ManagerAssumption
LEMMA BlocksFit ==
  ASSUME NEW a \in Int, NEW t \in Nat
  PROVE  a * BlockSize <= t <=> a <= t \div BlockSize
<1>0. BlockSize \in Nat \ {0}
  BY ManagerAssumption
<1>1. PICK d : d = t \div BlockSize
  OBVIOUS
<1>2. d \in Nat /\ d * BlockSize <= t /\ t < (d + 1) * BlockSize
  BY <1>1, WholeBlocks
<1>3. ASSUME a <= d PROVE a * BlockSize <= t
  <2>1. a * BlockSize <= d * BlockSize
    BY <1>0, <1>2, <1>3
  <2> QED
    BY <2>1, <1>0, <1>2
<1>4. ASSUME ~(a <= d) PROVE ~(a * BlockSize <= t)
  <2>1. d + 1 <= a
    BY <1>2, <1>4
  <2>2. (d + 1) * BlockSize <= a * BlockSize
    BY <1>0, <1>2, <2>1
  <2> QED
    BY <2>2, <1>0, <1>2
<1> QED
  BY <1>1, <1>3, <1>4

LEMMA TokensLen == \A r \in Req : Len(Tokens[r]) \in Nat
<1> SUFFICES ASSUME NEW r \in Req PROVE Len(Tokens[r]) \in Nat
  OBVIOUS
<1>1. Tokens[r] \in Seq(Members(Tokens[r]))
  BY ManagerAssumption
<1> QED
  BY <1>1, LenProperties

\* The hash of a whole block of a request's tokens.
LEMMA HashOfBlock ==
  ASSUME NEW r \in Req, NEW i \in Nat \ {0}, i * BlockSize <= Len(Tokens[r])
  PROVE  block_hash_of(r, i) \in Hashes
<1>0. PICK n \in Nat : n = Len(Tokens[r])
  BY TokensLen
<1>1. i \in Int /\ i * BlockSize <= n
  BY <1>0
<1>2. i <= n \div BlockSize
  BY <1>1, BlocksFit
<1>3. n \div BlockSize \in Nat
  BY WholeBlocks
<1>4. i \in 1..(Len(Tokens[r]) \div BlockSize)
  BY <1>0, <1>2, <1>3
<1> QED
  BY <1>4, ManagerAssumption DEF block_hash_of

\* cache_blocks: the list has more hashes, and nothing else is new.
LEMMA CacheBlocksOK ==
  ASSUME NEW k, ManagerOK(k), EnableCaching, NEW r \in Req, NEW t \in Nat,
         k.num_cached_block[r] <= t \div BlockSize,
         t \div BlockSize <= Len(k.req_to_blocks[r]), t <= Len(Tokens[r])
  PROVE  /\ ManagerOK(cache_blocks(k, r, t))
         /\ cache_blocks(k, r, t).req_to_blocks = k.req_to_blocks
         /\ cache_blocks(k, r, t).num_cached_block
              = [k.num_cached_block EXCEPT ![r] = t \div BlockSize]
<1>g. PICK g : g = cache_blocks(k, r, t)
  OBVIOUS
<1>f. PICK full : full = t \div BlockSize
  OBVIOUS
<1>c. PICK c : c = k.num_cached_block[r]
  OBVIOUS
<1>p. PICK p, l : p = k.pool /\ l = k.req_to_blocks[r]
  OBVIOUS
<1>1. /\ DOMAIN k = ManagerFields /\ k.req_to_blocks \in [Req -> Seq(Blocks \ {NullBlock})]
      /\ k.num_cached_block \in [Req -> Nat] /\ k.block_hashes \in [Req -> Nat]
      /\ PoolExact(p) /\ l \in Seq(Blocks \ {NullBlock}) /\ ListOK(p, r, l, c)
  BY <1>p, <1>c DEF ManagerOK, ManagerShape
<1>2. full \in Nat /\ c \in Nat /\ c <= full /\ full <= Len(l) /\ full * BlockSize <= Len(Tokens[r])
      /\ Len(l) \in Nat /\ DOMAIN l = 1..Len(l)
  <2>1. full \in Nat /\ full * BlockSize <= t
    BY <1>f, WholeBlocks
  <2>2. full * BlockSize \in Nat /\ Len(Tokens[r]) \in Nat
    BY <2>1, ManagerAssumption, TokensLen
  <2> QED
    BY <2>1, <2>2, <1>f, <1>c, <1>p, <1>1, LenProperties
<1>n. PICK n \in Nat : n = full - c
  BY <1>2
<1>q. PICK q : q = [i \in 1..n |-> c + i]
  OBVIOUS
<1>3. q \in Seq(Int) /\ Len(q) = n /\ \A i \in 1..n : q[i] = c + i
  <2>1. q \in [1..n -> Int] /\ \A i \in 1..n : q[i] = c + i
    BY <1>q, <1>2
  <2> QED
    BY <2>1, IsASeq, LenProperties
<1>d. PICK d : d = cache_full_blocks(p, r, l, q)
  OBVIOUS
<1>4. /\ DOMAIN g = ManagerFields /\ g.pool = d /\ g.req_to_blocks = k.req_to_blocks
      /\ g.num_cached_block = [k.num_cached_block EXCEPT ![r] = full]
      /\ g.block_hashes = [k.block_hashes EXCEPT ![r] = Memoised(k.block_hashes[r], full)]
  <2>1. (IF full < c THEN 0 ELSE full - c) = n
    BY <1>2, <1>n
  <2>2. g = [k EXCEPT !.pool = cache_full_blocks(k.pool, r, k.req_to_blocks[r],
                                 [i \in 1..(IF full < c THEN 0 ELSE full - c) |-> c + i]),
               !.num_cached_block = [k.num_cached_block EXCEPT ![r] = full],
               !.block_hashes = [k.block_hashes EXCEPT ![r] = Memoised(k.block_hashes[r], full)]]
    BY <1>g, <1>f, <1>c DEF cache_blocks
  <2>3. g = [k EXCEPT !.pool = d,
               !.num_cached_block = [k.num_cached_block EXCEPT ![r] = full],
               !.block_hashes = [k.block_hashes EXCEPT ![r] = Memoised(k.block_hashes[r], full)]]
    BY <2>1, <2>2, <1>d, <1>p, <1>q
  <2> QED
    BY <2>3, <1>1 DEF ManagerFields
<1>5. Hashable(p, r, l, c, n)
  <2> SUFFICES ASSUME NEW i \in 1..n
               PROVE  p.block_hash[l[c + i]] = NoHash /\ block_hash_of(r, c + i) \in Hashes
    BY DEF Hashable
  <2>1. c + i \in Nat \ {0} /\ c + i \in 1..Len(l) /\ ~(c + i <= c) /\ c + i <= full
    BY <1>2, <1>n
  <2>2. p.block_hash[l[c + i]] = NoHash
    BY <2>1, <1>1 DEF ListOK, HashAt
  <2>3. (c + i) * BlockSize <= Len(Tokens[r])
    <3>1. (c + i) * BlockSize <= full * BlockSize
      BY <2>1, <1>2, ManagerAssumption
    <3>2. (c + i) * BlockSize \in Int /\ full * BlockSize \in Int /\ Len(Tokens[r]) \in Int
      BY <2>1, <1>2, ManagerAssumption, TokensLen
    <3> QED
      BY <3>1, <3>2, <1>2
  <2> QED
    BY <2>1, <2>2, <2>3, HashOfBlock
<1>6. Distinct(l) /\ c + n <= Len(l)
  BY <1>1, <1>2, <1>n DEF ListOK
<1>7. /\ PoolExact(d) /\ d.ref_cnt = p.ref_cnt
      /\ \A i \in 1..n : d.block_hash[l[c + i]] = block_hash_of(r, c + i)
      /\ \A b \in Blocks : (\A i \in 1..n : b # l[c + i]) => d.block_hash[b] = p.block_hash[b]
  <2>1. /\ PoolExact(p) /\ l \in Seq(Blocks \ {NullBlock}) /\ Distinct(l) /\ c \in Nat
        /\ c + n <= Len(l) /\ Numbered(q, c, n) /\ Hashable(p, r, l, c, n)
    BY <1>1, <1>2, <1>3, <1>5, <1>6 DEF Numbered
  <2>2. NowHashed(p, cache_full_blocks(p, r, l, q), r, l, c, n)
    BY <2>1, CacheLoop
  <2> QED
    BY <2>2, <1>d DEF NowHashed
<1>8. ManagerShape(g)
  <2>1. Memoised(k.block_hashes[r], full) \in Nat
    BY <1>1, <1>2 DEF Memoised
  <2> QED
    BY <2>1, <1>1, <1>2, <1>4 DEF ManagerShape
\* The blocks that get a hash have no other holder.
<1>9. ASSUME NEW b \in Blocks \ {NullBlock}, NEW s \in Req, s # r, b \in Members(k.req_to_blocks[s])
      PROVE  d.block_hash[b] = p.block_hash[b]
  <2> SUFFICES ASSUME NEW i \in 1..n, b = l[c + i] PROVE FALSE
    BY <1>7
  <2>1. p.block_hash[b] = NoHash
    BY <1>5 DEF Hashable
  <2>2. c + i \in DOMAIN l
    BY <1>2, <1>n
  <2>3. b \in Members(k.req_to_blocks[r])
    BY <2>2, <1>p DEF Members
  <2> QED
    BY <2>1, <2>3, <1>9, <1>p DEF ManagerOK, HeldAlone
<1>10. ASSUME NEW s \in Req PROVE ListOK(g.pool, s, g.req_to_blocks[s], g.num_cached_block[s])
  <2>1. CASE s = r
    <3>1. ASSUME NEW i \in 1..Len(l) PROVE d.block_hash[l[i]] = HashAt(r, i, full)
      <4>1. i \in DOMAIN l /\ l[i] \in Blocks
        BY <1>1, <1>2, MembersOf
      <4>2. CASE i <= c
        <5>1. \A j \in 1..n : c + j \in DOMAIN l /\ c + j # i
          BY <4>2, <1>2, <1>n
        <5>2. \A j \in 1..n : l[i] # l[c + j]
          BY <5>1, <4>1, <1>6 DEF Distinct
        <5>3. d.block_hash[l[i]] = p.block_hash[l[i]]
          BY <5>2, <4>1, <1>7
        <5>4. i <= full
          BY <4>2, <1>2
        <5> QED
          BY <5>3, <5>4, <4>2, <1>1 DEF ListOK, HashAt
      <4>3. CASE ~(i <= c) /\ i <= full
        <5>1. i - c \in 1..n /\ c + (i - c) = i
          BY <4>3, <1>2, <1>n
        <5>2. d.block_hash[l[i]] = block_hash_of(r, i)
          BY <5>1, <1>7
        <5> QED
          BY <5>2, <4>3 DEF HashAt
      <4>4. CASE ~(i <= full)
        <5>1. \A j \in 1..n : c + j \in DOMAIN l /\ c + j # i
          BY <4>4, <1>2, <1>n
        <5>2. \A j \in 1..n : l[i] # l[c + j]
          BY <5>1, <4>1, <1>6 DEF Distinct
        <5>3. d.block_hash[l[i]] = p.block_hash[l[i]]
          BY <5>2, <4>1, <1>7
        <5>4. ~(i <= c)
          BY <4>4, <1>2
        <5> QED
          BY <5>3, <5>4, <4>4, <1>1 DEF ListOK, HashAt
      <4> QED
        BY <4>2, <4>3, <4>4
    <3>2. ListOK(d, r, l, full)
      BY <3>1, <1>2, <1>6 DEF ListOK
    <3>3. g.req_to_blocks[s] = l /\ g.num_cached_block[s] = full
      BY <2>1, <1>1, <1>4, <1>p
    <3> QED
      BY <3>2, <3>3, <2>1, <1>4
  <2>2. CASE s # r
    <3>1. ListOK(p, s, k.req_to_blocks[s], k.num_cached_block[s])
      BY <1>p DEF ManagerOK
    <3>2. g.req_to_blocks[s] = k.req_to_blocks[s] /\ g.num_cached_block[s] = k.num_cached_block[s]
      BY <2>2, <1>1, <1>4
    <3>3. ASSUME NEW i \in 1..Len(k.req_to_blocks[s])
          PROVE  d.block_hash[k.req_to_blocks[s][i]] = p.block_hash[k.req_to_blocks[s][i]]
      <4>1. k.req_to_blocks[s] \in Seq(Blocks \ {NullBlock})
        BY <1>1
      <4>2. /\ k.req_to_blocks[s][i] \in Blocks \ {NullBlock}
            /\ k.req_to_blocks[s][i] \in Members(k.req_to_blocks[s])
        BY <4>1, MembersOf
      <4> QED
        BY <4>2, <2>2, <1>9
    <3>4. ListOK(d, s, k.req_to_blocks[s], k.num_cached_block[s])
      BY <3>1, <3>3 DEF ListOK
    <3> QED
      BY <3>2, <3>4, <1>4
  <2> QED
    BY <2>1, <2>2
<1>11. RefsExact(g.pool, g.req_to_blocks)
  BY <1>4, <1>7, <1>p DEF ManagerOK, RefsExact
<1>12. HeldAlone(g.pool, g.req_to_blocks)
  <2> SUFFICES ASSUME NEW b \in Blocks \ {NullBlock}, d.block_hash[b] = NoHash, NEW s \in Req, NEW u \in Req,
                      b \in Members(k.req_to_blocks[s]), b \in Members(k.req_to_blocks[u])
               PROVE  s = u
    BY <1>4 DEF HeldAlone
  <2>1. CASE s = r /\ u = r
    BY <2>1
  <2>2. CASE s # r \/ u # r
    <3>1. p.block_hash[b] = NoHash
      BY <2>2, <1>9
    <3> QED
      BY <3>1, <1>p DEF ManagerOK, HeldAlone
  <2> QED
    BY <2>1, <2>2
<1>13. ManagerOK(g)
  BY <1>4, <1>7, <1>8, <1>10, <1>11, <1>12 DEF ManagerOK
<1> QED
  BY <1>g, <1>f, <1>4, <1>13

\* _free_blocks, with the memoised hashes.
LEMMA FreedOK ==
  ASSUME NEW k, ManagerOK(k), NEW r \in Req
  PROVE  /\ ManagerOK(free_block_hashes(free(k, r), r))
         /\ free_block_hashes(free(k, r), r).req_to_blocks = [k.req_to_blocks EXCEPT ![r] = << >>]
         /\ free_block_hashes(free(k, r), r).num_cached_block = [k.num_cached_block EXCEPT ![r] = 0]
<1>1. PICK f, g : f = free(k, r) /\ g = free_block_hashes(f, r)
  OBVIOUS
<1>2. /\ ManagerOK(f) /\ f.req_to_blocks = [k.req_to_blocks EXCEPT ![r] = << >>]
      /\ f.num_cached_block = [k.num_cached_block EXCEPT ![r] = 0]
  BY <1>1, FreeOK
<1>3. DOMAIN f = ManagerFields /\ f.block_hashes \in [Req -> Nat]
  BY <1>2 DEF ManagerOK, ManagerShape
<1>4. /\ g.pool = f.pool /\ g.req_to_blocks = f.req_to_blocks /\ DOMAIN g = ManagerFields
      /\ g.num_cached_block = f.num_cached_block /\ g.block_hashes \in [Req -> Nat]
  BY <1>1, <1>3 DEF free_block_hashes, ManagerFields
<1>5. ManagerOK(g)
  BY <1>2, <1>4 DEF ManagerOK, ManagerShape
<1> QED
  BY <1>1, <1>2, <1>4, <1>5

\* The pool and the manager that the constructors make.
LEMMA InitPoolExact == PoolExact(InitPool)
<1>1. PICK p : p = InitPool
  OBVIOUS
<1>2. PICK q, e : q = [i \in 1..(NumBlocks - 1) |-> i] /\ e = << >>
  OBVIOUS
<1>3. NumBlocks - 1 \in Nat /\ Blocks = 0..(NumBlocks - 1) /\ 0 \in Blocks /\ NoHash \notin Hashes
  BY PoolAssumption DEF Blocks
<1>4. e \in Seq(Blocks) /\ Distinct(e) /\ Members(e) = {}
  BY <1>2 DEF Distinct, Members
<1>5. q \in Seq(Blocks) /\ DOMAIN q = 1..(NumBlocks - 1) /\ \A i \in 1..(NumBlocks - 1) : q[i] = i
  <2>1. q \in [1..(NumBlocks - 1) -> Blocks]
    BY <1>2, <1>3
  <2> QED
    BY <2>1, <1>2, <1>3, IsASeq
<1>6. Distinct(q) /\ Members(q) = 1..(NumBlocks - 1)
  BY <1>5 DEF Distinct, Members
<1>7. /\ p.free_block_queue = q /\ p.ref_cnt = [b \in Blocks |-> 0]
      /\ p.block_hash = [b \in Blocks |-> NoHash] /\ p.cached = [h \in Hashes |-> e] /\ p.view = {}
  BY <1>1, <1>2 DEF InitPool
<1>8. p \in Pools
  <2>1. /\ [b \in Blocks |-> 0] \in [Blocks -> Nat] /\ [h \in Hashes |-> e] \in [Hashes -> Seq(Blocks)]
        /\ [b \in Blocks |-> NoHash] \in [Blocks -> Hashes \cup {NoHash}] /\ {} \in SUBSET Hashes
    BY <1>4
  <2> QED
    BY <2>1, <1>1, <1>2, <1>5 DEF Pools, InitPool
<1>9. PoolExact(p)
  <2>1. Distinct(p.free_block_queue) /\ NullBlock \notin Members(p.free_block_queue)
    BY <1>6, <1>7, <1>3 DEF NullBlock
  <2>2. \A b \in Blocks \ {NullBlock} : b \in Members(p.free_block_queue) <=> p.ref_cnt[b] = 0
    BY <1>3, <1>6, <1>7 DEF NullBlock
  <2>3. \A h \in Hashes : p.cached[h] = e
    BY <1>7
  <2>4. \A b \in Blocks : p.block_hash[b] = NoHash
    BY <1>7
  <2>5. NullBlock \in Blocks
    BY <1>3 DEF NullBlock
  <2> QED
    BY <2>1, <2>2, <2>3, <2>4, <2>5, <1>3, <1>4, <1>8 DEF PoolExact
<1> QED
  BY <1>1, <1>9

\* No request holds anything.
LEMMA EmptyLists ==
  ASSUME NEW k, ManagerShape(k), PoolExact(k.pool), \A r \in Req : k.req_to_blocks[r] = << >>,
         \A r \in Req : k.num_cached_block[r] = 0,
         \A b \in Blocks \ {NullBlock} : k.pool.ref_cnt[b] = 0
  PROVE  ManagerOK(k)
<1>1. PICK e : e = << >>
  OBVIOUS
<1>2. Distinct(e) /\ Members(e) = {} /\ Len(e) = 0
  BY <1>1 DEF Distinct, Members
<1>3. ASSUME NEW r \in Req PROVE ListOK(k.pool, r, k.req_to_blocks[r], k.num_cached_block[r])
  <2>1. 0 * BlockSize <= Len(Tokens[r])
    BY ManagerAssumption, TokensLen
  <2>2. ListOK(k.pool, r, e, 0)
    BY <2>1, <1>2 DEF ListOK
  <2> QED
    BY <2>2, <1>1
<1>4. \A b : HoldersIn(k.req_to_blocks, b) = {}
  BY <1>1, <1>2 DEF HoldersIn
<1>5. RefsExact(k.pool, k.req_to_blocks)
  BY <1>4, FS_EmptySet DEF RefsExact
<1>6. HeldAlone(k.pool, k.req_to_blocks)
  BY <1>1, <1>2 DEF HeldAlone
<1> QED
  BY <1>3, <1>5, <1>6 DEF ManagerOK

LEMMA InitManagerOK == ManagerOK(InitManager)
<1>1. PICK k : k = InitManager
  OBVIOUS
<1>2. PICK e : e = << >>
  OBVIOUS
<1>3. /\ DOMAIN k = ManagerFields /\ k.pool = InitPool /\ k.req_to_blocks = [r \in Req |-> e]
      /\ k.num_cached_block = [r \in Req |-> 0] /\ k.block_hashes = [r \in Req |-> 0]
  BY <1>1, <1>2 DEF InitManager, ManagerFields
<1>4. e \in Seq(Blocks \ {NullBlock})
  BY <1>2
<1>5. ManagerShape(k)
  BY <1>3, <1>4 DEF ManagerShape
<1>6. \A b \in Blocks : k.pool.ref_cnt[b] = 0
  BY <1>3 DEF InitPool
<1>7. PoolExact(k.pool)
  BY <1>3, InitPoolExact
<1>8. ManagerOK(k)
  BY <1>2, <1>3, <1>5, <1>6, <1>7, EmptyLists
<1> QED
  BY <1>1, <1>8

\* When only the null block is in use, no request holds a block.
LEMMA NothingHeld ==
  ASSUME NEW k, ManagerOK(k), CanReset(k.pool)
  PROVE  /\ \A b \in Blocks \ {NullBlock} : k.pool.ref_cnt[b] = 0
         /\ \A r \in Req : k.req_to_blocks[r] = << >> /\ k.num_cached_block[r] = 0
<1>1. PICK p, q : p = k.pool /\ q = p.free_block_queue
  OBVIOUS
<1>2. PoolExact(p) /\ q \in Seq(Blocks) /\ Distinct(q) /\ NullBlock \notin Members(q)
  BY <1>1, PoolFields DEF ManagerOK, PoolExact
<1>3. NumBlocks \in Nat \ {0} /\ Blocks \ {NullBlock} = 1..(NumBlocks - 1)
  BY PoolAssumption DEF Blocks, NullBlock
<1>4. Len(q) \in Nat /\ Len(q) = NumBlocks - 1
  BY <1>1, <1>2, <1>3, LenProperties DEF CanReset
<1>5. IsFiniteSet(Members(q)) /\ Cardinality(Members(q)) = NumBlocks - 1
  BY <1>2, <1>4, CardMembers
<1>6. IsFiniteSet(1..(NumBlocks - 1)) /\ Cardinality(1..(NumBlocks - 1)) = NumBlocks - 1
  BY <1>3, FS_Interval
<1>7. Members(q) \in SUBSET (1..(NumBlocks - 1))
  <2>1. Members(q) \subseteq Blocks
    BY <1>2, MembersOf
  <2> QED
    BY <2>1, <1>2, <1>3
<1>8. Members(q) = 1..(NumBlocks - 1)
  BY <1>5, <1>6, <1>7, FS_Subset
<1>9. \A b \in Blocks \ {NullBlock} : p.ref_cnt[b] = 0
  BY <1>1, <1>2, <1>3, <1>8 DEF PoolExact
<1>10. ASSUME NEW r \in Req PROVE k.req_to_blocks[r] = << >> /\ k.num_cached_block[r] = 0
  <2>1. PICK l : l = k.req_to_blocks[r]
    OBVIOUS
  <2>2. l \in Seq(Blocks \ {NullBlock}) /\ k.num_cached_block[r] \in Nat
    BY <2>1 DEF ManagerOK, ManagerShape
  <2>3. ASSUME NEW b \in Members(l) PROVE FALSE
    <3>1. b \in Blocks \ {NullBlock}
      BY <2>2, MembersOf
    <3>2. HoldersIn(k.req_to_blocks, b) \in SUBSET Req /\ r \in HoldersIn(k.req_to_blocks, b)
      BY <2>1 DEF HoldersIn
    <3>3. Cardinality(HoldersIn(k.req_to_blocks, b)) = 0
      BY <3>1, <1>1, <1>9 DEF ManagerOK, RefsExact
    <3> QED
      BY <3>2, <3>3, NoHolders
  <2>4. l = << >> /\ Len(l) = 0
    BY <2>2, <2>3, MembersOf
  <2>5. k.num_cached_block[r] <= Len(l)
    BY <2>1 DEF ManagerOK, ListOK
  <2> QED
    BY <2>1, <2>2, <2>4, <2>5
<1> QED
  BY <1>1, <1>9, <1>10

LEMMA ResetOK ==
  ASSUME NEW k, ManagerOK(k), CanReset(k.pool)
  PROVE  /\ ManagerOK([k EXCEPT !.pool = reset_prefix_cache(@)])
         /\ [k EXCEPT !.pool = reset_prefix_cache(@)].req_to_blocks = k.req_to_blocks
         /\ [k EXCEPT !.pool = reset_prefix_cache(@)].num_cached_block = k.num_cached_block
<1>g. PICK g : g = [k EXCEPT !.pool = reset_prefix_cache(@)]
  OBVIOUS
<1>d. PICK p, d, e : p = k.pool /\ d = reset_prefix_cache(p) /\ e = << >>
  OBVIOUS
<1>1. PoolExact(p) /\ ManagerShape(k)
  BY <1>d DEF ManagerOK
<1>2. /\ DOMAIN g = ManagerFields /\ g.pool = d /\ g.req_to_blocks = k.req_to_blocks
      /\ g.num_cached_block = k.num_cached_block /\ g.block_hashes = k.block_hashes
  BY <1>g, <1>d, <1>1 DEF ManagerShape, ManagerFields
<1>3. /\ d \in Pools /\ d.free_block_queue = p.free_block_queue /\ d.ref_cnt = p.ref_cnt
      /\ d.block_hash = [b \in Blocks |-> NoHash] /\ d.cached = [h \in Hashes |-> e]
  BY <1>1, <1>d, ResetFields DEF PoolExact
<1>4. Distinct(e) /\ Members(e) = {}
  BY <1>d DEF Distinct, Members
<1>5. NoHash \notin Hashes /\ NullBlock \in Blocks
  BY PoolAssumption DEF Blocks, NullBlock
<1>6. PoolExact(d)
  <2>1. \A h \in Hashes : d.cached[h] = e
    BY <1>3
  <2>2. \A b \in Blocks : d.block_hash[b] = NoHash
    BY <1>3
  <2> QED
    BY <2>1, <2>2, <1>1, <1>3, <1>4, <1>5 DEF PoolExact
<1>7. ManagerShape(g)
  BY <1>1, <1>2 DEF ManagerShape
<1>8. ManagerOK(g)
  BY <1>2, <1>3, <1>6, <1>7, <1>d, NothingHeld, EmptyLists
<1> QED
  BY <1>g, <1>2, <1>8

\* The length of the run of hits exists.
LEMMA RunOfHits ==
  ASSUME NEW n \in Nat, NEW B
  PROVE  \E m \in 0..n : (\A i \in 1..m : i \in B) /\ (m = n \/ m + 1 \notin B)
<1> DEFINE T == {m \in 0..n : m = n \/ m + 1 \notin B}
<1>1. T \subseteq Nat /\ n \in T
  OBVIOUS
<1>2. PICK m \in T : \A k \in T : m <= k
  BY <1>1, Smallest
<1>3. ASSUME NEW i \in 1..m PROVE i \in B
  <2>1. i - 1 \in 0..n /\ i - 1 # n /\ ~(m <= i - 1) /\ (i - 1) + 1 = i
    BY <1>2
  <2>2. i - 1 \notin T
    BY <2>1, <1>2
  <2> QED
    BY <2>1, <2>2
<1> QED
  BY <1>2, <1>3

\* Two blocks of one request have different hashes.
LEMMA HashesDiffer ==
  ASSUME NEW r \in Req, NEW i \in Nat, NEW j \in Nat, i * BlockSize <= Len(Tokens[r]),
         j * BlockSize <= Len(Tokens[r]), block_hash_of(r, i) = block_hash_of(r, j)
  PROVE  i = j
<1>1. PICK s, S : s = Tokens[r] /\ S = Members(s)
  OBVIOUS
<1>2. s \in Seq(S) /\ BlockSize \in Nat \ {0}
  BY <1>1, ManagerAssumption
<1>3. Len(s) \in Nat /\ \A x \in 1..Len(s) : s[x] \in S
  BY <1>2, LenProperties
<1>4. ASSUME NEW x \in Nat, x <= Len(s) PROVE Len(SubSeq(s, 1, x)) = x
  <2>1. \A y \in 1..x : s[y] \in S
    BY <1>3, <1>4
  <2>2. Len(SubSeq(s, 1, x)) = IF 1 <= x THEN x - 1 + 1 ELSE 0
    BY <2>1, SubSeqProperties
  <2> QED
    BY <2>2
<1>5. i * BlockSize \in Nat /\ j * BlockSize \in Nat
  BY <1>2
<1>6. i * BlockSize = j * BlockSize
  BY <1>1, <1>4, <1>5 DEF block_hash_of
<1> QED
  BY <1>2, <1>6

\* What find_longest_cache_hit may return for a request: blocks that carry the hashes
\* of its first blocks.
HitsOK(p, r, hits) ==
  /\ hits \in Seq(Blocks \ {NullBlock})
  /\ Distinct(hits)
  /\ Len(hits) * BlockSize <= Len(Tokens[r])
  /\ \A i \in 1..Len(hits) : /\ p.block_hash[hits[i]] = block_hash_of(r, i)
                             /\ block_hash_of(r, i) \in Hashes
LEMMA NoHits ==
  ASSUME NEW p, NEW r \in Req
  PROVE  HitsOK(p, r, << >>)
<1>1. PICK e : e = << >>
  OBVIOUS
<1>2. e \in Seq(Blocks \ {NullBlock}) /\ Distinct(e) /\ Len(e) = 0 /\ 0 * BlockSize <= Len(Tokens[r])
  BY <1>1, ManagerAssumption, TokensLen DEF Distinct
<1>3. HitsOK(p, r, e)
  BY <1>2 DEF HitsOK
<1> QED
  BY <1>1, <1>3

\* The blocks of a run of cached hashes.
LEMMA HitsOfRun ==
  ASSUME NEW p, PoolExact(p), NEW r \in Req, NEW n \in Nat, n * BlockSize <= Len(Tokens[r]),
         \A i \in 1..n : HasCached(p, block_hash_of(r, i))
  PROVE  /\ HitsOK(p, r, [i \in 1..n |-> get_cached_block(p, block_hash_of(r, i))])
         /\ Len([i \in 1..n |-> get_cached_block(p, block_hash_of(r, i))]) = n
<1>h. PICK h : h = [i \in 1..n |-> get_cached_block(p, block_hash_of(r, i))]
  OBVIOUS
<1>0. p \in Pools /\ p.cached \in [Hashes -> Seq(Blocks)] /\ NoHash \notin Hashes
      /\ p.block_hash[NullBlock] = NoHash
  BY PoolFields, PoolAssumption DEF PoolExact
<1>1. ASSUME NEW i \in 1..n
      PROVE  /\ i * BlockSize <= Len(Tokens[r]) /\ i \in Nat \ {0}
             /\ block_hash_of(r, i) \in Hashes
             /\ h[i] \in Blocks \ {NullBlock} /\ p.block_hash[h[i]] = block_hash_of(r, i)
  <2>1. i * BlockSize <= n * BlockSize /\ i * BlockSize \in Nat /\ n * BlockSize \in Nat
    BY ManagerAssumption
  <2>2. i * BlockSize <= Len(Tokens[r]) /\ i \in Nat \ {0}
    BY <2>1, TokensLen
  <2>3. PICK x \in Hashes : x = block_hash_of(r, i)
    BY <2>2, HashOfBlock
  <2>4. PICK c \in Seq(Blocks) : c = p.cached[x] /\ c # << >>
    BY <2>3, <1>0 DEF HasCached
  <2>5. c[1] \in Blocks /\ c[1] \in Members(c)
    <3>1. Len(c) \in Nat /\ Len(c) # 0
      BY <2>4, MembersOf
    <3>2. 1 \in 1..Len(c)
      BY <3>1
    <3> QED
      BY <3>2, MembersOf
  <2>6. p.block_hash[c[1]] = x
    BY <2>3, <2>4, <2>5 DEF PoolExact
  <2>7. h[i] = c[1]
    BY <1>h, <2>3, <2>4 DEF get_cached_block
  <2> QED
    BY <2>2, <2>3, <2>5, <2>6, <2>7, <1>0
<1>2. h \in [1..n -> Blocks \ {NullBlock}] /\ DOMAIN h = 1..n
  BY <1>1, <1>h
<1>3. h \in Seq(Blocks \ {NullBlock}) /\ Len(h) = n
  <2>1. h \in Seq(Blocks \ {NullBlock})
    BY <1>2, IsASeq
  <2>2. Len(h) = n
    BY <2>1, <1>2, LenProperties
  <2> QED
    BY <2>1, <2>2
<1>4. Distinct(h)
  <2> SUFFICES ASSUME NEW i \in 1..n, NEW j \in 1..n, h[i] = h[j] PROVE i = j
    BY <1>2 DEF Distinct
  <2>1. block_hash_of(r, i) = block_hash_of(r, j)
    BY <1>1
  <2>2. i * BlockSize <= Len(Tokens[r]) /\ j * BlockSize <= Len(Tokens[r])
    BY <1>1
  <2> QED
    BY <2>1, <2>2, HashesDiffer
<1>5. HitsOK(p, r, h)
  BY <1>1, <1>3, <1>4 DEF HitsOK
<1> QED
  BY <1>h, <1>3, <1>5

\* How many blocks the lookup hits.
LEMMA HitLengthIs ==
  ASSUME NEW k, ManagerOK(k), NEW r \in Req, NEW t \in Nat \ {0}
  PROVE  /\ HitLength(k, r, t) \in Nat /\ HitLength(k, r, t) * BlockSize <= t - 1
         /\ \A i \in 1..HitLength(k, r, t) : HasCached(k.pool, block_hash_of(r, i))
<1>1. k.block_hashes[r] \in Nat
  BY DEF ManagerOK, ManagerShape
<1>2. max_num_blocks(t) \in Nat /\ max_num_blocks(t) * BlockSize <= t - 1
  <2>1. t - 1 \in Nat
    OBVIOUS
  <2> QED
    BY <2>1, WholeBlocks DEF max_num_blocks
<1>3. HashesAtLookup(k, r, t) \in Nat
  BY <1>1, WholeBlocks DEF HashesAtLookup
<1>4. PICK n \in Nat : n = AtMost(max_num_blocks(t), HashesAtLookup(k, r, t)) /\ n <= max_num_blocks(t)
  BY <1>2, <1>3 DEF AtMost
<1>5. PICK B : B = {i \in Nat : HasCached(k.pool, block_hash_of(r, i))}
  OBVIOUS
<1>6. \E m \in 0..n : (\A i \in 1..m : i \in B) /\ (m = n \/ m + 1 \notin B)
  BY RunOfHits
<1>7. \E m \in 0..n : /\ \A i \in 1..m : HasCached(k.pool, block_hash_of(r, i))
                      /\ (m = n \/ ~HasCached(k.pool, block_hash_of(r, m + 1)))
  BY <1>5, <1>6
<1>8. PICK m : m = HitLength(k, r, t)
  OBVIOUS
<1>9. m = CHOOSE x \in 0..n : /\ \A i \in 1..x : HasCached(k.pool, block_hash_of(r, i))
                              /\ (x = n \/ ~HasCached(k.pool, block_hash_of(r, x + 1)))
  BY <1>4, <1>8, Zenon DEF HitLength
<1>10. m \in 0..n /\ \A i \in 1..m : HasCached(k.pool, block_hash_of(r, i))
  BY <1>7, <1>9
<1>11. m * BlockSize <= t - 1
  <2>1. m * BlockSize <= max_num_blocks(t) * BlockSize /\ m * BlockSize \in Nat
        /\ max_num_blocks(t) * BlockSize \in Nat
    BY <1>2, <1>4, <1>10, ManagerAssumption
  <2> QED
    BY <2>1, <1>2
<1> QED
  BY <1>8, <1>10, <1>11

\* get_computed_blocks: only the memoised hashes change, and the hits leave a token.
LookupAs(k, g, r, t) ==
  /\ ManagerOK(g.kvm) /\ g.kvm.pool = k.pool
  /\ g.kvm.req_to_blocks = k.req_to_blocks /\ g.kvm.num_cached_block = k.num_cached_block
  /\ HitsOK(k.pool, r, g.hits)
  /\ Len(g.hits) \in Nat /\ Len(g.hits) * BlockSize <= t - 1
  /\ ~EnableCaching => g.hits = << >>
LEMMA LookupOK ==
  ASSUME NEW k, ManagerOK(k), NEW r \in Req, NEW t \in Nat \ {0}, t <= Len(Tokens[r])
  PROVE  LookupAs(k, get_computed_blocks(k, r, t), r, t)
<1>g. PICK g, kk, h : g = get_computed_blocks(k, r, t) /\ kk = g.kvm /\ h = g.hits
  OBVIOUS
<1>1. CASE ~EnableCaching
  <2>1. kk = k /\ h = << >>
    BY <1>1, <1>g DEF get_computed_blocks
  <2>2. HitsOK(k.pool, r, << >>) /\ Len(<< >>) = 0 /\ 0 * BlockSize <= t - 1
    BY NoHits, ManagerAssumption
  <2> QED
    BY <2>1, <2>2, <1>g DEF LookupAs
<1>2. CASE EnableCaching
  <2>1. PICK n : n = num_hits(k, r, t)
    OBVIOUS
  <2>2. PICK m \in Nat : m = HitLength(k, r, t)
    BY HitLengthIs
  <2>3. n \in Nat /\ n <= m
    BY <2>1, <2>2 DEF num_hits
  <2>4. n * BlockSize <= t - 1 /\ n * BlockSize <= Len(Tokens[r])
    <3>1. m * BlockSize <= t - 1
      BY <2>2, HitLengthIs
    <3>2. n * BlockSize <= m * BlockSize /\ n * BlockSize \in Nat /\ m * BlockSize \in Nat
      BY <2>3, ManagerAssumption
    <3> QED
      BY <3>1, <3>2, TokensLen
  <2>5. \A i \in 1..n : HasCached(k.pool, block_hash_of(r, i))
    BY <2>2, <2>3, HitLengthIs
  <2>6. h = [i \in 1..n |-> get_cached_block(k.pool, block_hash_of(r, i))]
        /\ kk = [k EXCEPT !.block_hashes[r] = HashesAtLookup(k, r, t)]
    BY <1>g, <1>2, <2>1 DEF get_computed_blocks
  <2>7. HitsOK(k.pool, r, h) /\ Len(h) = n
    <3>1. PoolExact(k.pool)
      BY DEF ManagerOK
    <3> QED
      BY <3>1, <2>3, <2>4, <2>5, <2>6, HitsOfRun
  <2>8. ManagerShape(k) /\ HashesAtLookup(k, r, t) \in Nat
    BY WholeBlocks DEF ManagerOK, ManagerShape, HashesAtLookup
  <2>9. /\ kk.pool = k.pool /\ kk.req_to_blocks = k.req_to_blocks
        /\ kk.num_cached_block = k.num_cached_block /\ kk.block_hashes \in [Req -> Nat]
        /\ DOMAIN kk = ManagerFields
    BY <2>6, <2>8 DEF ManagerShape, ManagerFields
  <2>10. ManagerOK(kk)
    BY <2>8, <2>9 DEF ManagerOK, ManagerShape
  <2> QED
    BY <2>3, <2>4, <2>7, <2>9, <2>10, <1>2, <1>g DEF LookupAs
<1> QED
  BY <1>1, <1>2

\* Two lists one after the other.
LEMMA Joined ==
  ASSUME NEW S, NEW a \in Seq(S), NEW b \in Seq(S)
  PROVE  /\ a \o b \in Seq(S) /\ Len(a \o b) = Len(a) + Len(b)
         /\ Members(a \o b) = Members(a) \cup Members(b)
         /\ \A i \in 1..Len(a) : (a \o b)[i] = a[i]
         /\ \A i \in 1..Len(b) : (a \o b)[Len(a) + i] = b[i]
<1>1. PICK m, n, c : m = Len(a) /\ n = Len(b) /\ c = a \o b
  OBVIOUS
<1>2. m \in Nat /\ n \in Nat /\ DOMAIN a = 1..m /\ DOMAIN b = 1..n
  BY <1>1, LenProperties
<1>3. /\ c \in Seq(S) /\ Len(c) = m + n
      /\ \A i \in 1..(m + n) : c[i] = IF i <= m THEN a[i] ELSE b[i - m]
  BY <1>1, ConcatProperties
<1>4. DOMAIN c = 1..(m + n)
  BY <1>3, LenProperties
<1>5. \A i \in 1..m : i \in 1..(m + n) /\ c[i] = a[i]
  BY <1>2, <1>3
<1>6. ASSUME NEW i \in 1..n PROVE m + i \in 1..(m + n) /\ c[m + i] = b[i]
  <2>1. m + i \in 1..(m + n) /\ ~(m + i <= m) /\ (m + i) - m = i
    BY <1>2
  <2> QED
    BY <2>1, <1>3
<1>7. ASSUME NEW i \in 1..(m + n) PROVE c[i] \in Members(a) \cup Members(b)
  <2>1. CASE i <= m
    <3>1. i \in 1..m
      BY <2>1, <1>2
    <3> QED
      BY <3>1, <1>2, <1>5 DEF Members
  <2>2. CASE ~(i <= m)
    <3>1. i - m \in 1..n /\ c[i] = b[i - m]
      BY <2>2, <1>2, <1>3
    <3> QED
      BY <3>1, <1>2 DEF Members
  <2> QED
    BY <2>1, <2>2
<1>8. Members(c) = Members(a) \cup Members(b)
  <2>1. ASSUME NEW x \in Members(c) PROVE x \in Members(a) \cup Members(b)
    BY <1>4, <1>7 DEF Members
  <2>2. ASSUME NEW x \in Members(a) PROVE x \in Members(c)
    <3>1. PICK i \in 1..m : x = a[i]
      BY <1>2 DEF Members
    <3> QED
      BY <3>1, <1>4, <1>5 DEF Members
  <2>3. ASSUME NEW x \in Members(b) PROVE x \in Members(c)
    <3>1. PICK i \in 1..n : x = b[i]
      BY <1>2 DEF Members
    <3> QED
      BY <3>1, <1>4, <1>6 DEF Members
  <2> QED
    BY <2>1, <2>2, <2>3
<1> QED
  BY <1>1, <1>3, <1>5, <1>6, <1>8
LEMMA JoinedDistinct ==
  ASSUME NEW S, NEW a \in Seq(S), NEW b \in Seq(S), Distinct(a), Distinct(b),
         Members(a) \cap Members(b) = {}
  PROVE  Distinct(a \o b)
<1>1. PICK m, n, c : m = Len(a) /\ n = Len(b) /\ c = a \o b
  OBVIOUS
<1>2. m \in Nat /\ n \in Nat /\ DOMAIN a = 1..m /\ DOMAIN b = 1..n
  BY <1>1, LenProperties
<1>3. /\ c \in Seq(S) /\ Len(c) = m + n /\ \A i \in 1..m : c[i] = a[i]
  BY <1>1, Joined
<1>4. \A i \in 1..n : c[m + i] = b[i]
  BY <1>1, Joined
<1>5. DOMAIN c = 1..(m + n)
  BY <1>3, LenProperties
<1>6. ASSUME NEW i \in 1..(m + n), ~(i <= m) PROVE i - m \in 1..n /\ c[i] = b[i - m] /\ c[i] \in Members(b)
  <2>1. i - m \in 1..n /\ m + (i - m) = i
    BY <1>2, <1>6
  <2> QED
    BY <2>1, <1>2, <1>4 DEF Members
<1>7. ASSUME NEW i \in 1..(m + n), i <= m PROVE i \in 1..m /\ c[i] = a[i] /\ c[i] \in Members(a)
  <2>1. i \in 1..m
    BY <1>2, <1>7
  <2> QED
    BY <2>1, <1>2, <1>3 DEF Members
<1>8. ASSUME NEW i \in 1..(m + n), NEW j \in 1..(m + n), c[i] = c[j] PROVE i = j
  <2>1. CASE i <= m /\ j <= m
    BY <2>1, <1>2, <1>7, <1>8 DEF Distinct
  <2>2. CASE ~(i <= m) /\ ~(j <= m)
    <3>1. i - m \in 1..n /\ j - m \in 1..n /\ b[i - m] = b[j - m]
      BY <2>2, <1>6, <1>8
    <3>2. i - m = j - m
      BY <3>1, <1>2 DEF Distinct
    <3> QED
      BY <3>2, <1>2
  <2>3. CASE i <= m /\ ~(j <= m)
    BY <2>3, <1>6, <1>7, <1>8
  <2>4. CASE ~(i <= m) /\ j <= m
    BY <2>4, <1>6, <1>7, <1>8
  <2> QED
    BY <2>1, <2>2, <2>3, <2>4
<1>9. Distinct(c)
  BY <1>5, <1>8 DEF Distinct
<1> QED
  BY <1>1, <1>9

\* The check of allocate_slots leaves enough free blocks once the hits are touched.
LEMMA EnoughBlocks ==
  ASSUME NEW k, ManagerOK(k), NEW r \in Req, NEW hits, HitsOK(k.pool, r, hits),
         NEW required \in Int, CanAllocate(k, r, hits, required)
  PROVE  /\ num_new_blocks(k, r, hits, required) \in Nat
         /\ num_new_blocks(k, r, hits, required) <= Len(touch_blocks(k.pool, hits).free_block_queue)
         /\ required <= Len(k.req_to_blocks[r]) + Len(hits) + num_new_blocks(k, r, hits, required)
<1>1. PICK p, d, l : p = k.pool /\ d = touch_blocks(p, hits) /\ l = k.req_to_blocks[r]
  OBVIOUS
<1>2. /\ PoolExact(p) /\ hits \in Seq(Blocks \ {NullBlock}) /\ Distinct(hits)
      /\ l \in Seq(Blocks \ {NullBlock})
  BY <1>1 DEF ManagerOK, ManagerShape, HitsOK
<1>3. PoolExact(d) /\ Members(d.free_block_queue) = Members(p.free_block_queue) \ Members(hits)
  BY <1>1, <1>2, TouchLoop
<1>4. PICK P, D, H : P = Members(p.free_block_queue) /\ D = Members(d.free_block_queue) /\ H = Members(hits)
  OBVIOUS
<1>5. IsFiniteSet(P) /\ Cardinality(P) = Len(p.free_block_queue) /\ Cardinality(D) = Len(d.free_block_queue)
  <2>1. p.free_block_queue \in Seq(Blocks) /\ Distinct(p.free_block_queue)
    BY <1>2, PoolFields DEF PoolExact
  <2>2. d.free_block_queue \in Seq(Blocks) /\ Distinct(d.free_block_queue)
    BY <1>3, PoolFields DEF PoolExact
  <2> QED
    BY <2>1, <2>2, <1>4, CardMembers
<1>6. num_evictable(k, hits) = Cardinality(P \cap H)
  <2>1. H \subseteq Blocks \ {NullBlock}
    BY <1>2, <1>4, MembersOf
  <2>2. {b \in H : p.ref_cnt[b] = 0 /\ b # NullBlock} = P \cap H
    BY <2>1, <1>2, <1>4 DEF PoolExact
  <2> QED
    BY <2>2, <1>1, <1>4 DEF num_evictable
<1>7. Cardinality(D) = Cardinality(P) - Cardinality(P \cap H)
  <2>1. D = P \ H
    BY <1>3, <1>4
  <2> QED
    BY <2>1, <1>5, FS_Difference
<1>8. Cardinality(D) \in Nat /\ Cardinality(P) \in Nat /\ Cardinality(P \cap H) \in Nat
  <2>1. D \in SUBSET P /\ P \cap H \in SUBSET P
    BY <1>3, <1>4
  <2>2. IsFiniteSet(D) /\ IsFiniteSet(P \cap H)
    BY <2>1, <1>5, FS_Subset
  <2> QED
    BY <2>2, <1>5, FS_CardinalityType
<1>9. PICK a, b \in Nat : a = Len(hits) /\ b = Len(l)
  BY <1>2, LenProperties
<1>10. required - a - b + Cardinality(P \cap H) <= Cardinality(P)
  BY <1>1, <1>5, <1>6, <1>9 DEF CanAllocate
<1>11. PICK n : n = num_new_blocks(k, r, hits, required)
  OBVIOUS
<1>12. n = IF required - a - b > 0 THEN required - a - b ELSE 0
  BY <1>1, <1>9, <1>11 DEF num_new_blocks
<1>13. n \in Nat /\ n <= Cardinality(D) /\ required <= b + a + n
  BY <1>7, <1>8, <1>10, <1>12
<1> QED
  BY <1>1, <1>5, <1>9, <1>11, <1>13

\* The manager with the hits and the new blocks saved to the list of the request.
Saved(k, r, hits, n) ==
  LET touched == touch_blocks(k.pool, hits)
      got == get_new_blocks(touched, n)
  IN [k EXCEPT !.pool = got.pool,
               !.req_to_blocks[r] = @ \o hits \o got.blocks,
               !.num_cached_block[r] = IF k.req_to_blocks[r] = << >> THEN Len(hits) ELSE @]

SavedAs(k, g, r, hits, n) ==
  /\ ManagerOK(g)
  /\ \A s \in Req \ {r} : /\ g.req_to_blocks[s] = k.req_to_blocks[s]
                          /\ g.num_cached_block[s] = k.num_cached_block[s]
  /\ Len(g.req_to_blocks[r]) = Len(k.req_to_blocks[r]) + Len(hits) + n
  /\ g.num_cached_block[r]
       = IF k.req_to_blocks[r] = << >> THEN Len(hits) ELSE k.num_cached_block[r]

LEMMA SavedOK ==
  ASSUME NEW k, ManagerOK(k), NEW r \in Req, NEW hits, HitsOK(k.pool, r, hits),
         hits = << >> \/ k.req_to_blocks[r] = << >>,
         NEW n \in Nat, n <= Len(touch_blocks(k.pool, hits).free_block_queue)
  PROVE  SavedAs(k, Saved(k, r, hits, n), r, hits, n)
<1> DEFINE NB == Blocks \ {NullBlock}
<1>a. PICK p, l, c, t : p = k.pool /\ l = k.req_to_blocks[r] /\ c = k.num_cached_block[r] /\ t = touch_blocks(p, hits)
  OBVIOUS
<1>b. PICK d, new : d = get_new_blocks(t, n).pool /\ new = get_new_blocks(t, n).blocks
  OBVIOUS
<1>g. PICK g : g = Saved(k, r, hits, n)
  OBVIOUS
<1>1. /\ DOMAIN k = ManagerFields /\ k.req_to_blocks \in [Req -> Seq(NB)]
      /\ k.num_cached_block \in [Req -> Nat] /\ k.block_hashes \in [Req -> Nat]
      /\ PoolExact(p) /\ l \in Seq(NB) /\ c \in Nat /\ ListOK(p, r, l, c)
  BY <1>a DEF ManagerOK, ManagerShape
<1>2. hits \in Seq(NB) /\ Distinct(hits) /\ HitsOK(p, r, hits)
  BY <1>a DEF HitsOK
<1>3. /\ PoolExact(t) /\ Counts(p, t, Members(hits), 1) /\ t.block_hash = p.block_hash
      /\ Members(t.free_block_queue) = Members(p.free_block_queue) \ Members(hits)
  BY <1>a, <1>1, <1>2, TouchLoop
<1>4. /\ PoolExact(d) /\ new \in Seq(NB) /\ Distinct(new) /\ Len(new) = n
      /\ Members(new) \subseteq Members(t.free_block_queue) /\ Counts(t, d, Members(new), 1)
      /\ d.block_hash = [b \in Blocks |-> IF b \in Members(new) THEN NoHash ELSE t.block_hash[b]]
  <2>0. PoolExact(t) /\ n <= Len(t.free_block_queue)
    BY <1>a, <1>3
  <2>1. /\ PoolExact(get_new_blocks(t, n).pool) /\ get_new_blocks(t, n).blocks \in Seq(NB)
        /\ Distinct(get_new_blocks(t, n).blocks) /\ Len(get_new_blocks(t, n).blocks) = n
        /\ Members(get_new_blocks(t, n).blocks) \subseteq Members(t.free_block_queue)
        /\ Counts(t, get_new_blocks(t, n).pool, Members(get_new_blocks(t, n).blocks), 1)
        /\ get_new_blocks(t, n).pool.block_hash
             = [b \in Blocks |-> IF b \in Members(get_new_blocks(t, n).blocks) THEN NoHash
                                 ELSE t.block_hash[b]]
    BY <2>0, NewLoop
  <2> QED
    BY <2>1, <1>b
\* The list the request had, or the hits; and how many of its blocks have hashes.
<1>5. PICK base, cc : base = l \o hits /\ cc = IF l = << >> THEN Len(hits) ELSE c
  OBVIOUS
<1>6. /\ base \in Seq(NB) /\ Members(base) = Members(l) \cup Members(hits)
      /\ Len(base) = Len(l) + Len(hits) /\ Len(base) \in Nat
      /\ cc \in Nat /\ ListOK(p, r, base, cc)
  <2>1. CASE l = << >>
    <3>1. base = hits /\ cc = Len(hits) /\ Members(l) = {} /\ Len(l) = 0 /\ Len(hits) \in Nat
      BY <2>1, <1>1, <1>2, <1>5, ConcatEmptySeq, MembersOf
    <3>2. ListOK(p, r, hits, Len(hits))
      BY <3>1, <1>2 DEF HitsOK, ListOK, HashAt
    <3> QED
      BY <3>1, <3>2, <1>2
  <2>2. CASE l # << >>
    <3>0. hits = << >>
      BY <2>2, <1>a
    <3>1. base = l /\ cc = c /\ Members(hits) = {} /\ Len(hits) = 0 /\ Len(l) \in Nat
      BY <2>2, <3>0, <1>1, <1>2, <1>5, ConcatEmptySeq, MembersOf
    <3> QED
      BY <3>1, <1>1
  <2> QED
    BY <2>1, <2>2
<1>7. PICK list : list = base \o new
  OBVIOUS
<1>8. /\ DOMAIN g = ManagerFields /\ g.pool = d /\ g.block_hashes = k.block_hashes
      /\ g.req_to_blocks = [k.req_to_blocks EXCEPT ![r] = list]
      /\ g.num_cached_block = [k.num_cached_block EXCEPT ![r] = cc]
  <2>1. g = [k EXCEPT !.pool = d, !.req_to_blocks = [k.req_to_blocks EXCEPT ![r] = list],
                      !.num_cached_block = [k.num_cached_block EXCEPT ![r] = cc]]
    BY <1>a, <1>b, <1>g, <1>5, <1>7 DEF Saved
  <2> QED
    BY <2>1, <1>1 DEF ManagerFields
\* The new blocks are nobody's.
<1>9. ASSUME NEW b \in Members(new) PROVE b \in NB /\ p.ref_cnt[b] = 0 /\ HoldersIn(k.req_to_blocks, b) = {}
                                          /\ b \notin Members(hits)
  <2>1. b \in NB /\ b \in Members(p.free_block_queue) /\ b \notin Members(hits)
    BY <1>3, <1>4, MembersOf
  <2>2. p.ref_cnt[b] = 0
    BY <2>1, <1>1 DEF PoolExact
  <2>3. HoldersIn(k.req_to_blocks, b) \in SUBSET Req
    BY DEF HoldersIn
  <2>4. Cardinality(HoldersIn(k.req_to_blocks, b)) = 0
    BY <2>1, <2>2, <1>a DEF ManagerOK, RefsExact
  <2> QED
    BY <2>1, <2>2, <2>3, <2>4, NoHolders
<1>10. \A s \in Req : Members(k.req_to_blocks[s]) \cap Members(new) = {}
  BY <1>9 DEF HoldersIn
<1>11. Members(base) \cap Members(new) = {}
  <2>1. Members(l) \cap Members(new) = {}
    BY <1>10, <1>a
  <2>2. Members(hits) \cap Members(new) = {}
    BY <1>9
  <2> QED
    BY <2>1, <2>2, <1>6
<1>12. /\ list \in Seq(NB) /\ Len(list) = Len(base) + n /\ Members(list) = Members(base) \cup Members(new)
       /\ \A i \in 1..Len(base) : list[i] = base[i]
       /\ \A i \in 1..n : list[Len(base) + i] = new[i]
  <2>0. base \in Seq(NB) /\ new \in Seq(NB)
    BY <1>4, <1>6
  <2> HIDE DEF NB
  <2>1. /\ base \o new \in Seq(NB) /\ Len(base \o new) = Len(base) + Len(new)
        /\ Members(base \o new) = Members(base) \cup Members(new)
        /\ \A i \in 1..Len(base) : (base \o new)[i] = base[i]
        /\ \A i \in 1..Len(new) : (base \o new)[Len(base) + i] = new[i]
    BY <2>0, Joined
  <2> QED
    BY <2>1, <1>4, <1>7
<1>13. Distinct(list)
  <2>1. Distinct(base)
    BY <1>6 DEF ListOK
  <2> QED
    BY <2>1, <1>4, <1>6, <1>7, <1>11, JoinedDistinct
<1>14. \A b \in Blocks : b \notin Members(new) => d.block_hash[b] = p.block_hash[b]
  BY <1>3, <1>4
<1>15. \A b \in Members(new) : d.block_hash[b] = NoHash
  BY <1>4, <1>9
<1>16. ListOK(d, r, list, cc)
  <2>1. cc <= Len(base) /\ cc * BlockSize <= Len(Tokens[r])
    BY <1>6 DEF ListOK
  <2>2. cc <= Len(list)
    BY <2>1, <1>6, <1>12
  <2>3. ASSUME NEW i \in 1..Len(list) PROVE d.block_hash[list[i]] = HashAt(r, i, cc)
    <3>1. CASE i <= Len(base)
      <4>1. i \in 1..Len(base)
        BY <3>1, <1>6
      <4>2. base[i] \in Blocks /\ base[i] \in Members(base)
        BY <4>1, <1>6, MembersOf
      <4>3. d.block_hash[base[i]] = p.block_hash[base[i]]
        BY <4>2, <1>11, <1>14
      <4> QED
        BY <4>1, <4>3, <1>6, <1>12 DEF ListOK
    <3>2. CASE ~(i <= Len(base))
      <4>1. i - Len(base) \in 1..n /\ Len(base) + (i - Len(base)) = i /\ ~(i <= cc)
        BY <3>2, <2>1, <1>6, <1>12
      <4>2. list[i] = new[i - Len(base)]
        BY <4>1, <1>12
      <4>3. list[i] \in Members(new)
        BY <4>1, <4>2, <1>4, MembersOf
      <4> QED
        BY <4>1, <4>3, <1>15 DEF HashAt
    <3> QED
      BY <3>1, <3>2
  <2> QED
    BY <2>1, <2>2, <2>3, <1>13 DEF ListOK
<1>17. \A s \in Req : /\ g.req_to_blocks[s] = IF s = r THEN list ELSE k.req_to_blocks[s]
                      /\ g.num_cached_block[s] = IF s = r THEN cc ELSE k.num_cached_block[s]
  BY <1>1, <1>8
<1>18. ManagerShape(g)
  <2>1. g.req_to_blocks \in [Req -> Seq(NB)]
    BY <1>1, <1>8, <1>12
  <2>2. g.num_cached_block \in [Req -> Nat]
    BY <1>1, <1>6, <1>8
  <2> QED
    BY <2>1, <2>2, <1>1, <1>8 DEF ManagerShape
<1>19. ASSUME NEW s \in Req PROVE ListOK(g.pool, s, g.req_to_blocks[s], g.num_cached_block[s])
  <2>1. CASE s = r
    BY <2>1, <1>8, <1>16, <1>17
  <2>2. CASE s # r
    <3>1. PICK m : m = k.req_to_blocks[s]
      OBVIOUS
    <3>2. m \in Seq(NB) /\ ListOK(p, s, m, k.num_cached_block[s])
      BY <3>1, <1>1, <1>a DEF ManagerOK
    <3>3. ASSUME NEW i \in 1..Len(m) PROVE d.block_hash[m[i]] = p.block_hash[m[i]]
      <4>1. m[i] \in NB /\ m[i] \in Members(m)
        BY <3>2, MembersOf
      <4> QED
        BY <4>1, <3>1, <1>10, <1>14
    <3>4. ListOK(d, s, m, k.num_cached_block[s])
      BY <3>2, <3>3 DEF ListOK
    <3> QED
      BY <3>1, <3>4, <2>2, <1>8, <1>17
  <2> QED
    BY <2>1, <2>2
<1>20. ASSUME NEW b \in NB, b \notin Members(hits), b \notin Members(new)
       PROVE  HoldersIn(g.req_to_blocks, b) = HoldersIn(k.req_to_blocks, b)
  BY <1>20, <1>6, <1>12, <1>17, <1>a DEF HoldersIn
<1>21. ASSUME NEW b \in NB, b \in Members(hits) \/ b \in Members(new)
       PROVE  /\ HoldersIn(g.req_to_blocks, b) = HoldersIn(k.req_to_blocks, b) \cup {r}
              /\ r \notin HoldersIn(k.req_to_blocks, b)
  <2>1. b \in Members(list)
    BY <1>21, <1>6, <1>12
  <2>2. r \notin HoldersIn(k.req_to_blocks, b)
    <3>1. CASE b \in Members(new)
      BY <3>1, <1>9
    <3>2. CASE b \in Members(hits)
      <4>1. hits # << >>
        BY <3>2, <1>2, MembersOf
      <4>2. Members(l) = {}
        BY <4>1, <1>a, <1>1, MembersOf
      <4> QED
        BY <4>2, <1>a DEF HoldersIn
    <3> QED
      BY <3>1, <3>2, <1>21
  <2> QED
    BY <2>1, <2>2, <1>17 DEF HoldersIn
<1>22. RefsExact(g.pool, g.req_to_blocks)
  <2> SUFFICES ASSUME NEW b \in NB PROVE d.ref_cnt[b] = Cardinality(HoldersIn(g.req_to_blocks, b))
    BY <1>8 DEF RefsExact
  <2>0. PICK H : H = HoldersIn(k.req_to_blocks, b)
    OBVIOUS
  <2>1. p.ref_cnt[b] = Cardinality(H) /\ H \in SUBSET Req /\ p.ref_cnt[b] \in Nat
    BY <2>0, <1>1, <1>a, PoolFields DEF ManagerOK, RefsExact, HoldersIn, PoolExact
  <2>2. /\ t.ref_cnt[b] = p.ref_cnt[b] + (IF b \in Members(hits) THEN 1 ELSE 0)
        /\ d.ref_cnt[b] = t.ref_cnt[b] + (IF b \in Members(new) THEN 1 ELSE 0)
    BY <1>3, <1>4 DEF Counts
  <2>3. CASE b \in Members(hits) \/ b \in Members(new)
    <3>1. HoldersIn(g.req_to_blocks, b) = H \cup {r} /\ r \in Req \ H
      BY <2>0, <2>3, <1>21
    <3>2. Cardinality(H \cup {r}) = Cardinality(H) + 1
      BY <3>1, <2>1, HolderJoins
    <3>3. d.ref_cnt[b] = p.ref_cnt[b] + 1
      BY <2>1, <2>2, <2>3, <1>9
    <3> QED
      BY <3>1, <3>2, <3>3, <2>1
  <2>4. CASE ~(b \in Members(hits) \/ b \in Members(new))
    <3>1. HoldersIn(g.req_to_blocks, b) = H
      BY <2>0, <2>4, <1>20
    <3> QED
      BY <3>1, <2>1, <2>2, <2>4
  <2> QED
    BY <2>3, <2>4
<1>23. HeldAlone(g.pool, g.req_to_blocks)
  <2> SUFFICES ASSUME NEW b \in NB, d.block_hash[b] = NoHash, NEW s \in Req, NEW u \in Req,
                      b \in Members(g.req_to_blocks[s]), b \in Members(g.req_to_blocks[u])
               PROVE  s = u
    BY <1>8 DEF HeldAlone
  <2>1. s \in HoldersIn(g.req_to_blocks, b) /\ u \in HoldersIn(g.req_to_blocks, b)
    BY DEF HoldersIn
  <2>2. CASE b \in Members(new)
    <3>1. HoldersIn(g.req_to_blocks, b) = {r}
      BY <2>2, <1>9, <1>21
    <3> QED
      BY <3>1, <2>1
  <2>3. CASE b \notin Members(new)
    <3>1. p.block_hash[b] = NoHash
      BY <2>3, <1>14
    <3>2. b \notin Members(hits)
      <4> SUFFICES ASSUME NEW i \in DOMAIN hits, b = hits[i] PROVE FALSE
        BY DEF Members
      <4>1. i \in 1..Len(hits)
        BY <1>2, LenProperties
      <4> QED
        BY <4>1, <3>1, <1>2, PoolAssumption DEF HitsOK
    <3>3. s \in HoldersIn(k.req_to_blocks, b) /\ u \in HoldersIn(k.req_to_blocks, b)
      BY <3>2, <2>1, <2>3, <1>20
    <3> QED
      BY <3>1, <3>3, <1>a DEF ManagerOK, HeldAlone, HoldersIn
  <2> QED
    BY <2>2, <2>3
<1>24. ManagerOK(g)
  BY <1>4, <1>8, <1>18, <1>19, <1>22, <1>23 DEF ManagerOK
<1>25. Len(g.req_to_blocks[r]) = Len(l) + Len(hits) + n
  BY <1>6, <1>12, <1>17
<1>26. SavedAs(k, g, r, hits, n)
  BY <1>a, <1>5, <1>17, <1>24, <1>25 DEF SavedAs
<1> QED
  BY <1>g, <1>26

LEMMA TimesMonotone ==
  ASSUME NEW a \in Nat, NEW b \in Nat, a <= b, NEW s \in Nat
  PROVE  a * s <= b * s /\ a * s \in Nat /\ b * s \in Nat /\ b * s = s * b
<1>1. PICK d \in Nat : b = a + d
  <2>1. b - a \in Nat /\ b = a + (b - a)
    OBVIOUS
  <2> QED
    BY <2>1
<1>2. b * s = a * s + d * s
  BY <1>1
<1>3. a * s \in Nat /\ d * s \in Nat
  OBVIOUS
<1> QED
  BY <1>2, <1>3

LEMMA TimesInjective ==
  ASSUME NEW a \in Nat, NEW b \in Nat, NEW s \in Nat \ {0}, a * s = b * s
  PROVE  a = b
<1>1. ASSUME NEW x \in Nat, NEW y \in Nat, x < y PROVE x * s < y * s
  <2>1. PICK d \in Nat : y = x + 1 + d
    <3>1. y - x - 1 \in Nat /\ y = x + 1 + (y - x - 1)
      BY <1>1
    <3> QED
      BY <3>1
  <2>2. y * s = x * s + s + d * s
    BY <2>1
  <2>3. x * s \in Nat /\ d * s \in Nat
    OBVIOUS
  <2> QED
    BY <2>2, <2>3
<1>2. a * s \in Nat /\ b * s \in Nat
  OBVIOUS
<1> QED
  BY <1>1, <1>2

\* Enough blocks for m tokens.
LEMMA RoundedUp ==
  ASSUME NEW m \in Nat
  PROVE  cdiv(m, BlockSize) \in Nat /\ m <= cdiv(m, BlockSize) * BlockSize
<1>0. BlockSize \in Nat \ {0}
  BY ManagerAssumption
<1>1. PICK x \in Nat : x = m + BlockSize - 1
  BY <1>0
<1>2. PICK d : d = x \div BlockSize
  OBVIOUS
<1>3. d \in Nat /\ x < (d + 1) * BlockSize
  BY <1>2, WholeBlocks
<1>4. (d + 1) * BlockSize = d * BlockSize + BlockSize /\ d * BlockSize \in Nat
  BY <1>0, <1>3
<1>5. m <= d * BlockSize
  BY <1>0, <1>1, <1>3, <1>4
<1> QED
  BY <1>1, <1>2, <1>3, <1>5 DEF cdiv

\* How many blocks of the list have hashes before allocate_slots hashes more.
Hashed(k, r, hits) == IF k.req_to_blocks[r] = << >> THEN Len(hits) ELSE k.num_cached_block[r]

\* What allocate_slots makes of a manager: the list of the request has room for all its
\* tokens, and the blocks that are full without the drafts have their hashes.
AllocAs(k, g, r, hits, tokens, draft, delay) ==
  /\ ManagerOK(g)
  /\ \A s \in Req \ {r} : /\ g.req_to_blocks[s] = k.req_to_blocks[s]
                          /\ g.num_cached_block[s] = k.num_cached_block[s]
  /\ tokens <= BlockSize * Len(g.req_to_blocks[r])
  /\ g.num_cached_block[r] = IF EnableCaching /\ ~delay THEN (tokens - draft) \div BlockSize
                             ELSE Hashed(k, r, hits)

\* allocate_slots, when CanAllocate holds.
LEMMA AllocOK ==
  ASSUME NEW k, ManagerOK(k), NEW r \in Req, NEW hits, HitsOK(k.pool, r, hits),
         hits = << >> \/ k.req_to_blocks[r] = << >>,
         NEW computed \in Nat, NEW new \in Nat, NEW lookahead \in Nat, NEW draft \in Nat,
         NEW delay \in BOOLEAN,
         CanAllocate(k, r, hits, num_required_blocks(computed, new, lookahead)),
         computed + new <= MaxModelLen, draft <= computed + new,
         EnableCaching /\ ~delay =>
           /\ computed + new - draft <= Len(Tokens[r])
           /\ Hashed(k, r, hits) * BlockSize <= computed + new - draft
  PROVE  AllocAs(k, allocate_slots(k, r, hits, computed, new, draft, lookahead, delay),
                 r, hits, computed + new, draft, delay)
<1>g. PICK g : g = allocate_slots(k, r, hits, computed, new, draft, lookahead, delay)
  OBVIOUS
<1>0. BlockSize \in Nat \ {0} /\ MaxModelLen \in Nat \ {0}
  BY ManagerAssumption
<1>1. PICK m \in Nat : m = AtMost(computed + new + lookahead, MaxModelLen) /\ computed + new <= m
  BY <1>0 DEF AtMost
<1>2. PICK required \in Nat : /\ required = num_required_blocks(computed, new, lookahead)
                              /\ m <= required * BlockSize
  BY <1>1, RoundedUp DEF num_required_blocks
<1>3. PICK n \in Nat : /\ n = num_new_blocks(k, r, hits, required)
                       /\ n <= Len(touch_blocks(k.pool, hits).free_block_queue)
                       /\ required <= Len(k.req_to_blocks[r]) + Len(hits) + n
  <2>1. required \in Int /\ CanAllocate(k, r, hits, required)
    BY <1>2
  <2> QED
    BY <2>1, EnoughBlocks
<1>4. PICK s : s = Saved(k, r, hits, n)
  OBVIOUS
<1>5. g = IF EnableCaching /\ ~delay THEN cache_blocks(s, r, computed + new - draft) ELSE s
  BY <1>g, <1>2, <1>3, <1>4 DEF allocate_slots, Saved
<1>6. /\ ManagerOK(s)
      /\ \A q \in Req \ {r} : /\ s.req_to_blocks[q] = k.req_to_blocks[q]
                              /\ s.num_cached_block[q] = k.num_cached_block[q]
      /\ Len(s.req_to_blocks[r]) = Len(k.req_to_blocks[r]) + Len(hits) + n
      /\ s.num_cached_block[r] = Hashed(k, r, hits)
  <2>0. n \in Nat /\ n <= Len(touch_blocks(k.pool, hits).free_block_queue)
    BY <1>3
  <2>1. SavedAs(k, Saved(k, r, hits, n), r, hits, n)
    BY <2>0, SavedOK
  <2> QED
    BY <2>1, <1>4 DEF Hashed, SavedAs
<1>7. PICK l \in Nat : l = Len(s.req_to_blocks[r])
  <2>1. s.req_to_blocks[r] \in Seq(Blocks \ {NullBlock})
    BY <1>6 DEF ManagerOK, ManagerShape
  <2> QED
    BY <2>1, LenProperties
<1>8. computed + new <= BlockSize * l
  <2>1. required <= l
    BY <1>3, <1>6, <1>7
  <2>2. required * BlockSize <= l * BlockSize /\ required * BlockSize \in Nat /\ l * BlockSize \in Nat
        /\ l * BlockSize = BlockSize * l
    BY <2>1, <1>0, TimesMonotone
  <2> QED
    BY <2>2, <1>1, <1>2
<1>9. CASE ~(EnableCaching /\ ~delay)
  BY <1>5, <1>6, <1>7, <1>8, <1>9, <1>g DEF AllocAs
<1>10. CASE EnableCaching /\ ~delay
  <2>1. PICK t \in Nat : t = computed + new - draft
    OBVIOUS
  <2>2. t <= l * BlockSize /\ t <= Len(Tokens[r])
    BY <2>1, <1>0, <1>8, <1>10
  <2>3. t \div BlockSize <= l
    <3>1. PICK d : d = t \div BlockSize
      OBVIOUS
    <3>2. d \in Nat /\ d * BlockSize <= t
      BY <3>1, WholeBlocks
    <3>3. ASSUME ~(d <= l) PROVE FALSE
      <4>1. (l + 1) * BlockSize <= d * BlockSize
        BY <3>2, <3>3, <1>0
      <4>2. (l + 1) * BlockSize = l * BlockSize + BlockSize /\ l * BlockSize \in Nat /\ d * BlockSize \in Nat
        BY <3>2, <1>0
      <4> QED
        BY <4>1, <4>2, <3>2, <2>2, <1>0
    <3> QED
      BY <3>1, <3>2, <3>3
  <2>4. s.num_cached_block[r] \in Nat
    BY <1>6 DEF ManagerOK, ManagerShape
  <2>5. s.num_cached_block[r] <= t \div BlockSize
    <3>1. PICK a \in Int : a = s.num_cached_block[r]
      BY <2>4
    <3>2. a * BlockSize <= t
      BY <3>1, <2>1, <1>6, <1>10
    <3> QED
      BY <3>1, <3>2, BlocksFit
  <2>6. /\ ManagerOK(cache_blocks(s, r, t))
        /\ cache_blocks(s, r, t).req_to_blocks = s.req_to_blocks
        /\ cache_blocks(s, r, t).num_cached_block
             = [s.num_cached_block EXCEPT ![r] = t \div BlockSize]
    <3>1. t \div BlockSize <= Len(s.req_to_blocks[r])
      BY <2>3, <1>7
    <3> QED
      BY <3>1, <2>2, <2>5, <1>6, <1>10, CacheBlocksOK
  <2>7. g = cache_blocks(s, r, t)
    BY <2>1, <1>5, <1>10
  <2>8. s.num_cached_block \in [Req -> Nat]
    BY <1>6 DEF ManagerOK, ManagerShape
  <2>9. /\ g.num_cached_block[r] = t \div BlockSize
        /\ \A q \in Req \ {r} : g.num_cached_block[q] = s.num_cached_block[q]
    BY <2>6, <2>7, <2>8
  <2> QED
    BY <2>1, <2>6, <2>7, <2>9, <1>6, <1>7, <1>8, <1>10, <1>g DEF AllocAs
<1> QED
  BY <1>9, <1>10

-----------------------------------------------------------------------------
(* The engine: requests and manager keep step. *)

-----------------------------------------------------------------------------
\* The requests and the KV cache manager.  While schedule() runs, the tokens it has
\* scheduled count as computed; the drafts among the tokens in flight are doubtful
\* until the answer is applied.
SchedPhase == call.phase \in {"running", "waiting", "finish"}
Counted(r) == IF SchedPhase THEN call.output.num_scheduled_tokens[r] ELSE 0
Doubtful(r) ==
  IF SchedPhase \/ call.phase = "execute" \/ (call.phase = "update" /\ r \in StillToCome)
  THEN call.output.spec[r] ELSE 0

\* A running request: its hashed blocks hold tokens that are computed and certain, and
\* its blocks have room for all tokens in flight.
RunsWell(nt, n, spec, list, c) ==
  /\ c * BlockSize <= n - spec /\ n - spec <= nt
  /\ n <= BlockSize * Len(list)
\* A waiting one: only if it has received blocks does it hold any.
WaitsWell(nt, nc, list, c) ==
  /\ c * BlockSize <= nc /\ nc <= nt
  /\ nc = 0 => list = << >> \/ nt = 1
Fits(r, st, nt, nc, n, spec, list, c) ==
  /\ nt \in 1..LengthCap(r) /\ nc \in Nat
  /\ st = "RUNNING" => RunsWell(nt, n, spec, list, c)
  /\ st = "WAITING_FOR_REMOTE_KVS" => c * BlockSize <= nt - 1
  /\ st \in {"WAITING", "WAITING_FOR_FSM", "PREEMPTED"} => WaitsWell(nt, nc, list, c)
  /\ st \in {"NEW", "PREEMPTED", "WAITING_FOR_FSM"} => list = << >>
  /\ st = "NEW" => nc = 0
  /\ st = "WAITING" /\ list # << >> => r \in RemotePrefill
  /\ st = "FINISHED" /\ list # << >> => r \in RemoteDecode
Progress(r) ==
  /\ req[r].spec_token_ids \in 0..NumSpecTokens
  /\ Fits(r, req[r].status, req[r].num_tokens, req[r].num_computed_tokens,
          req[r].num_computed_tokens + Counted(r), Doubtful(r),
          kvm.req_to_blocks[r], kvm.num_cached_block[r])

\* The other requests keep their lists of blocks.
ListKept(q) ==
  /\ kvm'.req_to_blocks[q] = kvm.req_to_blocks[q]
  /\ kvm'.num_cached_block[q] = kvm.num_cached_block[q]
OthersKeep(r) == \A q \in Req \ {r} : ListKept(q)

\* The scheduler outputs: in the call, and in flight.
OutputGood(o) ==
  /\ OutputShape(o) /\ DOMAIN o.spec = Req
  /\ \A r \in Req :
       /\ o.num_scheduled_tokens[r] \in Nat /\ o.spec[r] \in 0..NumSpecTokens
       /\ o.spec[r] > 0 => o.num_scheduled_tokens[r] > 0 /\ Samples(o, r)
Phases == {"idle", "running", "waiting", "finish", "execute", "update"}
QueueGood(q) == \E S : q \in Seq(S) /\ \A o \in S : OutputGood(o)
OutsOK ==
  /\ call.phase \in Phases
  /\ OutputGood(call.output)
  /\ call.phase = "running" => \A r \in StillToCome : call.output.num_scheduled_tokens[r] = 0
  /\ SchedPhase =>
       /\ call.token_budget \in Nat
       /\ \A r \in Req : req[r].status # "RUNNING" => call.output.num_scheduled_tokens[r] = 0
  /\ call.phase = "execute" => call.req_index = 1
  /\ call.finished_sending \subseteq Req
  /\ QueueGood(batch_queue)

Modelled == (MaxConcurrentBatches = 1 \/ NumSpecTokens = 0) /\ (EnableCaching \/ RemotePrefill = {})
EngineInv == ManagerOK(kvm) /\ (\A r \in Req : Progress(r)) /\ OutsOK

-----------------------------------------------------------------------------
\* No request outgrows its length, which its tokens and the model allow.
LEMMA CapBounds ==
  ASSUME NEW r \in Req
  PROVE  /\ LengthCap(r) \in Nat /\ LengthCap(r) <= MaxModelLen
         /\ LengthCap(r) <= Len(Tokens[r]) /\ PromptLen[r] \in 1..LengthCap(r)
         /\ MaxModelLen \in Nat \ {0} /\ BlockSize \in Nat \ {0} /\ NumSpecTokens \in Nat
         /\ Len(Tokens[r]) \in Nat
  BY SchedulerAssumption, ManagerAssumption, TokensLen DEF LengthCap, AtMost

\* A request without blocks has none with a hash.
LEMMA NoneHashed ==
  ASSUME NEW k, ManagerOK(k), NEW r \in Req
  PROVE  /\ k.num_cached_block[r] \in Nat /\ k.num_cached_block[r] <= Len(k.req_to_blocks[r])
         /\ Len(k.req_to_blocks[r]) \in Nat /\ k.req_to_blocks[r] \in Seq(Blocks \ {NullBlock})
         /\ k.req_to_blocks[r] = << >> => k.num_cached_block[r] = 0
         /\ k.req_to_blocks[r] # << >> => Len(k.req_to_blocks[r]) > 0
<1>1. /\ k.num_cached_block[r] \in Nat /\ k.num_cached_block[r] <= Len(k.req_to_blocks[r])
      /\ k.req_to_blocks[r] \in Seq(Blocks \ {NullBlock})
  BY DEF ManagerOK, ManagerShape, ListOK
<1>2. PICK l : l = k.req_to_blocks[r]
  OBVIOUS
<1>3. l \in Seq(Blocks \ {NullBlock}) /\ (l # << >> => Len(l) > 0) /\ Len(l) \in Nat
  BY <1>1, <1>2
<1>4. l = << >> => Len(l) = 0
  OBVIOUS
<1> QED
  BY <1>1, <1>2, <1>3, <1>4

\* A request that a step leaves alone.
LEMMA ProgressKept ==
  ASSUME NEW r, Progress(r), req'[r] = req[r],
         kvm'.req_to_blocks[r] = kvm.req_to_blocks[r],
         kvm'.num_cached_block[r] = kvm.num_cached_block[r],
         req[r].status = "RUNNING" => Counted(r)' = Counted(r) /\ Doubtful(r)' = Doubtful(r)
  PROVE  Progress(r)'
<1>1. PICK q, l, c, a, b, aa, bb :
        /\ q = req[r] /\ l = kvm.req_to_blocks[r] /\ c = kvm.num_cached_block[r]
        /\ a = Counted(r) /\ b = Doubtful(r) /\ aa = Counted(r)' /\ bb = Doubtful(r)'
  OBVIOUS
<1>2. /\ q.spec_token_ids \in 0..NumSpecTokens
      /\ Fits(r, q.status, q.num_tokens, q.num_computed_tokens, q.num_computed_tokens + a, b, l, c)
      /\ q.status = "RUNNING" => aa = a /\ bb = b
  BY <1>1 DEF Progress
<1>3. Fits(r, q.status, q.num_tokens, q.num_computed_tokens, q.num_computed_tokens + aa, bb, l, c)
  BY <1>2 DEF Fits
<1> QED
  BY <1>1, <1>2, <1>3 DEF Progress

LEMMA GoodOutput ==
  ASSUME NEW o, OutputGood(o)
  PROVE  /\ OutputShape(o)
         /\ \A r \in Req : /\ o.num_scheduled_tokens[r] \in Nat /\ o.spec[r] \in 0..NumSpecTokens
                           /\ o.spec[r] \in Nat
                           /\ o.spec[r] > 0 => o.num_scheduled_tokens[r] > 0 /\ Samples(o, r)
                           /\ o.num_scheduled_tokens[r] = 0 => o.spec[r] = 0
                           /\ NumSpecTokens = 0 => o.spec[r] = 0
<1>1. NumSpecTokens \in Nat
  BY SchedulerAssumption
<1> QED
  BY <1>1 DEF OutputGood

LEMMA NoOutputGood == OutputGood(NoOutput)
<1>1. NoOutput.spec = NoTokens /\ NoOutput.num_scheduled_tokens = NoTokens
  BY DEF NoOutput
<1>2. DOMAIN NoTokens = Req /\ \A r \in Req : NoTokens[r] = 0
  BY DEF NoTokens
<1>3. NumSpecTokens \in Nat
  BY SchedulerAssumption
<1> QED
  BY <1>1, <1>2, <1>3, EmptyOutput DEF OutputGood

\* The batches in flight.
LEMMA QueueGoodSteps ==
  ASSUME NEW q, QueueGood(q)
  PROVE  /\ q # << >> => OutputGood(Head(q)) /\ QueueGood(Tail(q)) /\ Len(Tail(q)) = Len(q) - 1
         /\ Len(q) \in Nat
         /\ \A o : OutputGood(o) => QueueGood(Append(q, o)) /\ Len(Append(q, o)) = Len(q) + 1
<1>1. PICK S : q \in Seq(S) /\ \A o \in S : OutputGood(o)
  BY DEF QueueGood
<1>2. Len(q) \in Nat
  BY <1>1
<1>3. ASSUME q # << >> PROVE OutputGood(Head(q)) /\ QueueGood(Tail(q)) /\ Len(Tail(q)) = Len(q) - 1
  <2>1. Head(q) \in S /\ Tail(q) \in Seq(S) /\ Len(Tail(q)) = Len(q) - 1
    BY <1>1, <1>3
  <2> QED
    BY <2>1, <1>1 DEF QueueGood
<1>4. ASSUME NEW o, OutputGood(o)
      PROVE  QueueGood(Append(q, o)) /\ Len(Append(q, o)) = Len(q) + 1
  <2>1. PICK T : T = S \cup {o}
    OBVIOUS
  <2>2. q \in Seq(T) /\ o \in T /\ \A x \in T : OutputGood(x)
    <3>1. \A i \in 1..Len(q) : q[i] \in T
      BY <1>1, <2>1
    <3>2. q \in [1..Len(q) -> T]
      BY <3>1, <1>1
    <3> QED
      BY <3>2, <1>1, <1>2, <1>4, <2>1, IsASeq
  <2>3. Append(q, o) \in Seq(T) /\ Len(Append(q, o)) = Len(q) + 1
    BY <2>2
  <2> QED
    BY <2>2, <2>3 DEF QueueGood
<1> QED
  BY <1>2, <1>3, <1>4

LEMMA EngineInit == Init => EngineInv
<1> SUFFICES ASSUME Init PROVE EngineInv
  OBVIOUS
<1>1. /\ req = [r \in Req |-> [status |-> "NEW", num_tokens |-> PromptLen[r],
                           num_computed_tokens |-> 0, spec_token_ids |-> 0]]
      /\ kvm = InitManager /\ call = NoCall /\ batch_queue = << >>
  BY DEF Init, SchedulerInit
<1>2. call.phase = "idle" /\ call.output = NoOutput /\ call.finished_sending = {}
  BY <1>1 DEF NoCall
<1>3. ManagerOK(kvm)
  BY <1>1, InitManagerOK
<1>4. QueueGood(batch_queue)
  <2>1. PICK S : S = {NoOutput}
    OBVIOUS
  <2>2. << >> \in Seq(S) /\ \A o \in S : OutputGood(o)
    BY <2>1, NoOutputGood
  <2> QED
    BY <2>2, <1>1 DEF QueueGood
<1>5. OutsOK
  BY <1>2, <1>4, NoOutputGood DEF OutsOK, Phases, SchedPhase
<1>6. ASSUME NEW r \in Req PROVE Progress(r)
  <2>1. kvm.req_to_blocks[r] = << >> /\ kvm.num_cached_block[r] = 0
    BY <1>1 DEF InitManager
  <2>2. req[r].status = "NEW" /\ req[r].num_tokens = PromptLen[r] /\ req[r].num_computed_tokens = 0
        /\ req[r].spec_token_ids = 0
    BY <1>1
  <2>3. PromptLen[r] \in 1..LengthCap(r) /\ NumSpecTokens \in Nat
    BY CapBounds
  <2> QED
    BY <2>1, <2>2, <2>3 DEF Progress, Fits
<1> QED
  BY <1>3, <1>5, <1>6 DEF EngineInv

\* Steps that change neither the requests nor the manager.
LEMMA EngineFrame ==
  ASSUME EngineInv, UNCHANGED <<req, running, kvm, call, batch_queue>> PROVE EngineInv'
  BY DEF EngineInv, Progress, Counted, Doubtful, SchedPhase, StillToCome, OutsOK

LEMMA EngineAdd ==
  ASSUME QueueInv, EngineInv, NEW r \in Req, AddRequest(r) PROVE EngineInv'
<1>1. PICK v : v = IF r \in Guided THEN "WAITING_FOR_FSM" ELSE "WAITING"
  OBVIOUS
<1>2. /\ req' = [req EXCEPT ![r].status = v] /\ v \in {"WAITING", "WAITING_FOR_FSM"}
      /\ UNCHANGED <<running, kvm, call, batch_queue>>
      /\ call.phase = "idle" /\ req[r].status = "NEW"
  BY <1>1 DEF AddRequest, add_request
<1>3. /\ \A q \in Req : q # r => req'[q] = req[q]
      /\ req'[r].status = v /\ req'[r].num_tokens = req[r].num_tokens
      /\ req'[r].num_computed_tokens = req[r].num_computed_tokens
      /\ req'[r].spec_token_ids = req[r].spec_token_ids
  BY <1>2 DEF QueueInv, Shapes, ReqFields
<1>4. OutsOK'
  BY <1>2 DEF EngineInv, OutsOK, SchedPhase
<1>5. \A q : Counted(q)' = 0 /\ Doubtful(q)' = 0 /\ Counted(q) = 0 /\ Doubtful(q) = 0
  BY <1>2 DEF Counted, Doubtful, SchedPhase
<1>6. ASSUME NEW q \in Req, q # r PROVE Progress(q)'
  BY <1>2, <1>3, <1>5, <1>6, ProgressKept DEF EngineInv
<1>7. Progress(r)'
  <2>1. PICK l, c, nt, nc : /\ l = kvm.req_to_blocks[r] /\ c = kvm.num_cached_block[r]
                            /\ nt = req[r].num_tokens /\ nc = req[r].num_computed_tokens
    OBVIOUS
  <2>2. Fits(r, "NEW", nt, nc, nc + 0, 0, l, c)
    BY <2>1, <1>2, <1>5 DEF EngineInv, Progress
  <2>3. l = << >> /\ nc = 0 /\ nt \in 1..LengthCap(r)
    BY <2>2 DEF Fits
  <2>4. c = 0 /\ BlockSize \in Nat
    BY <2>1, <2>3, NoneHashed, CapBounds DEF EngineInv
  <2>5. WaitsWell(nt, nc, l, c)
    BY <2>3, <2>4, CapBounds DEF WaitsWell
  <2>6. Fits(r, v, nt, nc, nc + 0, 0, l, c)
    BY <2>3, <2>5, <1>2 DEF Fits
  <2> QED
    BY <2>1, <2>6, <1>2, <1>3, <1>5 DEF Progress, EngineInv
<1> QED
  BY <1>2, <1>4, <1>6, <1>7 DEF EngineInv

\* The blocks of a request are freed: what that leaves.
FreedOf(k, g, r) ==
  /\ ManagerOK(g) /\ g.req_to_blocks[r] = << >> /\ g.num_cached_block[r] = 0
  /\ \A q \in Req \ {r} : /\ g.req_to_blocks[q] = k.req_to_blocks[q]
                          /\ g.num_cached_block[q] = k.num_cached_block[q]
LEMMA FreedAsOK ==
  ASSUME NEW k, ManagerOK(k), NEW r \in Req
  PROVE  FreedOf(k, free(k, r), r) /\ FreedOf(k, free_block_hashes(free(k, r), r), r)
<1>1. k.req_to_blocks \in [Req -> Seq(Blocks \ {NullBlock})] /\ k.num_cached_block \in [Req -> Nat]
  BY DEF ManagerOK, ManagerShape
<1>g. PICK f, g : f = free(k, r) /\ g = free_block_hashes(free(k, r), r)
  OBVIOUS
<1>2. FreedOf(k, f, r)
  <2>1. /\ ManagerOK(f) /\ f.req_to_blocks = [k.req_to_blocks EXCEPT ![r] = << >>]
        /\ f.num_cached_block = [k.num_cached_block EXCEPT ![r] = 0]
    BY <1>g, FreeOK
  <2> QED
    BY <2>1, <1>1 DEF FreedOf
<1>3. FreedOf(k, g, r)
  <2>1. /\ ManagerOK(g) /\ g.req_to_blocks = [k.req_to_blocks EXCEPT ![r] = << >>]
        /\ g.num_cached_block = [k.num_cached_block EXCEPT ![r] = 0]
    BY <1>g, FreedOK
  <2> QED
    BY <2>1, <1>1 DEF FreedOf
<1> QED
  BY <1>2, <1>3, <1>g

\* A request that holds no blocks after it is finished.
LEMMA FinishedFits ==
  ASSUME NEW r, NEW nt \in 1..LengthCap(r), NEW nc \in Nat, NEW n, NEW spec, NEW l, NEW c,
         l = << >> \/ r \in RemoteDecode
  PROVE  Fits(r, "FINISHED", nt, nc, n, spec, l, c)
  BY DEF Fits

LEMMA EngineAbort ==
  ASSUME QueueInv, EngineInv, NEW r \in Req, AbortRequest(r)
  PROVE  EngineInv' /\ OthersKeep(r)
<1>2. /\ req' = [req EXCEPT ![r].status = "FINISHED"]
      /\ kvm' = free_block_hashes(free(kvm, r), r)
      /\ call' = call /\ batch_queue' = batch_queue /\ call.phase = "idle"
  BY DEF AbortRequest, finish_requests, free_request, FreedManager
<1>3. /\ \A q \in Req : q # r => req'[q] = req[q]
      /\ req'[r].status = "FINISHED" /\ req'[r].num_tokens = req[r].num_tokens
      /\ req'[r].num_computed_tokens = req[r].num_computed_tokens
      /\ req'[r].spec_token_ids = req[r].spec_token_ids
  BY <1>2 DEF QueueInv, Shapes, ReqFields
<1>4. OutsOK'
  BY <1>2 DEF EngineInv, OutsOK, SchedPhase
<1>5. \A q : Counted(q)' = 0 /\ Doubtful(q)' = 0 /\ Counted(q) = 0 /\ Doubtful(q) = 0
  BY <1>2 DEF Counted, Doubtful, SchedPhase
<1>6. FreedOf(kvm, kvm', r)
  BY <1>2, FreedAsOK DEF EngineInv
<1>7. ASSUME NEW q \in Req, q # r PROVE Progress(q)'
  BY <1>3, <1>5, <1>6, <1>7, ProgressKept DEF EngineInv, FreedOf
<1>8. Progress(r)'
  <2>1. /\ req[r].num_tokens \in 1..LengthCap(r) /\ req[r].num_computed_tokens \in Nat
        /\ req[r].spec_token_ids \in 0..NumSpecTokens
    BY DEF EngineInv, Progress, Fits
  <2> QED
    BY <2>1, <1>3, <1>6, FinishedFits DEF Progress, FreedOf
<1> QED
  BY <1>4, <1>6, <1>7, <1>8 DEF EngineInv, FreedOf, OthersKeep, ListKept

LEMMA EngineReset ==
  ASSUME QueueInv, EngineInv, ResetPrefixCache PROVE EngineInv'
<1>1. /\ kvm' = [kvm EXCEPT !.pool = reset_prefix_cache(@)] /\ CanReset(kvm.pool)
      /\ UNCHANGED <<req, running, call, batch_queue>>
  BY DEF ResetPrefixCache
<1>2. /\ ManagerOK(kvm') /\ kvm'.req_to_blocks = kvm.req_to_blocks
      /\ kvm'.num_cached_block = kvm.num_cached_block
  BY <1>1, ResetOK DEF EngineInv
<1> QED
  BY <1>1, <1>2
  DEF EngineInv, Progress, Counted, Doubtful, SchedPhase, StillToCome, OutsOK

LEMMA EngineStepSchedules ==
  ASSUME QueueInv, EngineInv, StepSchedules PROVE EngineInv'
<1>1. /\ UNCHANGED <<req, running, kvm, batch_queue>> /\ call.phase = "idle"
      /\ call' = [NoCall EXCEPT !.phase = "running", !.token_budget = MaxNumScheduledTokens,
                                !.encoder_budget = MaxNumEncoderInputTokens]
  BY DEF StepSchedules, BeginSchedule
<1>2. /\ call'.phase = "running" /\ call'.token_budget = MaxNumScheduledTokens
      /\ call'.output = NoOutput /\ call'.finished_sending = {} /\ call'.req_index = 1
  BY <1>1 DEF NoCall
<1>3. /\ \A r \in Req : NoOutput.num_scheduled_tokens[r] = 0 /\ NoOutput.spec[r] = 0
  BY NoOutputGood, GoodOutput, EmptyOutput
<1>4. StillToCome' \subseteq Req
  BY <1>1, <1>2, RestAreRequests DEF QueueInv, Control, StillToCome
<1>5. OutsOK'
  BY <1>1, <1>2, <1>3, <1>4, NoOutputGood, SchedulerAssumption
  DEF OutsOK, Phases, SchedPhase, EngineInv
<1>6. ASSUME NEW r \in Req PROVE Progress(r)'
  <2>1. Counted(r)' = 0 /\ Doubtful(r)' = 0 /\ Counted(r) = 0 /\ Doubtful(r) = 0
    BY <1>1, <1>2, <1>3 DEF Counted, Doubtful, SchedPhase
  <2> QED
    BY <2>1, <1>1, ProgressKept DEF EngineInv
<1> QED
  BY <1>1, <1>5, <1>6 DEF EngineInv

\* Steps of schedule() that leave the output as it is: one request may change that is
\* not scheduled.
LEMMA EngineKept ==
  ASSUME QueueInv, EngineInv, call.phase \in {"running", "waiting"},
         call'.phase \in {"running", "waiting", "finish"}, call'.output = call.output,
         call'.token_budget = call.token_budget, call'.finished_sending = call.finished_sending,
         UNCHANGED batch_queue, ManagerOK(kvm'), NEW T \in SUBSET Req,
         \A q \in Req \ T : /\ req'[q] = req[q]
                            /\ kvm'.req_to_blocks[q] = kvm.req_to_blocks[q]
                            /\ kvm'.num_cached_block[q] = kvm.num_cached_block[q],
         \A q \in T : Progress(q)' /\ call.output.num_scheduled_tokens[q] = 0,
         call'.phase = "running" => call.phase = "running" /\ StillToCome' \subseteq StillToCome
  PROVE  EngineInv'
<1>1. SchedPhase /\ SchedPhase' /\ call.phase \in Phases /\ call'.phase \in Phases
  BY DEF SchedPhase, Phases
<1>2. \A q : Counted(q)' = Counted(q) /\ Doubtful(q)' = Doubtful(q)
  BY <1>1 DEF Counted, Doubtful
<1>3. ASSUME NEW q \in Req, q \notin T PROVE Progress(q)'
  BY <1>2, <1>3, ProgressKept DEF EngineInv
<1>4. \A q \in Req : req'[q].status # "RUNNING" => call'.output.num_scheduled_tokens[q] = 0
  BY <1>1 DEF EngineInv, OutsOK
<1>5. OutsOK'
  BY <1>1, <1>4 DEF EngineInv, OutsOK
<1> QED
  BY <1>3, <1>5 DEF EngineInv

LEMMA EngineSkipRunning ==
  ASSUME QueueInv, EngineInv, SkipRunning, UNCHANGED batch_queue PROVE EngineInv'
<1>1. /\ UNCHANGED <<req, running, kvm, batch_queue>> /\ call.phase = "running"
      /\ call' = [call EXCEPT !.req_index = @ + 1]
  BY DEF SkipRunning, InRunningLoop
<1>2. /\ call'.phase = "running" /\ call'.output = call.output
      /\ call'.req_index = call.req_index + 1 /\ call'.token_budget = call.token_budget
      /\ call'.finished_sending = call.finished_sending
  BY <1>1 DEF CallFields, QueueInv, Shapes
<1>3. StillToCome' \subseteq StillToCome
  BY <1>1, <1>2, RestShrinks DEF StillToCome, QueueInv, Control
<1>4. PICK T : T = {}
  OBVIOUS
<1> QED
  BY <1>1, <1>2, <1>3, <1>4, EngineKept DEF EngineInv

LEMMA EngineRunningLoopEnds ==
  ASSUME QueueInv, EngineInv, RunningLoopEnds, UNCHANGED batch_queue PROVE EngineInv'
<1>1. /\ UNCHANGED <<req, running, kvm>> /\ call.phase = "running"
      /\ call' = [call EXCEPT !.phase = IF MayAdmit THEN "waiting" ELSE "finish"]
  BY DEF RunningLoopEnds
<1>2. /\ call'.phase \in {"waiting", "finish"} /\ call'.output = call.output
      /\ call'.token_budget = call.token_budget /\ call'.finished_sending = call.finished_sending
  BY <1>1 DEF CallFields, QueueInv, Shapes
<1>4. PICK T \in SUBSET Req : T = {}
  OBVIOUS
<1>5. ManagerOK(kvm') /\ kvm' = kvm /\ req' = req
  BY <1>1 DEF EngineInv
<1> QED
  BY <1>1, <1>2, <1>4, <1>5, EngineKept

LEMMA EngineWaitingLoopEnds ==
  ASSUME QueueInv, EngineInv, WaitingLoopEnds, UNCHANGED batch_queue PROVE EngineInv'
<1>1. /\ UNCHANGED <<req, running, kvm>> /\ call.phase = "waiting"
      /\ call' = [call EXCEPT !.phase = "finish"]
  BY DEF WaitingLoopEnds
<1>2. /\ call'.phase = "finish" /\ call'.output = call.output
      /\ call'.token_budget = call.token_budget /\ call'.finished_sending = call.finished_sending
  BY <1>1 DEF CallFields, QueueInv, Shapes
<1>4. PICK T \in SUBSET Req : T = {}
  OBVIOUS
<1>5. ManagerOK(kvm') /\ kvm' = kvm /\ req' = req
  BY <1>1 DEF EngineInv
<1> QED
  BY <1>1, <1>2, <1>4, <1>5, EngineKept

LEMMA EngineSkipWaiting ==
  ASSUME QueueInv, EngineInv, SkipWaiting, UNCHANGED batch_queue PROVE EngineInv'
<1>1. /\ UNCHANGED <<req, running, kvm>> /\ call.phase = "waiting"
      /\ call' = [call EXCEPT !.skipped = <<Head(waiting)>> \o @]
  BY DEF SkipWaiting, InWaitingLoop
<1>2. /\ call'.phase = "waiting" /\ call'.output = call.output
      /\ call'.token_budget = call.token_budget /\ call'.finished_sending = call.finished_sending
  BY <1>1 DEF CallFields, QueueInv, Shapes
<1>4. PICK T \in SUBSET Req : T = {}
  OBVIOUS
<1>5. ManagerOK(kvm') /\ kvm' = kvm /\ req' = req
  BY <1>1 DEF EngineInv
<1> QED
  BY <1>1, <1>2, <1>4, <1>5, EngineKept

LEMMA LastIsToCome ==
  ASSUME QueueInv, call.req_index <= Len(running), running' = Front(running),
         call'.req_index = call.req_index
  PROVE  /\ running[Len(running)] \in StillToCome /\ running[Len(running)] \in Req
         /\ StillToCome' \subseteq StillToCome
<1>1. PICK s, i, n, r : s = running /\ i = call.req_index /\ n = Len(s) /\ r = s[n]
  OBVIOUS
<1>2. s \in Seq(Req) /\ i \in Nat \ {0} /\ i <= n
  BY <1>1 DEF QueueInv, Control
<1>3. n \in Nat /\ n \in i..n /\ \A j \in i..(n - 1) : j \in i..n
  BY <1>1, <1>2
<1>4. StillToCome = {s[j] : j \in i..n}
  BY <1>1 DEF StillToCome
<1>5. r \in StillToCome /\ r \in Req
  BY <1>1, <1>2, <1>3, <1>4, RestAreRequests
<1>6. StillToCome' \subseteq StillToCome
  <2>1. PICK f : f = Front(s)
    OBVIOUS
  <2>2. Len(f) = n - 1 /\ \A j \in 1..(n - 1) : f[j] = s[j]
    BY <2>1, <1>1, <1>2, <1>3 DEF Front
  <2>3. \A j \in i..(n - 1) : f[j] = s[j] /\ j \in i..n
    BY <2>2, <1>2, <1>3
  <2>4. StillToCome' = {f[j] : j \in i..(n - 1)}
    BY <2>1, <2>2, <1>1 DEF StillToCome
  <2> QED
    BY <2>3, <2>4, <1>4
<1> QED
  BY <1>1, <1>5, <1>6

\* The last of the running requests is still to come, so that nothing is scheduled for it.
LEMMA EnginePreemptLast ==
  ASSUME QueueInv, EngineInv, PreemptLast, UNCHANGED batch_queue
  PROVE  EngineInv' /\ OthersKeep(running[Len(running)])
<1>r. PICK r, s : r = running[Len(running)] /\ s = running
  OBVIOUS
<1>1. /\ call.phase = "running" /\ call.req_index <= Len(running)
      /\ running' = Front(running) /\ kvm' = free(kvm, r)
      /\ req' = [req EXCEPT ![r].status = "PREEMPTED", ![r].num_computed_tokens = 0]
      /\ call' = [call EXCEPT !.preempted = @ \cup {r},
                              !.phase = IF r = Current THEN "finish" ELSE @]
  BY <1>r DEF PreemptLast, InRunningLoop
<1>2. /\ call'.phase \in {"running", "finish"} /\ call'.output = call.output
      /\ call'.req_index = call.req_index
      /\ call'.token_budget = call.token_budget /\ call'.finished_sending = call.finished_sending
  BY <1>1 DEF CallFields, QueueInv, Shapes
<1>3. r \in StillToCome /\ r \in Req /\ StillToCome' \subseteq StillToCome
  BY <1>r, <1>1, <1>2, LastIsToCome
<1>7. call.output.num_scheduled_tokens[r] = 0
  BY <1>1, <1>3 DEF EngineInv, OutsOK
<1>8. FreedOf(kvm, kvm', r)
  BY <1>1, <1>3, FreedAsOK DEF EngineInv
<1>9. /\ req'[r].status = "PREEMPTED" /\ req'[r].num_computed_tokens = 0
      /\ req'[r].num_tokens = req[r].num_tokens /\ req'[r].spec_token_ids = req[r].spec_token_ids
      /\ \A q \in Req : q # r => req'[q] = req[q]
  BY <1>1, <1>3 DEF QueueInv, Shapes, ReqFields
<1>10. Progress(r)'
  <2>1. req[r].num_tokens \in 1..LengthCap(r) /\ req[r].spec_token_ids \in 0..NumSpecTokens
    BY <1>3 DEF EngineInv, Progress, Fits
  <2>2. PICK nt : nt = req[r].num_tokens
    OBVIOUS
  <2>3. BlockSize \in Nat /\ LengthCap(r) \in Nat
    BY <1>3, CapBounds
  <2>4. WaitsWell(nt, 0, << >>, 0)
    BY <2>1, <2>2, <2>3 DEF WaitsWell
  <2>5. ASSUME NEW n, NEW d PROVE Fits(r, "PREEMPTED", nt, 0, n, d, << >>, 0)
    BY <2>1, <2>2, <2>4 DEF Fits
  <2> QED
    BY <2>1, <2>2, <2>5, <1>8, <1>9 DEF Progress, FreedOf
<1>11. PICK T \in SUBSET Req : T = {r}
  BY <1>3
<1>12. \A q \in Req \ T : /\ req'[q] = req[q]
                          /\ kvm'.req_to_blocks[q] = kvm.req_to_blocks[q]
                          /\ kvm'.num_cached_block[q] = kvm.num_cached_block[q]
  BY <1>8, <1>9, <1>11 DEF FreedOf
<1>13. ManagerOK(kvm') /\ \A q \in T : Progress(q)' /\ call.output.num_scheduled_tokens[q] = 0
  BY <1>7, <1>8, <1>10, <1>11 DEF FreedOf
<1>14. OthersKeep(r)
  BY <1>8 DEF FreedOf, OthersKeep, ListKept
<1>15. EngineInv'
  BY <1>1, <1>2, <1>3, <1>12, <1>13, EngineKept
<1> QED
  BY <1>r, <1>14, <1>15

\* The encoder inputs of a request: a list of places.
LEMMA InputsAre ==
  ASSUME NEW r \in Req
  PROVE  /\ Len(EncoderInputs[r]) \in Nat /\ DOMAIN EncoderInputs[r] = 1..Len(EncoderInputs[r])
         /\ \A i \in DOMAIN EncoderInputs[r] :
              EncoderInputs[r][i].offset \in Nat /\ EncoderInputs[r][i].length \in Nat
<1>1. r \in DOMAIN EncoderInputs
  BY SchedulerAssumption
<1>2. PICK s, P : s = EncoderInputs[r] /\ P = [offset : Nat, length : 1..MaxNumEncoderInputTokens]
  OBVIOUS
<1>e. s \in Seq(P)
  <2>1. \A q \in DOMAIN EncoderInputs :
          EncoderInputs[q] \in Seq([offset : Nat, length : 1..MaxNumEncoderInputTokens])
    BY EncoderAssumption, Zenon
  <2> QED
    BY <1>1, <1>2, <2>1, Zenon
<1>3. Len(s) \in Nat /\ DOMAIN s = 1..Len(s) /\ \A i \in DOMAIN s : s[i] \in P
  BY <1>e
<1>4. \A p \in P : p.offset \in Nat /\ p.length \in Nat
  BY <1>2, EncoderAssumption
<1> QED
  BY <1>2, <1>3, <1>4

\* _try_schedule_encoder_inputs leaves at most the tokens it was given.
LEMMA PlanBounds ==
  ASSUME NEW e, NEW r \in Req, NEW computed \in Nat, NEW n \in Nat, NEW budget
  PROVE  try_schedule_encoder_inputs(e, r, computed, n, budget).num_new_tokens \in 0..n
<1>1. PICK T : /\ T \subseteq needed_inputs(e, r, computed, n)
               /\ try_schedule_encoder_inputs(e, r, computed, n, budget).num_new_tokens
                    = IF T = {} THEN n
                      ELSE IF computed < StartOf(r, Min(T)) THEN StartOf(r, Min(T)) - computed
                      ELSE 0
  <2> DEFINE needed == needed_inputs(e, r, computed, n)
             partial(i) == /\ DisableChunkedMMInput
                           /\ computed < StartOf(r, i)
                           /\ computed + n < EndOf(r, i)
             upto(i) == TokensOfInputs(InputsOf(r, {j \in needed : j <= i}))
             stops == {i \in needed : partial(i) \/ ~can_allocate(e, r, i) \/ upto(i) > budget}
  <2>1. stops \subseteq needed_inputs(e, r, computed, n)
    BY Zenon
  <2>2. try_schedule_encoder_inputs(e, r, computed, n, budget).num_new_tokens
          = IF stops = {} THEN n
            ELSE IF computed < StartOf(r, Min(stops)) THEN StartOf(r, Min(stops)) - computed
            ELSE 0
    BY DEF try_schedule_encoder_inputs
  <2> HIDE DEF stops
  <2> QED
    BY <2>1, <2>2
<1>2. CASE T = {}
  BY <1>1, <1>2
<1>3. CASE T # {}
  <2>2. DOMAIN EncoderInputs[r] = 1..Len(EncoderInputs[r])
    BY InputsAre
  <2>3. \A i \in T : i \in DOMAIN EncoderInputs[r] /\ StartOf(r, i) < computed + n
    BY <1>1 DEF needed_inputs, Needs
  <2>4. T \subseteq Nat
    BY <2>2, <2>3
  <2>5. \E m \in T : \A k \in T : m <= k
    BY <2>4, <1>3, Smallest
  <2>6. PICK m : m = Min(T)
    OBVIOUS
  <2>7. m \in T
    BY <2>5, <2>6 DEF Min
  <2>8. PICK x : x = StartOf(r, m)
    OBVIOUS
  <2>9. x \in Nat /\ x < computed + n
    BY <2>3, <2>7, <2>8, InputsAre DEF StartOf
  <2> QED
    BY <1>1, <1>3, <2>6, <2>8, <2>9
<1> QED
  BY <1>2, <1>3

\* A request is scheduled: the output it is put into.
Joins(k, o, r, n, c, d, nt) ==
  /\ OutputShape(o) /\ DOMAIN o.spec = Req
  /\ o.num_scheduled_tokens[r] = n /\ o.num_computed_tokens[r] = c /\ o.spec[r] = d
  /\ o.num_tokens[r] = nt
  /\ \A q \in Req : q # r =>
       /\ o.num_scheduled_tokens[q] = k.num_scheduled_tokens[q] /\ o.spec[q] = k.spec[q]
       /\ o.num_computed_tokens[q] = k.num_computed_tokens[q] /\ o.num_tokens[q] = k.num_tokens[q]
LEMMA JoinsOutput ==
  ASSUME NEW k, OutputGood(k), NEW r \in Req, NEW n, NEW c, NEW d, NEW b, NEW I, NEW p, NEW o,
         p = Scheduled(k, r, n, c, d, b, I),
         o \in {[p EXCEPT !.ran = Append(@, r)], [p EXCEPT !.resumed = Append(@, r)],
                [p EXCEPT !.new = Append(@, r)]}
  PROVE  Joins(k, o, r, n, c, d, req[r].num_tokens)
<1>1. OutputShape(k) /\ DOMAIN k.spec = Req
  BY DEF OutputGood
<1>0. OutputShape(k) /\ p = Scheduled(k, r, n, c, d, b, I)
  BY <1>1
<1>p. /\ OutputShape(p) /\ p.ran = k.ran /\ p.resumed = k.resumed
      /\ p.num_scheduled_tokens = [k.num_scheduled_tokens EXCEPT ![r] = n]
      /\ p.num_computed_tokens = [k.num_computed_tokens EXCEPT ![r] = c]
      /\ p.num_tokens = [k.num_tokens EXCEPT ![r] = req[r].num_tokens]
  BY <1>0, ScheduledRecords
<1>2. DOMAIN p = OutputFields /\ DOMAIN k = OutputFields
  BY <1>1, <1>p DEF OutputShape
<1>3. p.spec = [k.spec EXCEPT ![r] = d]
  BY <1>2 DEF Scheduled, OutputFields
<1>4. o.spec = p.spec
  BY <1>2 DEF OutputFields
<1>5. /\ OutputShape(o) /\ o.num_scheduled_tokens = p.num_scheduled_tokens
      /\ o.num_computed_tokens = p.num_computed_tokens /\ o.num_tokens = p.num_tokens
  BY <1>p, ListedRecords
<1>6. /\ DOMAIN k.num_scheduled_tokens = Req /\ DOMAIN k.num_computed_tokens = Req
      /\ DOMAIN k.num_tokens = Req
  BY <1>1 DEF OutputShape
<1> QED
  BY <1>1, <1>3, <1>4, <1>5, <1>6, <1>p DEF Joins

\* It stays good, if the drafts follow the last known token.
LEMMA JoinsGood ==
  ASSUME NEW k, OutputGood(k), NEW o, NEW r \in Req, NEW n \in Nat \ {0}, NEW c \in Nat,
         NEW d \in 0..NumSpecTokens, NEW nt, Joins(k, o, r, n, c, d, nt), d > 0 => c + n >= nt
  PROVE  OutputGood(o)
<1> SUFFICES ASSUME NEW q \in Req
             PROVE  /\ o.num_scheduled_tokens[q] \in Nat /\ o.spec[q] \in 0..NumSpecTokens
                    /\ o.spec[q] > 0 => o.num_scheduled_tokens[q] > 0 /\ Samples(o, q)
  BY DEF OutputGood, Joins
<1>1. CASE q = r
  BY <1>1 DEF Joins, Samples
<1>2. CASE q # r
  BY <1>2 DEF Joins, Samples, OutputGood
<1> QED
  BY <1>1, <1>2

LEMMA EngineScheduled ==
  ASSUME QueueInv, EngineInv, call'.phase = call.phase, call.phase \in {"running", "waiting"},
         NEW r \in Req, NEW n \in Nat \ {0}, NEW c \in Nat, NEW d \in 0..NumSpecTokens,
         Joins(call.output, call'.output, r, n, c, d, req[r].num_tokens),
         d > 0 => c + n >= req[r].num_tokens,
         req'[r].status = "RUNNING", req'[r].num_computed_tokens = c,
         req'[r].num_tokens = req[r].num_tokens, req'[r].spec_token_ids \in 0..NumSpecTokens,
         \A q \in Req \ {r} : /\ req'[q] = req[q]
                              /\ kvm'.req_to_blocks[q] = kvm.req_to_blocks[q]
                              /\ kvm'.num_cached_block[q] = kvm.num_cached_block[q],
         ManagerOK(kvm'),
         Fits(r, "RUNNING", req[r].num_tokens, c, c + n, d, kvm'.req_to_blocks[r],
              kvm'.num_cached_block[r]),
         call'.token_budget \in Nat, call'.finished_sending = call.finished_sending,
         UNCHANGED batch_queue,
         call'.phase = "running" => StillToCome' \subseteq StillToCome \ {r}
  PROVE  EngineInv'
<1>1. SchedPhase /\ SchedPhase' /\ call'.phase \in Phases
  BY DEF SchedPhase, Phases
<1>k. PICK k, o : k = call.output /\ o = call'.output
  OBVIOUS
<1>2. OutputGood(k) /\ Joins(k, o, r, n, c, d, req[r].num_tokens)
  BY <1>k DEF EngineInv, OutsOK
<1>3. OutputGood(o)
  BY <1>2, JoinsGood
<1>4. /\ \A q \in Req \ {r} : Counted(q)' = Counted(q) /\ Doubtful(q)' = Doubtful(q)
      /\ Counted(r)' = n /\ Doubtful(r)' = d
  BY <1>1, <1>2, <1>k DEF Counted, Doubtful, Joins
<1>5. ASSUME NEW q \in Req, q # r PROVE Progress(q)'
  BY <1>4, <1>5, ProgressKept DEF EngineInv
<1>6. Progress(r)'
  BY <1>4 DEF Progress
<1>7. ASSUME call'.phase = "running", NEW q \in StillToCome' PROVE o.num_scheduled_tokens[q] = 0
  <2>1. q \in StillToCome /\ q # r
    BY <1>7
  <2>2. StillToCome \subseteq Req
    BY RestAreRequests DEF StillToCome, QueueInv, Control
  <2>3. k.num_scheduled_tokens[q] = 0
    BY <2>1, <1>7, <1>k DEF EngineInv, OutsOK
  <2> QED
    BY <2>1, <2>2, <2>3, <1>2 DEF Joins
<1>8. ASSUME NEW q \in Req, req'[q].status # "RUNNING" PROVE o.num_scheduled_tokens[q] = 0
  <2>1. q # r /\ req[q].status # "RUNNING"
    BY <1>8
  <2>2. k.num_scheduled_tokens[q] = 0
    BY <2>1, <1>1, <1>k DEF EngineInv, OutsOK
  <2> QED
    BY <2>1, <2>2, <1>2 DEF Joins
<1>9. call'.finished_sending \subseteq Req /\ QueueGood(batch_queue')
  BY DEF EngineInv, OutsOK
<1>10. OutsOK'
  BY <1>1, <1>3, <1>7, <1>8, <1>9, <1>k DEF OutsOK
<1> QED
  BY <1>5, <1>6, <1>10 DEF EngineInv

\* The tokens to schedule for a running request.
LEMMA TokensToRun ==
  ASSUME NEW x \in Nat, NEW nc \in Nat, NEW budget \in Nat, nc <= x, nc <= MaxModelLen,
         NEW m, m = AtMost(AtMost(Threshold(x - nc), budget), MaxModelLen - nc)
  PROVE  m \in Nat /\ m <= budget /\ nc + m <= MaxModelLen /\ nc + m <= x
  BY SchedulerAssumption, ManagerAssumption DEF AtMost, Threshold

LEMMA PlanIs ==
  ASSUME NEW r, NEW x, x = num_tokens_with_spec(r), NEW nc, nc = req[r].num_computed_tokens,
         NEW b, b = call.token_budget, NEW m, m = AtMost(AtMost(Threshold(x - nc), b), MaxModelLen - nc)
  PROVE  NewTokensOfRunning(r)
           = try_schedule_encoder_inputs(enc, r, nc, m, call.encoder_budget).num_new_tokens
<1>1. PlanOfRunning(r) = try_schedule_encoder_inputs(enc, r, nc, m, call.encoder_budget)
  BY DEF PlanOfRunning
<1>2. NewTokensOfRunning(r) = PlanOfRunning(r).num_new_tokens
  BY DEF NewTokensOfRunning
<1> QED
  BY <1>1, <1>2

\* The running request at hand: it is not scheduled yet, so that no token is in flight
\* but those that are certain.
LEMMA CurrentToRun ==
  ASSUME QueueInv, EngineInv, InRunningLoop
  PROVE  /\ Current \in Req /\ req[Current].status = "RUNNING" /\ Current \in StillToCome
         /\ call.output.num_scheduled_tokens[Current] = 0
         /\ Counted(Current) = 0 /\ Doubtful(Current) = 0
         /\ {running[j] : j \in (call.req_index + 1)..Len(running)} \subseteq StillToCome \ {Current}
<1>1. PICK s, i, r : s = running /\ i = call.req_index /\ r = Current
  OBVIOUS
<1>2. call.phase = "running" /\ i <= Len(s)
  BY <1>1 DEF InRunningLoop
<1>3. /\ s \in Seq(Req) /\ i \in Nat \ {0} /\ IsInjective(s)
      /\ Members(s) = {q \in Req : Statuses[q] = "RUNNING"}
  BY <1>1, <1>2 DEF QueueInv, Control, InPlace, Placed, Proper, LiveRunning
<1>4. i \in DOMAIN s /\ r = s[i] /\ i \in i..Len(s)
  BY <1>1, <1>2, <1>3 DEF Current
<1>5. r \in Req /\ req[r].status = "RUNNING"
  BY <1>3, <1>4 DEF Members, Statuses
<1>6. StillToCome = {s[j] : j \in i..Len(s)}
  BY <1>1 DEF StillToCome
<1>7. r \in StillToCome
  BY <1>4, <1>6
<1>8. /\ {s[j] : j \in (i + 1)..Len(s)} \subseteq {s[j] : j \in i..Len(s)}
      /\ r \notin {s[j] : j \in (i + 1)..Len(s)}
  BY <1>2, <1>3, <1>4, RestShrinks, RestDiffers
<1>9. call.output.num_scheduled_tokens[r] = 0 /\ OutputGood(call.output)
  BY <1>2, <1>7 DEF EngineInv, OutsOK
<1>10. call.output.spec[r] = 0
  BY <1>5, <1>9, GoodOutput
<1>11. Counted(r) = 0 /\ Doubtful(r) = 0
  BY <1>2, <1>9, <1>10 DEF Counted, Doubtful, SchedPhase
<1> QED
  BY <1>1, <1>5, <1>6, <1>7, <1>8, <1>9, <1>11

\* What the plan for it is, and what it fits.
LEMMA PlanToRun ==
  ASSUME QueueInv, EngineInv, InRunningLoop, NEW r, r = Current, NEW nt, nt = req[r].num_tokens,
         NEW nc, nc = req[r].num_computed_tokens, NEW st, st = req[r].spec_token_ids,
         NEW l, l = kvm.req_to_blocks[r], NEW k, k = kvm.num_cached_block[r]
  PROVE  /\ nt \in 1..LengthCap(r) /\ nc \in Nat /\ st \in 0..NumSpecTokens
         /\ k \in Nat /\ k * BlockSize <= nc /\ nc <= nt
         /\ NewTokensOfRunning(r) \in Nat /\ NewTokensOfRunning(r) <= call.token_budget
         /\ nc + NewTokensOfRunning(r) <= MaxModelLen /\ nc + NewTokensOfRunning(r) <= nt + st
         /\ call.token_budget \in Nat
<1>1. r \in Req /\ req[r].status = "RUNNING" /\ Counted(r) = 0 /\ Doubtful(r) = 0
  BY CurrentToRun
<1>2. Fits(r, "RUNNING", nt, nc, nc + 0, 0, l, k) /\ st \in 0..NumSpecTokens
  BY <1>1 DEF EngineInv, Progress
<1>3. /\ LengthCap(r) \in Nat /\ LengthCap(r) <= MaxModelLen /\ BlockSize \in Nat \ {0}
      /\ MaxModelLen \in Nat /\ NumSpecTokens \in Nat
  BY <1>1, CapBounds
<1>4. k \in Nat
  BY <1>1, NoneHashed DEF EngineInv
<1>5. nt \in 1..LengthCap(r) /\ nc \in Nat /\ k * BlockSize <= nc /\ nc <= nt
  <2>1. nt \in 1..LengthCap(r) /\ nc \in Nat /\ RunsWell(nt, nc + 0, 0, l, k)
    BY <1>2 DEF Fits
  <2>2. k * BlockSize \in Nat
    BY <1>3, <1>4
  <2> QED
    BY <2>1, <2>2, <1>3 DEF RunsWell
<1>6. call.token_budget \in Nat
  BY DEF EngineInv, OutsOK, SchedPhase, InRunningLoop
<1>b. PICK b : b = call.token_budget
  OBVIOUS
<1>x. PICK x : x = num_tokens_with_spec(r) /\ x = nt + st
  BY DEF num_tokens_with_spec
<1>7. PICK m : m = AtMost(AtMost(Threshold(x - nc), b), MaxModelLen - nc)
  OBVIOUS
<1>8. m \in Nat /\ m <= b /\ nc + m <= MaxModelLen /\ nc + m <= x /\ x \in Nat
  <2>1. x \in Nat /\ nc \in Nat /\ b \in Nat /\ nc <= x /\ nc <= MaxModelLen
    BY <1>2, <1>3, <1>5, <1>6, <1>b, <1>x
  <2> QED
    BY <2>1, <1>7, TokensToRun
<1>9. PICK n : n = NewTokensOfRunning(r)
  OBVIOUS
<1>10. n \in 0..m
  <2>1. n = try_schedule_encoder_inputs(enc, r, nc, m, call.encoder_budget).num_new_tokens
    BY <1>x, <1>7, <1>9, <1>b, PlanIs
  <2> QED
    BY <2>1, <1>1, <1>5, <1>8, PlanBounds
<1>11. n \in Nat /\ n <= b /\ nc + n <= MaxModelLen /\ nc + n <= nt + st
  BY <1>2, <1>3, <1>5, <1>6, <1>8, <1>10, <1>b, <1>x
<1> QED
  BY <1>2, <1>4, <1>5, <1>6, <1>9, <1>11, <1>b

LEMMA AllocNow ==
  ASSUME NEW k, ManagerOK(k), NEW r \in Req, NEW hits, HitsOK(k.pool, r, hits),
         hits = << >> \/ k.req_to_blocks[r] = << >>,
         NEW computed \in Nat, NEW new \in Nat, NEW lookahead \in Nat, NEW draft \in Nat,
         CanAllocate(k, r, hits, num_required_blocks(computed, new, lookahead)),
         computed + new <= MaxModelLen, draft <= computed + new,
         computed + new - draft <= Len(Tokens[r]),
         Hashed(k, r, hits) * BlockSize <= computed + new - draft
  PROVE  AllocAs(k, allocate_slots(k, r, hits, computed, new, draft, lookahead, FALSE),
                 r, hits, computed + new, draft, FALSE)
<1>1. PICK delay \in BOOLEAN : delay = FALSE
  OBVIOUS
<1>2. AllocAs(k, allocate_slots(k, r, hits, computed, new, draft, lookahead, delay),
              r, hits, computed + new, draft, delay)
  BY AllocOK
<1> QED
  BY <1>1, <1>2

\* The slots of a request that goes on: what the manager and the request are then.
RunsAs(k, g, r, nt, nc, n, d) ==
  /\ ManagerOK(g)
  /\ \A s \in Req \ {r} : /\ g.req_to_blocks[s] = k.req_to_blocks[s]
                          /\ g.num_cached_block[s] = k.num_cached_block[s]
  /\ Fits(r, "RUNNING", nt, nc, nc + n, d, g.req_to_blocks[r], g.num_cached_block[r])
LEMMA RunsOn ==
  ASSUME NEW k, ManagerOK(k), NEW r \in Req, NEW nt \in 1..LengthCap(r), NEW nc \in Nat, nc <= nt,
         NEW n \in Nat, NEW hits, HitsOK(k.pool, r, hits),
         hits = << >> \/ k.req_to_blocks[r] = << >>,
         NEW d \in Nat, d = IF nc + n > nt THEN nc + n - nt ELSE 0, nc + n <= MaxModelLen,
         Hashed(k, r, hits) \in Nat, Hashed(k, r, hits) * BlockSize <= nc,
         CanAllocate(k, r, hits, num_required_blocks(nc, n, num_lookahead_tokens))
  PROVE  RunsAs(k, allocate_slots(k, r, hits, nc, n, d, num_lookahead_tokens, FALSE), r, nt, nc, n, d)
<1>g. PICK g, h : /\ g = allocate_slots(k, r, hits, nc, n, d, num_lookahead_tokens, FALSE)
                  /\ h = Hashed(k, r, hits)
  OBVIOUS
<1>h. h \in Nat /\ h * BlockSize <= nc
  BY <1>g
<1>1. /\ LengthCap(r) \in Nat /\ LengthCap(r) <= Len(Tokens[r]) /\ BlockSize \in Nat \ {0}
      /\ Len(Tokens[r]) \in Nat /\ NumSpecTokens \in Nat
  BY CapBounds
<1>2. PICK lookahead \in Nat : lookahead = num_lookahead_tokens
  BY <1>1 DEF num_lookahead_tokens
<1>3. h * BlockSize \in Nat
  BY <1>1, <1>h
<1>4. /\ d <= nc + n /\ nc + n - d <= nt /\ nc + n - d \in Nat /\ nc <= nc + n - d
      /\ h * BlockSize <= nc + n - d /\ nc + n - d <= Len(Tokens[r])
  <2>1. d <= nc + n /\ nc + n - d <= nt /\ nc + n - d \in Nat /\ nc <= nc + n - d
    BY <1>1
  <2>2. PICK a, b, x : a = h * BlockSize /\ b = nc + n - d /\ x = Len(Tokens[r])
    OBVIOUS
  <2>3. a \in Nat /\ a <= nc /\ nc <= b /\ b \in Nat /\ b <= nt /\ nt <= x /\ x \in Nat
    BY <2>1, <2>2, <1>1, <1>3, <1>h
  <2>4. a <= b /\ b <= x
    BY <2>3
  <2> QED
    BY <2>1, <2>2, <2>4
<1>5. AllocAs(k, g, r, hits, nc + n, d, FALSE)
  <2>1. /\ CanAllocate(k, r, hits, num_required_blocks(nc, n, lookahead))
        /\ g = allocate_slots(k, r, hits, nc, n, d, lookahead, FALSE)
    BY <1>2, <1>g
  <2>2. Hashed(k, r, hits) * BlockSize <= nc + n - d
    BY <1>4, <1>g
  <2>3. AllocAs(k, allocate_slots(k, r, hits, nc, n, d, lookahead, FALSE), r, hits, nc + n, d, FALSE)
    BY <2>1, <2>2, <1>4, AllocNow
  <2> QED
    BY <2>1, <2>3
<1>6. PICK l, c : l = g.req_to_blocks[r] /\ c = g.num_cached_block[r]
  OBVIOUS
<1>7. nc + n <= BlockSize * Len(l)
  BY <1>5, <1>6 DEF AllocAs
<1>8. c * BlockSize <= nc + n - d
  <2>1. c = IF EnableCaching THEN (nc + n - d) \div BlockSize ELSE h
    BY <1>5, <1>6, <1>g DEF AllocAs
  <2>2. ((nc + n - d) \div BlockSize) * BlockSize <= nc + n - d
    BY <1>4, WholeBlocks
  <2> QED
    BY <2>1, <2>2, <1>4
<1>9. RunsWell(nt, nc + n, d, l, c)
  BY <1>4, <1>7, <1>8 DEF RunsWell
<1>10. Fits(r, "RUNNING", nt, nc, nc + n, d, l, c)
  BY <1>9 DEF Fits
<1> QED
  BY <1>5, <1>6, <1>10, <1>g DEF AllocAs, RunsAs

LEMMA EngineScheduleRunning ==
  ASSUME QueueInv, EngineInv, ScheduleRunning, UNCHANGED batch_queue
  PROVE  EngineInv' /\ OthersKeep(Current)
<1>1. PICK r, n, d, b, I, nc, nt, st :
        /\ r = Current /\ n = NewTokensOfRunning(r) /\ d = DraftTokens(r, n)
        /\ b = SubSeq(kvm'.req_to_blocks[r], Len(kvm.req_to_blocks[r]) + 1,
                      Len(kvm'.req_to_blocks[r]))
        /\ I = PlanOfRunning(r).inputs
        /\ nc = req[r].num_computed_tokens /\ nt = req[r].num_tokens /\ st = req[r].spec_token_ids
  OBVIOUS
<1>2. /\ InRunningLoop /\ n # 0 /\ FitsRunning(r, n) /\ running' = running
      /\ kvm' = allocate_slots(kvm, r, << >>, nc, n, d, num_lookahead_tokens, FALSE)
      /\ req' = [req EXCEPT ![r].spec_token_ids = IF d > 0 THEN AtMost(@, d) ELSE @]
      /\ \E e : call' = [call EXCEPT !.req_index = @ + 1, !.token_budget = @ - n,
                          !.encoder_budget = e,
                          !.output = LET o == Scheduled(@, r, n, nc, d, b, I)
                                     IN [o EXCEPT !.ran = Append(@, r)]]
  BY <1>1 DEF ScheduleRunning
<1>3. PICK e, p, o : /\ p = Scheduled(call.output, r, n, nc, d, b, I)
                     /\ o = [p EXCEPT !.ran = Append(@, r)]
                     /\ call' = [call EXCEPT !.req_index = @ + 1, !.token_budget = @ - n,
                                   !.encoder_budget = e, !.output = o]
  BY <1>2
<1>4. /\ call'.phase = call.phase /\ call'.req_index = call.req_index + 1 /\ call'.output = o
      /\ call'.token_budget = call.token_budget - n
      /\ call'.finished_sending = call.finished_sending
  BY <1>3 DEF CallFields, QueueInv, Shapes
<1>5. /\ r \in Req /\ req[r].status = "RUNNING"
      /\ {running[j] : j \in (call.req_index + 1)..Len(running)} \subseteq StillToCome \ {r}
  BY <1>1, <1>2, CurrentToRun
<1>6. call.phase = "running" /\ StillToCome' \subseteq StillToCome \ {r}
  BY <1>2, <1>4, <1>5 DEF InRunningLoop, StillToCome
<1>k. PICK l, k : l = kvm.req_to_blocks[r] /\ k = kvm.num_cached_block[r]
  OBVIOUS
<1>7. /\ nt \in 1..LengthCap(r) /\ nc \in Nat /\ st \in 0..NumSpecTokens
      /\ k \in Nat /\ k * BlockSize <= nc /\ nc <= nt
      /\ n \in Nat /\ n <= call.token_budget
      /\ nc + n <= MaxModelLen /\ nc + n <= nt + st /\ call.token_budget \in Nat
  BY <1>1, <1>2, <1>k, PlanToRun
<1>c. LengthCap(r) \in Nat /\ NumSpecTokens \in Nat /\ BlockSize \in Nat \ {0}
  BY <1>5, CapBounds
<1>8. d = (IF nc + n > nt THEN nc + n - nt ELSE 0) /\ d \in Nat /\ d <= st /\ d \in 0..NumSpecTokens
  <2>1. d = LET x == n + nc - nt IN IF x > 0 THEN x ELSE 0
    BY <1>1 DEF DraftTokens
  <2>2. d = IF nc + n > nt THEN nc + n - nt ELSE 0
    BY <2>1, <1>7, <1>c
  <2> QED
    BY <2>2, <1>7, <1>c
<1>9. /\ req'[r].status = "RUNNING" /\ req'[r].num_computed_tokens = nc
      /\ req'[r].num_tokens = nt /\ req'[r].spec_token_ids = (IF d > 0 THEN AtMost(st, d) ELSE st)
      /\ \A q \in Req : q # r => req'[q] = req[q]
  BY <1>1, <1>2, <1>5 DEF QueueInv, Shapes, ReqFields
<1>10. req'[r].spec_token_ids \in 0..NumSpecTokens
  BY <1>7, <1>8, <1>9, <1>c DEF AtMost
<1>11. Joins(call.output, o, r, n, nc, d, nt)
  <2>1. OutputGood(call.output)
    BY DEF EngineInv, OutsOK
  <2>2. PICK z : z = call.output
    OBVIOUS
  <2>3. Joins(z, o, r, n, nc, d, req[r].num_tokens)
    BY <2>1, <2>2, <1>3, <1>5, JoinsOutput
  <2> QED
    BY <2>2, <2>3, <1>1
<1>12. /\ ManagerOK(kvm')
       /\ \A s \in Req \ {r} : /\ kvm'.req_to_blocks[s] = kvm.req_to_blocks[s]
                               /\ kvm'.num_cached_block[s] = kvm.num_cached_block[s]
       /\ Fits(r, "RUNNING", nt, nc, nc + n, d, kvm'.req_to_blocks[r], kvm'.num_cached_block[r])
  <2>1. PICK m, g, hits, h : m = kvm /\ g = kvm' /\ hits = << >> /\ h = Hashed(m, r, hits)
    OBVIOUS
  <2>2. ManagerOK(m) /\ HitsOK(m.pool, r, hits)
    BY <2>1, <1>5, NoHits DEF EngineInv
  <2>3. h = IF l = << >> THEN 0 ELSE k
    BY <2>1, <1>k DEF Hashed
  <2>4. h \in Nat /\ h * BlockSize <= nc
    BY <2>3, <1>7, <1>c
  <2>5. CanAllocate(m, r, hits, num_required_blocks(nc, n, num_lookahead_tokens))
    BY <2>1, <1>1, <1>2 DEF FitsRunning
  <2>6. g = allocate_slots(m, r, hits, nc, n, d, num_lookahead_tokens, FALSE)
    BY <2>1, <1>2
  <2>7. RunsAs(m, allocate_slots(m, r, hits, nc, n, d, num_lookahead_tokens, FALSE),
               r, nt, nc, n, d)
    <3>1. /\ r \in Req /\ nt \in 1..LengthCap(r) /\ nc \in Nat /\ nc <= nt /\ n \in Nat /\ d \in Nat
          /\ d = (IF nc + n > nt THEN nc + n - nt ELSE 0) /\ nc + n <= MaxModelLen
      BY <1>5, <1>7, <1>8
    <3>2. /\ hits = << >> \/ m.req_to_blocks[r] = << >>
          /\ Hashed(m, r, hits) \in Nat /\ Hashed(m, r, hits) * BlockSize <= nc
      BY <2>1, <2>4
    <3> QED
      BY <3>1, <3>2, <2>2, <2>5, RunsOn
  <2> QED
    BY <2>1, <2>6, <2>7 DEF RunsAs
<1>13. call'.token_budget \in Nat /\ n \in Nat \ {0} /\ (d > 0 => nc + n >= nt)
  BY <1>2, <1>4, <1>7, <1>8, <1>c
<1>14. /\ call'.phase = call.phase /\ call.phase \in {"running", "waiting"}
       /\ call'.finished_sending = call.finished_sending /\ StillToCome' \subseteq StillToCome \ {r}
       /\ r \in Req /\ nc \in Nat /\ d \in 0..NumSpecTokens
  BY <1>4, <1>5, <1>6, <1>7, <1>8
<1>15. /\ Joins(call.output, call'.output, r, n, nc, d, req[r].num_tokens)
       /\ d > 0 => nc + n >= req[r].num_tokens
       /\ Fits(r, "RUNNING", req[r].num_tokens, nc, nc + n, d, kvm'.req_to_blocks[r],
               kvm'.num_cached_block[r])
  BY <1>1, <1>4, <1>11, <1>12, <1>13
<1>16. /\ req'[r].status = "RUNNING" /\ req'[r].num_computed_tokens = nc
       /\ req'[r].num_tokens = req[r].num_tokens
       /\ \A q \in Req \ {r} : /\ req'[q] = req[q]
                              /\ kvm'.req_to_blocks[q] = kvm.req_to_blocks[q]
                              /\ kvm'.num_cached_block[q] = kvm.num_cached_block[q]
  BY <1>1, <1>9, <1>12
<1>17. ManagerOK(kvm') /\ call'.token_budget \in Nat /\ n \in Nat \ {0}
  BY <1>12, <1>13
<1>18. OthersKeep(r)
  BY <1>12 DEF OthersKeep, ListKept
<1>19. EngineInv'
  BY <1>10, <1>14, <1>15, <1>16, <1>17, EngineScheduled
<1> QED
  BY <1>1, <1>18, <1>19

\* The head of the waiting queue, before it is looked at further: g is the manager, nc the
\* computed tokens and st the status of the request then.
HeadAs(k, g, r, st, nt, nc) ==
  /\ ManagerOK(g) /\ g.req_to_blocks = k.req_to_blocks
  /\ \A q \in Req \ {r} : g.num_cached_block[q] = k.num_cached_block[q]
  /\ nt \in 1..LengthCap(r) /\ nc \in Nat
  /\ st \in {"WAITING", "PREEMPTED"}
  /\ WaitsWell(nt, nc, g.req_to_blocks[r], g.num_cached_block[r])
  /\ st = "PREEMPTED" => g.req_to_blocks[r] = << >>
  /\ g.req_to_blocks[r] # << >> => r \in RemotePrefill

\* The tokens of the received blocks, and the last one is left to compute.
LEMMA ReceivedTokens ==
  ASSUME NEW k, ManagerOK(k), NEW r \in Req, NEW nt \in 1..LengthCap(r),
         k.num_cached_block[r] * BlockSize <= nt - 1,
         NEW t, t = remote_computed_tokens(k, r, nt)
  PROVE  /\ t \in Nat /\ t <= nt /\ t <= nt - 1 /\ t <= Len(Tokens[r])
         /\ k.num_cached_block[r] <= t \div BlockSize
         /\ t \div BlockSize <= Len(k.req_to_blocks[r])
         /\ t = 0 => k.req_to_blocks[r] = << >> \/ nt = 1
<1>1. PICK n, c, l : n = Len(k.req_to_blocks[r]) /\ c = k.num_cached_block[r] /\ l = k.req_to_blocks[r]
  OBVIOUS
<1>2. n \in Nat /\ c \in Nat /\ c <= n /\ (l # << >> => n > 0)
  BY <1>1, NoneHashed
<1>3. /\ LengthCap(r) \in Nat /\ LengthCap(r) <= Len(Tokens[r]) /\ BlockSize \in Nat \ {0}
      /\ Len(Tokens[r]) \in Nat
  BY CapBounds
<1>4. PICK x, y : x = BlockSize * n /\ y = c * BlockSize
  OBVIOUS
<1>5. x \in Nat /\ y \in Nat /\ y <= x /\ (n > 0 => x > 0) /\ y <= nt - 1
  <2>1. y <= n * BlockSize /\ n * BlockSize = x
    BY <1>2, <1>3, <1>4
  <2>2. x \in Nat /\ y \in Nat
    BY <1>2, <1>3, <1>4
  <2>3. n > 0 => x > 0
    BY <1>2, <1>3, <1>4
  <2>4. y <= nt - 1
    BY <1>1, <1>4
  <2> QED
    BY <2>1, <2>2, <2>3, <2>4
<1>6. t = LET m == IF x <= nt THEN x ELSE nt IN IF m = nt THEN m - 1 ELSE m
  BY <1>1, <1>4 DEF remote_computed_tokens, AtMost
<1>7. t \in Nat /\ t <= nt /\ t <= nt - 1 /\ t <= x /\ y <= t /\ (t = 0 => x = 0 \/ nt = 1)
  BY <1>3, <1>5, <1>6
<1>8. t <= Len(Tokens[r])
  BY <1>3, <1>7
<1>9. c <= t \div BlockSize
  BY <1>2, <1>4, <1>7, BlocksFit
<1>10. t \div BlockSize <= n
  <2>1. PICK d : d = t \div BlockSize
    OBVIOUS
  <2>2. d \in Nat /\ d * BlockSize <= t
    BY <2>1, <1>7, WholeBlocks
  <2>3. ASSUME ~(d <= n) PROVE FALSE
    <3>1. (n + 1) * BlockSize <= d * BlockSize
      BY <2>2, <2>3, <1>2, <1>3
    <3>2. (n + 1) * BlockSize = x + BlockSize /\ d * BlockSize \in Nat
      BY <2>2, <1>2, <1>3, <1>4
    <3> QED
      BY <3>1, <3>2, <2>2, <1>3, <1>5, <1>7
  <2> QED
    BY <2>1, <2>2, <2>3, <1>2
<1> QED
  BY <1>1, <1>2, <1>5, <1>7, <1>8, <1>9, <1>10

LEMMA HeadOK ==
  ASSUME QueueInv, EngineInv, Modelled, InWaitingLoop, NEW r, r = Head(waiting)
  PROVE  HeadAs(kvm, ManagerAtHead(r), r, StatusAtHead(r), req[r].num_tokens, ComputedAtHead(r))
<1>1. r \in Req /\ req[r].status \in Waits /\ Befits(r, req[r].status)
  BY HeadWaits
<1>2. PICK k, v, nt, nc, l, c : /\ k = kvm /\ v = req[r].status /\ nt = req[r].num_tokens
                                /\ nc = req[r].num_computed_tokens
                                /\ l = k.req_to_blocks[r] /\ c = k.num_cached_block[r]
  OBVIOUS
<1>3. PICK n, d : Fits(r, v, nt, nc, n, d, l, c)
  BY <1>1, <1>2 DEF EngineInv, Progress
<1>4. ManagerOK(k) /\ nt \in 1..LengthCap(r) /\ nc \in Nat
  BY <1>2, <1>3 DEF EngineInv, Fits
<1>5. CASE ~Received(r)
  <2>1. ManagerAtHead(r) = k /\ ComputedAtHead(r) = nc /\ v # "WAITING_FOR_REMOTE_KVS"
    BY <1>2, <1>5 DEF ManagerAtHead, ComputedAtHead, Received
  <2>2. v \in {"WAITING", "WAITING_FOR_FSM", "PREEMPTED"}
    BY <2>1, <1>1, <1>2 DEF Waits
  <2>3. PICK s : s = StatusAtHead(r)
    OBVIOUS
  <2>4. /\ s \in {"WAITING", "PREEMPTED"} /\ (s = "PREEMPTED" => v = "PREEMPTED")
        /\ s = "WAITING" => v \in {"WAITING", "WAITING_FOR_FSM"}
    BY <2>2, <2>3, <1>2 DEF StatusAtHead
  <2>5. /\ WaitsWell(nt, nc, l, c) /\ (v \in {"PREEMPTED", "WAITING_FOR_FSM"} => l = << >>)
        /\ v = "WAITING" /\ l # << >> => r \in RemotePrefill
    BY <2>2, <1>3 DEF Fits
  <2>6. HeadAs(k, k, r, s, nt, nc)
    BY <2>4, <2>5, <1>2, <1>4 DEF HeadAs
  <2> QED
    BY <2>1, <2>3, <2>6, <1>2
<1>6. CASE Received(r)
  <2>1. PICK t : t = remote_computed_tokens(k, r, nt)
    OBVIOUS
  <2>2. /\ ManagerAtHead(r) = cache_blocks(k, r, t) /\ ComputedAtHead(r) = t
        /\ v = "WAITING_FOR_REMOTE_KVS"
    BY <2>1, <1>2, <1>6 DEF ManagerAtHead, ComputedAtHead, Received
  <2>3. r \in RemotePrefill /\ EnableCaching /\ StatusAtHead(r) = "WAITING"
    BY <2>2, <1>1, <1>2 DEF Befits, Modelled, StatusAtHead
  <2>4. c * BlockSize <= nt - 1
    BY <2>2, <1>3 DEF Fits
  <2>5. /\ t \in Nat /\ t <= nt /\ t <= Len(Tokens[r])
        /\ c <= t \div BlockSize
        /\ t \div BlockSize <= Len(l)
        /\ t = 0 => l = << >> \/ nt = 1
    BY <2>1, <2>4, <1>1, <1>2, <1>4, ReceivedTokens
  <2>6. PICK g : g = cache_blocks(k, r, t)
    OBVIOUS
  <2>7. /\ ManagerOK(g) /\ g.req_to_blocks = k.req_to_blocks
        /\ g.num_cached_block = [k.num_cached_block EXCEPT ![r] = t \div BlockSize]
    BY <2>3, <2>5, <2>6, <1>1, <1>2, <1>4, CacheBlocksOK
  <2>8. k.num_cached_block \in [Req -> Nat]
    BY <1>4 DEF ManagerOK, ManagerShape
  <2>9. /\ g.num_cached_block[r] = t \div BlockSize
        /\ \A q \in Req \ {r} : g.num_cached_block[q] = k.num_cached_block[q]
    BY <2>7, <2>8, <1>1
  <2>10. (t \div BlockSize) * BlockSize <= t
    BY <2>5, WholeBlocks
  <2>11. WaitsWell(nt, t, g.req_to_blocks[r], g.num_cached_block[r])
    BY <2>5, <2>7, <2>9, <2>10, <1>2 DEF WaitsWell
  <2>12. HeadAs(k, g, r, "WAITING", nt, t)
    BY <2>3, <2>5, <2>7, <2>9, <2>11, <1>4 DEF HeadAs
  <2> QED
    BY <2>2, <2>3, <2>6, <2>12, <1>2
<1> QED
  BY <1>5, <1>6

\* What the lookup finds for it.
LEMMA LookupAtHead ==
  ASSUME QueueInv, EngineInv, Modelled, InWaitingLoop, NEW r, r = Head(waiting)
  PROVE  LookupAs(ManagerAtHead(r), Lookup(r), r, req[r].num_tokens)
<1>1. r \in Req
  BY HeadWaits
<1>2. PICK g, nt : g = ManagerAtHead(r) /\ nt = req[r].num_tokens
  OBVIOUS
<1>3. ManagerOK(g) /\ nt \in 1..LengthCap(r)
  BY <1>2, HeadOK DEF HeadAs
<1>4. nt \in Nat \ {0} /\ nt <= Len(Tokens[r])
  BY <1>1, <1>3, CapBounds
<1>5. CASE ComputedAtHead(r) = 0
  BY <1>1, <1>2, <1>3, <1>4, <1>5, LookupOK DEF Lookup
<1>6. CASE ComputedAtHead(r) # 0
  <2>1. PICK f, h : f = Lookup(r) /\ h = << >>
    OBVIOUS
  <2>2. f.kvm = g /\ f.hits = h
    BY <2>1, <1>2, <1>6 DEF Lookup
  <2>3. HitsOK(g.pool, r, h) /\ Len(h) = 0 /\ 0 * BlockSize <= nt - 1
    BY <2>1, <1>1, <1>4, NoHits, ManagerAssumption
  <2>4. LookupAs(g, f, r, nt)
    BY <2>1, <2>2, <2>3, <1>3 DEF LookupAs
  <2> QED
    BY <2>1, <2>4, <1>2
<1> QED
  BY <1>5, <1>6

\* The computed tokens with the hits: at most all tokens, and all in blocks with hashes
\* or received.
LEMMA LocalOK ==
  ASSUME QueueInv, EngineInv, Modelled, InWaitingLoop, NEW r, r = Head(waiting),
         NEW nt, nt = req[r].num_tokens, NEW k, k = Lookup(r).kvm, NEW hits, hits = Lookup(r).hits,
         NEW local, local = LocalComputed(r)
  PROVE  /\ ManagerOK(k) /\ HitsOK(k.pool, r, hits) /\ k.req_to_blocks = kvm.req_to_blocks
         /\ \A q \in Req \ {r} : k.num_cached_block[q] = kvm.num_cached_block[q]
         /\ nt \in 1..LengthCap(r) /\ local \in Nat /\ local <= nt
         /\ hits = << >> \/ k.req_to_blocks[r] = << >>
         /\ Hashed(k, r, hits) \in Nat /\ Hashed(k, r, hits) * BlockSize <= local
         /\ ComputedAtHead(r) = 0 => Hashed(k, r, hits) * BlockSize <= nt - 1
         /\ r \in Req /\ call.output.num_scheduled_tokens[r] = 0
<1>1. PICK g, nc, n, l, c : /\ g = ManagerAtHead(r) /\ nc = ComputedAtHead(r) /\ n = Len(hits)
                            /\ l = g.req_to_blocks[r] /\ c = g.num_cached_block[r]
  OBVIOUS
<1>2. r \in Req /\ req[r].status \in Waits
  BY HeadWaits
<1>3. HeadAs(kvm, g, r, StatusAtHead(r), nt, nc) /\ LookupAs(g, Lookup(r), r, nt)
  BY <1>1, HeadOK, LookupAtHead
<1>4. /\ ManagerOK(k) /\ k.pool = g.pool /\ k.req_to_blocks = g.req_to_blocks
      /\ k.num_cached_block = g.num_cached_block /\ HitsOK(k.pool, r, hits)
      /\ n \in Nat /\ n * BlockSize <= nt - 1
  BY <1>1, <1>3 DEF LookupAs
<1>5. /\ g.req_to_blocks = kvm.req_to_blocks /\ nt \in 1..LengthCap(r) /\ nc \in Nat
      /\ \A q \in Req \ {r} : g.num_cached_block[q] = kvm.num_cached_block[q]
      /\ WaitsWell(nt, nc, l, c)
  BY <1>1, <1>3 DEF HeadAs
<1>6. LengthCap(r) \in Nat /\ BlockSize \in Nat \ {0}
  BY <1>2, CapBounds
<1>7. c \in Nat /\ c * BlockSize <= nc /\ nc <= nt /\ (nc = 0 => l = << >> \/ nt = 1)
      /\ c * BlockSize \in Nat
  <2>1. c \in Nat
    BY <1>1, <1>2, <1>4, NoneHashed
  <2> QED
    BY <2>1, <1>5, <1>6 DEF WaitsWell
<1>8. PICK x : x = n * BlockSize
  OBVIOUS
<1>9. x \in Nat /\ x <= nt - 1 /\ local = nc + x /\ (n > 0 => x > 0)
  <2>1. x = BlockSize * n
    BY <1>4, <1>6, <1>8
  <2> QED
    BY <2>1, <1>1, <1>4, <1>6, <1>8 DEF LocalComputed
<1>10. nc # 0 => hits = << >>
  BY <1>1 DEF Lookup
<1>11. n = 0 => hits = << >>
  <2>1. hits \in Seq(Blocks \ {NullBlock})
    BY <1>4 DEF HitsOK
  <2> QED
    BY <2>1, <1>1
<1>12. hits = << >> => n = 0 /\ x = 0
  BY <1>1, <1>6, <1>8
<1>13. local \in Nat /\ local <= nt /\ (hits = << >> \/ l = << >>)
  <2>1. CASE nc # 0
    BY <2>1, <1>5, <1>7, <1>9, <1>10, <1>12
  <2>2. CASE nc = 0
    <3>1. local = x /\ local \in Nat /\ local <= nt
      BY <2>2, <1>5, <1>6, <1>9
    <3>2. nt = 1 => n = 0
      BY <1>4, <1>9
    <3> QED
      BY <3>1, <3>2, <2>2, <1>7, <1>11
  <2> QED
    BY <2>1, <2>2
<1>14. Hashed(k, r, hits) = IF l = << >> THEN n ELSE c
  BY <1>1, <1>4 DEF Hashed
<1>15. Hashed(k, r, hits) \in Nat /\ Hashed(k, r, hits) * BlockSize <= local
       /\ (nc = 0 => Hashed(k, r, hits) * BlockSize <= nt - 1)
  <2>1. CASE l = << >>
    BY <2>1, <1>4, <1>5, <1>6, <1>8, <1>9, <1>14
  <2>2. CASE l # << >>
    BY <2>2, <1>5, <1>6, <1>7, <1>9, <1>14
  <2> QED
    BY <2>1, <2>2
<1>16. call.output.num_scheduled_tokens[r] = 0
  BY <1>2 DEF EngineInv, OutsOK, SchedPhase, InWaitingLoop, Waits
<1> QED
  BY <1>1, <1>2, <1>4, <1>5, <1>13, <1>15, <1>16

\* The request at the head waits on, as what it has become.
LEMMA HeadFits ==
  ASSUME NEW k, NEW g, NEW r, NEW v, NEW nt, NEW nc, HeadAs(k, g, r, v, nt, nc), NEW n, NEW d
  PROVE  Fits(r, v, nt, nc, n, d, g.req_to_blocks[r], g.num_cached_block[r])
<1>1. /\ nt \in 1..LengthCap(r) /\ nc \in Nat /\ v \in {"WAITING", "PREEMPTED"}
      /\ WaitsWell(nt, nc, g.req_to_blocks[r], g.num_cached_block[r])
      /\ v = "PREEMPTED" => g.req_to_blocks[r] = << >>
      /\ g.req_to_blocks[r] # << >> => r \in RemotePrefill
  BY DEF HeadAs
<1> QED
  BY <1>1 DEF Fits

LEMMA EngineWaitsOn ==
  ASSUME QueueInv, EngineInv, Modelled, InWaitingLoop, NEW r, r = Head(waiting),
         req' = ReqAtHead(r), kvm' = ManagerAtHead(r) \/ kvm' = Lookup(r).kvm,
         call'.phase \in {"waiting", "finish"}, call'.output = call.output,
         call'.token_budget = call.token_budget, call'.finished_sending = call.finished_sending,
         UNCHANGED batch_queue
  PROVE  EngineInv' /\ OthersKeep(r)
<1>1. PICK g, v, nc, nt : /\ g = ManagerAtHead(r) /\ v = StatusAtHead(r) /\ nc = ComputedAtHead(r)
                          /\ nt = req[r].num_tokens
  OBVIOUS
<1>2. r \in Req /\ req[r].status \in Waits /\ call.phase = "waiting"
  BY HeadWaits
<1>3. HeadAs(kvm, g, r, v, nt, nc) /\ LookupAs(g, Lookup(r), r, nt)
  BY <1>1, HeadOK, LookupAtHead
<1>4. /\ ManagerOK(kvm') /\ kvm'.req_to_blocks = g.req_to_blocks
      /\ kvm'.num_cached_block = g.num_cached_block
  BY <1>1, <1>3 DEF HeadAs, LookupAs
<1>5. /\ req'[r].status = v /\ req'[r].num_computed_tokens = nc /\ req'[r].num_tokens = nt
      /\ req'[r].spec_token_ids = req[r].spec_token_ids /\ \A q \in Req : q # r => req'[q] = req[q]
  <2>1. req' = [req EXCEPT ![r].status = v, ![r].num_computed_tokens = nc]
    BY <1>1 DEF ReqAtHead
  <2> QED
    BY <2>1, <1>1, <1>2 DEF QueueInv, Shapes, ReqFields
<1>6. Progress(r)'
  <2>1. req[r].spec_token_ids \in 0..NumSpecTokens
    BY <1>2 DEF EngineInv, Progress
  <2>2. \A n, d : Fits(r, v, nt, nc, n, d, g.req_to_blocks[r], g.num_cached_block[r])
    BY <1>3, HeadFits
  <2> QED
    BY <2>1, <2>2, <1>4, <1>5 DEF Progress
<1>7. PICK T \in SUBSET Req : T = {r}
  BY <1>2
<1>8. call.output.num_scheduled_tokens[r] = 0
  BY <1>2 DEF EngineInv, OutsOK, SchedPhase, Waits
<1>9. \A q \in Req \ T : /\ req'[q] = req[q]
                         /\ kvm'.req_to_blocks[q] = kvm.req_to_blocks[q]
                         /\ kvm'.num_cached_block[q] = kvm.num_cached_block[q]
  BY <1>3, <1>4, <1>5, <1>7 DEF HeadAs
<1>10. \A q \in T : Progress(q)' /\ call.output.num_scheduled_tokens[q] = 0
  BY <1>6, <1>7, <1>8
<1>11. OthersKeep(r)
  BY <1>7, <1>9 DEF OthersKeep, ListKept
<1>12. EngineInv'
  BY <1>2, <1>4, <1>9, <1>10, EngineKept
<1> QED
  BY <1>11, <1>12

LEMMA EngineSkipLora ==
  ASSUME QueueInv, EngineInv, Modelled, SkipLora, UNCHANGED batch_queue
  PROVE  EngineInv' /\ OthersKeep(Head(waiting))
<1>1. PICK r : r = Head(waiting)
  OBVIOUS
<1>2. /\ InWaitingLoop /\ call' = [call EXCEPT !.skipped = <<r>> \o @]
      /\ kvm' = ManagerAtHead(r) /\ req' = ReqAtHead(r)
  BY <1>1 DEF SkipLora
<1>3. /\ call'.phase = call.phase /\ call'.output = call.output
      /\ call'.token_budget = call.token_budget /\ call'.finished_sending = call.finished_sending
  BY <1>2 DEF CallFields, QueueInv, Shapes
<1>4. call.phase = "waiting"
  BY <1>2 DEF InWaitingLoop
<1> QED
  BY <1>1, <1>2, <1>3, <1>4, EngineWaitsOn

LEMMA EngineStopAtWaiting ==
  ASSUME QueueInv, EngineInv, Modelled, StopAtWaiting, UNCHANGED batch_queue
  PROVE  EngineInv' /\ OthersKeep(Head(waiting))
<1>1. PICK r : r = Head(waiting)
  OBVIOUS
<1>2. /\ InWaitingLoop /\ call' = [call EXCEPT !.phase = "finish"]
      /\ kvm' = Lookup(r).kvm /\ req' = ReqAtHead(r)
  BY <1>1 DEF StopAtWaiting, LooksUpHead, ConsidersHead
<1>3. /\ call'.phase = "finish" /\ call'.output = call.output
      /\ call'.token_budget = call.token_budget /\ call'.finished_sending = call.finished_sending
  BY <1>2 DEF CallFields, QueueInv, Shapes
<1> QED
  BY <1>1, <1>2, <1>3, EngineWaitsOn

\* A waiting request is scheduled: at least one token, and at most those it has.
LEMMA EngineScheduleWaiting ==
  ASSUME QueueInv, EngineInv, Modelled, ScheduleWaiting, UNCHANGED batch_queue
  PROVE  EngineInv' /\ OthersKeep(Head(waiting))
<1>1. PICK r, n, b, I, local, nt, k, hits :
        /\ r = Head(waiting) /\ n = NewTokensOfWaiting(r) /\ b = kvm'.req_to_blocks[r]
        /\ I = PlanOfWaiting(r).inputs /\ local = LocalComputed(r) /\ nt = req[r].num_tokens
        /\ k = Lookup(r).kvm /\ hits = Lookup(r).hits
  BY Zenon
<1>2. /\ InWaitingLoop /\ FitsWaiting(r) /\ ~load_kv_async(r)
      /\ kvm' = AllocatedWaiting(r)
      /\ req' = [req EXCEPT ![r].status = "RUNNING", ![r].num_computed_tokens = local]
      /\ \E e : call' = [call EXCEPT !.token_budget = @ - n, !.encoder_budget = e,
                      !.output = LET o == Scheduled(@, r, n, local, 0, b, I)
                                 IN IF StatusAtHead(r) = "PREEMPTED"
                                    THEN [o EXCEPT !.resumed = Append(@, r)]
                                    ELSE [o EXCEPT !.new = Append(@, r)]]
  BY <1>1 DEF ScheduleWaiting, LooksUpHead, ConsidersHead
<1>3. PICK e, p, o : /\ p = Scheduled(call.output, r, n, local, 0, b, I)
                     /\ o = IF StatusAtHead(r) = "PREEMPTED" THEN [p EXCEPT !.resumed = Append(@, r)]
                            ELSE [p EXCEPT !.new = Append(@, r)]
                     /\ call' = [call EXCEPT !.token_budget = @ - n, !.encoder_budget = e,
                                             !.output = o]
  BY <1>2
<1>4. /\ call'.phase = call.phase /\ call'.output = o
      /\ call'.token_budget = call.token_budget - n
      /\ call'.finished_sending = call.finished_sending
  BY <1>3 DEF CallFields, QueueInv, Shapes
<1>5. /\ ManagerOK(k) /\ HitsOK(k.pool, r, hits) /\ k.req_to_blocks = kvm.req_to_blocks
      /\ \A q \in Req \ {r} : k.num_cached_block[q] = kvm.num_cached_block[q]
      /\ nt \in 1..LengthCap(r) /\ local \in Nat /\ local <= nt
      /\ hits = << >> \/ k.req_to_blocks[r] = << >>
      /\ Hashed(k, r, hits) \in Nat /\ Hashed(k, r, hits) * BlockSize <= local
      /\ r \in Req
  BY <1>1, <1>2, LocalOK
<1>c. LengthCap(r) \in Nat /\ LengthCap(r) <= MaxModelLen /\ MaxModelLen \in Nat /\ NumSpecTokens \in Nat
  BY <1>5, CapBounds
<1>6. call.token_budget \in Nat /\ call.phase = "waiting"
  BY <1>2 DEF EngineInv, OutsOK, SchedPhase, InWaitingLoop
<1>7. PICK m : m = TokensOfWaiting(r)
  OBVIOUS
<1>8. m \in Nat /\ m <= call.token_budget /\ local + m <= nt
  <2>1. PICK y, t : y = call.token_budget /\ t = nt - local
    OBVIOUS
  <2>2. t \in Nat /\ y \in Nat
    BY <2>1, <1>5, <1>6, <1>c
  <2>3. m = AtMost(Threshold(t), y)
    BY <2>1, <1>1, <1>7 DEF TokensOfWaiting
  <2>4. m \in Nat /\ m <= y /\ m <= t
    BY <2>2, <2>3, SchedulerAssumption DEF AtMost, Threshold
  <2> QED
    BY <2>1, <2>4, <1>5, <1>c
<1>9. n \in 0..m
  <2>1. n = PlanOfWaiting(r).num_new_tokens
    BY <1>1, <1>2 DEF NewTokensOfWaiting
  <2>2. PlanOfWaiting(r) = try_schedule_encoder_inputs(enc, r, local, m, call.encoder_budget)
    BY <1>1, <1>7 DEF PlanOfWaiting
  <2> QED
    BY <2>1, <2>2, <1>5, <1>8, PlanBounds
<1>10. n \in Nat \ {0} /\ n <= call.token_budget /\ local + n <= nt /\ local + n <= MaxModelLen
       /\ CanAllocate(k, r, hits, num_required_blocks(local, n, num_lookahead_tokens))
  <2>1. n > 0 /\ CanAllocate(k, r, hits, num_required_blocks(local, n, num_lookahead_tokens))
    BY <1>1, <1>2 DEF FitsWaiting
  <2> QED
    BY <2>1, <1>5, <1>6, <1>8, <1>9, <1>c
<1>11. RunsAs(k, allocate_slots(k, r, hits, local, n, 0, num_lookahead_tokens, FALSE),
              r, nt, local, n, 0)
  <2>1. PICK d \in Nat : d = 0
    OBVIOUS
  <2>2. d = IF local + n > nt THEN local + n - nt ELSE 0
    BY <2>1, <1>5, <1>10, <1>c
  <2>3. n \in Nat /\ local + n <= MaxModelLen
        /\ CanAllocate(k, r, hits, num_required_blocks(local, n, num_lookahead_tokens))
    BY <1>10
  <2>4. RunsAs(k, allocate_slots(k, r, hits, local, n, d, num_lookahead_tokens, FALSE),
              r, nt, local, n, d)
    BY <2>2, <2>3, <1>5, RunsOn
  <2> QED
    BY <2>1, <2>4
<1>12. kvm' = allocate_slots(k, r, hits, local, n, 0, num_lookahead_tokens, FALSE)
  <2>1. load_kv_async(r) = FALSE
    BY <1>2 DEF load_kv_async
  <2> QED
    BY <2>1, <1>1, <1>2 DEF AllocatedWaiting
<1>13. /\ ManagerOK(kvm')
       /\ \A q \in Req \ {r} : /\ kvm'.req_to_blocks[q] = kvm.req_to_blocks[q]
                               /\ kvm'.num_cached_block[q] = kvm.num_cached_block[q]
       /\ Fits(r, "RUNNING", nt, local, local + n, 0, kvm'.req_to_blocks[r],
               kvm'.num_cached_block[r])
  BY <1>5, <1>11, <1>12 DEF RunsAs
<1>14. /\ req'[r].status = "RUNNING" /\ req'[r].num_computed_tokens = local
       /\ req'[r].num_tokens = req[r].num_tokens /\ req'[r].spec_token_ids = req[r].spec_token_ids
       /\ \A q \in Req : q # r => req'[q] = req[q]
  BY <1>1, <1>2, <1>5 DEF QueueInv, Shapes, ReqFields
<1>15. req'[r].spec_token_ids \in 0..NumSpecTokens
  BY <1>5, <1>14 DEF EngineInv, Progress
<1>16. Joins(call.output, o, r, n, local, 0, req[r].num_tokens)
  <2>1. OutputGood(call.output)
    BY DEF EngineInv, OutsOK
  <2>2. PICK z : z = call.output
    OBVIOUS
  <2>3. Joins(z, o, r, n, local, 0, req[r].num_tokens)
    BY <2>1, <2>2, <1>3, <1>5, JoinsOutput
  <2> QED
    BY <2>2, <2>3, <1>1
<1>17. /\ call'.phase = call.phase /\ call.phase \in {"running", "waiting"} /\ call'.phase # "running"
       /\ call'.finished_sending = call.finished_sending
       /\ r \in Req /\ local \in Nat /\ 0 \in 0..NumSpecTokens
  BY <1>4, <1>5, <1>6, <1>c
<1>18. /\ Joins(call.output, call'.output, r, n, local, 0, req[r].num_tokens)
       /\ Fits(r, "RUNNING", req[r].num_tokens, local, local + n, 0, kvm'.req_to_blocks[r],
               kvm'.num_cached_block[r])
  BY <1>1, <1>4, <1>13, <1>16
<1>19. \A q \in Req \ {r} : /\ req'[q] = req[q]
                            /\ kvm'.req_to_blocks[q] = kvm.req_to_blocks[q]
                            /\ kvm'.num_cached_block[q] = kvm.num_cached_block[q]
  BY <1>13, <1>14
<1>20. ManagerOK(kvm') /\ call'.token_budget \in Nat /\ n \in Nat \ {0}
  BY <1>4, <1>6, <1>10, <1>13
<1>21. PICK d : d = 0
  OBVIOUS
<1>22. /\ Joins(call.output, call'.output, r, n, local, d, req[r].num_tokens)
       /\ Fits(r, "RUNNING", req[r].num_tokens, local, local + n, d, kvm'.req_to_blocks[r],
               kvm'.num_cached_block[r])
       /\ d \in 0..NumSpecTokens /\ (d > 0 => local + n >= req[r].num_tokens)
  BY <1>17, <1>18, <1>21
<1>23. OthersKeep(r)
  BY <1>13 DEF OthersKeep, ListKept
<1>24. EngineInv'
  BY <1>14, <1>15, <1>17, <1>19, <1>20, <1>22, EngineScheduled
<1> QED
  BY <1>1, <1>23, <1>24

\* Blocks are allocated for the prompt, to be received.
LEMMA EngineLoadRemote ==
  ASSUME QueueInv, EngineInv, Modelled, LoadRemote, UNCHANGED batch_queue
  PROVE  EngineInv' /\ OthersKeep(Head(waiting))
<1>1. PICK r, n, local, nt, k, hits :
        /\ r = Head(waiting) /\ n = NewTokensOfWaiting(r) /\ local = LocalComputed(r)
        /\ nt = req[r].num_tokens /\ k = Lookup(r).kvm /\ hits = Lookup(r).hits
  OBVIOUS
<1>2. /\ InWaitingLoop /\ FitsWaiting(r) /\ load_kv_async(r)
      /\ kvm' = AllocatedWaiting(r) /\ call' = [call EXCEPT !.skipped = <<r>> \o @]
      /\ req' = [req EXCEPT ![r].status = "WAITING_FOR_REMOTE_KVS"]
  BY <1>1 DEF LoadRemote, LooksUpHead, ConsidersHead
<1>3. /\ call'.phase = "waiting" /\ call.phase = "waiting" /\ call'.output = call.output
      /\ call'.token_budget = call.token_budget /\ call'.finished_sending = call.finished_sending
  BY <1>2 DEF CallFields, QueueInv, Shapes, InWaitingLoop
<1>4. /\ ManagerOK(k) /\ HitsOK(k.pool, r, hits) /\ k.req_to_blocks = kvm.req_to_blocks
      /\ \A q \in Req \ {r} : k.num_cached_block[q] = kvm.num_cached_block[q]
      /\ nt \in 1..LengthCap(r) /\ local \in Nat
      /\ hits = << >> \/ k.req_to_blocks[r] = << >>
      /\ Hashed(k, r, hits) \in Nat
      /\ ComputedAtHead(r) = 0 => Hashed(k, r, hits) * BlockSize <= nt - 1
      /\ r \in Req /\ call.output.num_scheduled_tokens[r] = 0
  BY <1>1, <1>2, LocalOK
<1>c. /\ LengthCap(r) \in Nat /\ LengthCap(r) <= MaxModelLen /\ MaxModelLen \in Nat
      /\ NumSpecTokens \in Nat /\ PromptLen[r] \in 1..LengthCap(r) /\ BlockSize \in Nat \ {0}
  BY <1>4, CapBounds
<1>5. PICK x : x = round_down(PromptLen[r])
  OBVIOUS
<1>6. x \in Nat /\ x <= MaxModelLen
  <2>1. PICK d : d = PromptLen[r] \div BlockSize
    OBVIOUS
  <2>2. PromptLen[r] \in Nat
    BY <1>c
  <2>3. d \in Nat /\ d * BlockSize <= PromptLen[r] /\ x = BlockSize * d
    BY <2>1, <2>2, <1>5, WholeBlocks DEF round_down
  <2>4. BlockSize * d = d * BlockSize /\ d * BlockSize \in Nat
    BY <2>3, <1>c
  <2> QED
    BY <2>2, <2>3, <2>4, <1>c
<1>7. ComputedAtHead(r) = 0 /\ n \in Nat /\ local + n = x
  <2>1. n = ExternalComputed(r) /\ ExternalComputed(r) > 0
    BY <1>1, <1>2 DEF load_kv_async, NewTokensOfWaiting
  <2>2. ComputedAtHead(r) = 0 /\ n = num_external_computed_tokens(conn, r, local)
    BY <2>1, <1>1 DEF ExternalComputed
  <2>3. n = x - local /\ x > local
    BY <2>1, <2>2, <1>5 DEF num_external_computed_tokens
  <2> QED
    BY <2>2, <2>3, <1>4, <1>6
<1>8. CanAllocate(k, r, hits, num_required_blocks(local, n, num_lookahead_tokens))
  BY <1>1, <1>2 DEF FitsWaiting
<1>9. PICK lookahead \in Nat : lookahead = num_lookahead_tokens
  BY <1>c DEF num_lookahead_tokens
<1>10. AllocAs(k, allocate_slots(k, r, hits, local, n, 0, lookahead, TRUE), r, hits, local + n, 0, TRUE)
  <2>1. PICK delay \in BOOLEAN : delay = TRUE
    OBVIOUS
  <2>2. PICK d \in Nat : d = 0
    OBVIOUS
  <2>3. /\ CanAllocate(k, r, hits, num_required_blocks(local, n, lookahead))
        /\ local + n <= MaxModelLen /\ d <= local + n
    BY <2>2, <1>4, <1>6, <1>7, <1>8, <1>9
  <2>4. AllocAs(k, allocate_slots(k, r, hits, local, n, d, lookahead, delay), r, hits, local + n, d, delay)
    BY <2>1, <2>3, <1>4, <1>7, AllocOK
  <2> QED
    BY <2>1, <2>2, <2>4
<1>11. kvm' = allocate_slots(k, r, hits, local, n, 0, lookahead, TRUE)
  <2>1. load_kv_async(r) = TRUE
    BY <1>2 DEF load_kv_async
  <2> QED
    BY <2>1, <1>1, <1>2, <1>9 DEF AllocatedWaiting
<1>12. AllocAs(k, kvm', r, hits, local + n, 0, TRUE)
  BY <1>10, <1>11
<1>13. /\ ManagerOK(kvm')
       /\ \A q \in Req \ {r} : /\ kvm'.req_to_blocks[q] = kvm.req_to_blocks[q]
                               /\ kvm'.num_cached_block[q] = kvm.num_cached_block[q]
       /\ kvm'.num_cached_block[r] = Hashed(k, r, hits)
  BY <1>4, <1>12 DEF AllocAs
<1>14. /\ req'[r].status = "WAITING_FOR_REMOTE_KVS" /\ req'[r].num_tokens = nt
       /\ req'[r].num_computed_tokens = req[r].num_computed_tokens
       /\ req'[r].spec_token_ids = req[r].spec_token_ids
       /\ \A q \in Req : q # r => req'[q] = req[q]
  BY <1>1, <1>2, <1>4 DEF QueueInv, Shapes, ReqFields
<1>15. Progress(r)'
  <2>1. PICK nc, l, c : /\ nc = req[r].num_computed_tokens /\ l = kvm'.req_to_blocks[r]
                        /\ c = kvm'.num_cached_block[r]
    OBVIOUS
  <2>2. nc \in Nat /\ req[r].spec_token_ids \in 0..NumSpecTokens
    BY <2>1, <1>4 DEF EngineInv, Progress, Fits
  <2>3. c * BlockSize <= nt - 1
    BY <2>1, <1>4, <1>7, <1>13
  <2>4. ASSUME NEW a, NEW d PROVE Fits(r, "WAITING_FOR_REMOTE_KVS", nt, nc, a, d, l, c)
    BY <2>2, <2>3, <1>4 DEF Fits
  <2> QED
    BY <2>1, <2>2, <2>4, <1>14 DEF Progress
<1>16. PICK T \in SUBSET Req : T = {r}
  BY <1>4
<1>17. \A q \in Req \ T : /\ req'[q] = req[q]
                          /\ kvm'.req_to_blocks[q] = kvm.req_to_blocks[q]
                          /\ kvm'.num_cached_block[q] = kvm.num_cached_block[q]
  BY <1>13, <1>14, <1>16
<1>18. ManagerOK(kvm') /\ \A q \in T : Progress(q)' /\ call.output.num_scheduled_tokens[q] = 0
  BY <1>4, <1>13, <1>15, <1>16
<1>19. OthersKeep(r)
  BY <1>13 DEF OthersKeep, ListKept
<1>20. EngineInv'
  BY <1>3, <1>17, <1>18, EngineKept
<1> QED
  BY <1>1, <1>19, <1>20

\* With several batches in flight there are no drafts.
LEMMA NoDrafts ==
  ASSUME NEW o, OutputGood(o), NumSpecTokens = 0, NEW r \in Req PROVE o.spec[r] = 0
  BY GoodOutput

LEMMA UpdateBegins ==
  ASSUME NEW o
  PROVE  /\ BeginUpdate(o).phase = "update" /\ BeginUpdate(o).output = o
         /\ BeginUpdate(o).req_index = 1 /\ BeginUpdate(o).finished_sending = {}
         /\ BeginUpdate(o).new_running = << >>
  BY DEF BeginUpdate, NoCall

LEMMA EngineStepDrains ==
  ASSUME QueueInv, EngineInv, Modelled, StepDrains PROVE EngineInv'
<1>1. /\ UNCHANGED <<req, running, kvm>> /\ call.phase = "idle" /\ MaxConcurrentBatches > 1
      /\ call' = BeginUpdate(Head(batch_queue)) /\ batch_queue' = Tail(batch_queue)
      /\ Len(batch_queue) = MaxConcurrentBatches
  BY DEF StepDrains, BatchQueueFull
<1>2. PICK q : q = batch_queue
  OBVIOUS
<1>3. QueueGood(q) /\ q # << >>
  BY <1>1, <1>2, EngineAssumption DEF EngineInv, OutsOK
<1>4. OutputGood(Head(q)) /\ QueueGood(Tail(q))
  BY <1>3, QueueGoodSteps
<1>5. /\ call'.phase = "update" /\ call'.output = Head(q) /\ call'.finished_sending = {}
  BY <1>1, <1>2, UpdateBegins
<1>6. NumSpecTokens = 0
  BY <1>1, EngineAssumption DEF Modelled
<1>7. OutsOK'
  BY <1>1, <1>2, <1>4, <1>5 DEF OutsOK, SchedPhase, Phases
<1>8. ASSUME NEW r \in Req PROVE Progress(r)'
  <2>1. PICK o : o = Head(q)
    OBVIOUS
  <2>2. o.spec[r] = 0
    BY <2>1, <1>4, <1>6, <1>8, NoDrafts
  <2>3. Counted(r)' = 0 /\ Doubtful(r)' = 0 /\ Counted(r) = 0 /\ Doubtful(r) = 0
    BY <2>1, <2>2, <1>1, <1>5 DEF Counted, Doubtful, SchedPhase
  <2> QED
    BY <2>3, <1>1, <1>8, ProgressKept DEF EngineInv
<1> QED
  BY <1>1, <1>7, <1>8 DEF EngineInv

\* The end of schedule(): the scheduled tokens are counted in the requests.
LEMMA ProgressAdvances ==
  ASSUME EngineInv, NEW r \in Req, SchedPhase, ~SchedPhase', kvm' = kvm,
         req'[r].status = req[r].status, req'[r].num_tokens = req[r].num_tokens,
         req'[r].spec_token_ids = req[r].spec_token_ids,
         req'[r].num_computed_tokens
           = req[r].num_computed_tokens + call.output.num_scheduled_tokens[r],
         Doubtful(r)' = Doubtful(r)
  PROVE  Progress(r)'
<1>1. PICK v, nt, nc, m, d, l, c : /\ v = req[r].status /\ nt = req[r].num_tokens
                                   /\ nc = req[r].num_computed_tokens
                                   /\ m = call.output.num_scheduled_tokens[r] /\ d = Doubtful(r)
                                   /\ l = kvm.req_to_blocks[r] /\ c = kvm.num_cached_block[r]
  OBVIOUS
<1>2. m \in Nat /\ (v # "RUNNING" => m = 0)
  BY <1>1, GoodOutput DEF EngineInv, OutsOK
<1>3. Fits(r, v, nt, nc, nc + m, d, l, c)
  BY <1>1 DEF EngineInv, Progress, Counted
<1>4. nc \in Nat /\ nc + m \in Nat /\ (nc + m) + 0 = nc + m /\ (v # "RUNNING" => nc + m = nc)
  BY <1>2, <1>3 DEF Fits
<1>5. PICK x : x = nc + m
  OBVIOUS
<1>6. Fits(r, v, nt, x, x + 0, d, l, c)
  BY <1>3, <1>4, <1>5 DEF Fits
<1>7. Counted(r)' = 0
  BY DEF Counted
<1>8. req[r].spec_token_ids \in 0..NumSpecTokens
  BY DEF EngineInv, Progress
<1> QED
  BY <1>1, <1>5, <1>6, <1>7, <1>8 DEF Progress

LEMMA OutputComplete ==
  ASSUME OutputGood(call.output)
  PROVE  /\ OutputGood(OutputOfCall) /\ OutputOfCall.spec = call.output.spec
         /\ OutputOfCall.num_scheduled_tokens = call.output.num_scheduled_tokens
<1>2. PICK o, p : o = call.output /\ p = OutputOfCall
  OBVIOUS
<1>3. OutputShape(o) /\ DOMAIN o = OutputFields
  BY <1>2 DEF OutputGood, OutputShape
<1>4. \E a, b, c : p = [o EXCEPT !.finished = a, !.free_encoder_input_ids = b, !.kv_meta = c]
  BY <1>2 DEF OutputOfCall
<1>5. /\ DOMAIN p = OutputFields /\ p.num_scheduled_tokens = o.num_scheduled_tokens
      /\ p.num_computed_tokens = o.num_computed_tokens /\ p.num_tokens = o.num_tokens
      /\ p.ran = o.ran /\ p.resumed = o.resumed /\ p.spec = o.spec
  BY <1>3, <1>4 DEF OutputFields
<1>6. OutputShape(p)
  BY <1>3, <1>5 DEF OutputShape
<1>7. OutputGood(p)
  BY <1>2, <1>5, <1>6 DEF OutputGood, Samples
<1> QED
  BY <1>2, <1>5, <1>7

LEMMA EngineStepDispatches ==
  ASSUME QueueInv, EngineInv, Modelled, StepDispatches PROVE EngineInv'
<1>1. /\ running' = running /\ call.phase = "finish" /\ kvm' = kvm
      /\ req' = [r \in Req |-> [req[r] EXCEPT
                    !.num_computed_tokens = @ + call.output.num_scheduled_tokens[r]]]
  BY DEF StepDispatches, EndSchedule
<1>2. OutputGood(call.output) /\ QueueGood(batch_queue) /\ SchedPhase
  BY <1>1 DEF EngineInv, OutsOK, SchedPhase
<1>3. OutputGood(OutputOfCall) /\ OutputOfCall.spec = call.output.spec
  BY <1>2, OutputComplete
<1>4. \A r \in Req : /\ req'[r].num_computed_tokens
                          = req[r].num_computed_tokens + call.output.num_scheduled_tokens[r]
                     /\ req'[r].num_tokens = req[r].num_tokens
                     /\ req'[r].status = req[r].status
                     /\ req'[r].spec_token_ids = req[r].spec_token_ids
  BY <1>1 DEF QueueInv, Shapes, ReqFields
<1>5. CASE MaxConcurrentBatches = 1
  <2>1. call' = [NoCall EXCEPT !.phase = "execute", !.output = OutputOfCall]
        /\ batch_queue' = batch_queue
    BY <1>5 DEF StepDispatches
  <2>2. /\ call'.phase = "execute" /\ call'.output = OutputOfCall /\ call'.req_index = 1
        /\ call'.finished_sending = {}
    BY <2>1 DEF NoCall
  <2>3. OutsOK' /\ ~SchedPhase'
    BY <2>1, <2>2, <1>2, <1>3 DEF OutsOK, SchedPhase, Phases
  <2>4. ASSUME NEW r \in Req PROVE Doubtful(r)' = Doubtful(r)
    BY <2>2, <1>2, <1>3 DEF Doubtful
  <2> QED
    BY <2>3, <2>4, <1>1, <1>2, <1>4, ProgressAdvances DEF EngineInv
<1>6. CASE MaxConcurrentBatches # 1
  <2>1. NumSpecTokens = 0
    BY <1>6 DEF Modelled
  <2>2. \/ call' = NoCall /\ (batch_queue' = Append(batch_queue, OutputOfCall)
                               \/ batch_queue' = batch_queue)
        \/ /\ call' = BeginUpdate(Head(batch_queue)) /\ batch_queue' = Tail(batch_queue)
           /\ batch_queue # << >>
    BY <1>6 DEF StepDispatches
  <2>3. /\ call'.phase \in {"idle", "update"} /\ OutputGood(call'.output)
        /\ call'.finished_sending = {} /\ QueueGood(batch_queue')
    <3>1. PICK q, o : q = batch_queue /\ o = OutputOfCall
      OBVIOUS
    <3>2. /\ q # << >> => OutputGood(Head(q)) /\ QueueGood(Tail(q))
          /\ QueueGood(Append(q, o)) /\ QueueGood(q)
      BY <3>1, <1>2, <1>3, QueueGoodSteps
    <3>3. CASE call' = NoCall
      <4>1. NoCall.phase = "idle" /\ NoCall.output = NoOutput /\ NoCall.finished_sending = {}
        BY DEF NoCall
      <4>2. QueueGood(batch_queue')
        BY <3>1, <3>2, <2>2
      <4> QED
        BY <4>1, <4>2, <3>3, NoOutputGood
    <3>4. CASE call' # NoCall
      <4>1. PICK h : h = Head(q)
        OBVIOUS
      <4>2. OutputGood(h) /\ call' = BeginUpdate(h) /\ QueueGood(batch_queue')
        BY <4>1, <3>1, <3>2, <3>4, <2>2
      <4> QED
        BY <4>2, UpdateBegins
    <3> QED
      BY <3>3, <3>4
  <2>4. OutsOK' /\ ~SchedPhase'
    BY <2>3 DEF OutsOK, SchedPhase, Phases
  <2>5. ASSUME NEW r \in Req PROVE Doubtful(r)' = Doubtful(r)
    <3>1. PICK o, p : o = call.output /\ p = call'.output
      OBVIOUS
    <3>2. o.spec[r] = 0 /\ p.spec[r] = 0
      BY <3>1, <2>1, <2>3, <1>2, NoDrafts
    <3> QED
      BY <3>1, <3>2, <2>3 DEF Doubtful, SchedPhase
  <2> QED
    BY <2>4, <2>5, <1>1, <1>2, <1>4, ProgressAdvances DEF EngineInv
<1> QED
  BY <1>5, <1>6

LEMMA EngineExecuteModel ==
  ASSUME QueueInv, EngineInv, ExecuteModel PROVE EngineInv'
<1>1. /\ UNCHANGED <<req, running, kvm, batch_queue>> /\ call.phase = "execute"
      /\ \E a, x : call' = [BeginUpdate(call.output) EXCEPT !.finished_recving = a,
                                                  !.finished_sending = get_finished(x).sending]
  BY DEF ExecuteModel
<1>2. PICK a, x : call' = [BeginUpdate(call.output) EXCEPT !.finished_recving = a,
                                                  !.finished_sending = get_finished(x).sending]
  BY <1>1
<1>3. get_finished(x).sending \subseteq Req
  BY DEF get_finished
<1>4. /\ call'.phase = "update" /\ call'.output = call.output /\ call'.req_index = 1
      /\ call'.finished_sending = get_finished(x).sending
  BY <1>2 DEF BeginUpdate, NoCall
<1>5. OutsOK'
  BY <1>1, <1>3, <1>4 DEF EngineInv, OutsOK, SchedPhase, Phases
<1>6. ASSUME NEW r \in Req, req[r].status = "RUNNING" PROVE r \in StillToCome'
  <2>1. /\ running \in Seq(Req) /\ Members(running) = {q \in Req : Statuses[q] = "RUNNING"}
    BY <1>1 DEF QueueInv, Control, InPlace, Placed, LiveRunning
  <2>2. r \in Members(running)
    BY <2>1, <1>6 DEF Statuses
  <2>3. PICK i \in 1..Len(running) : r = running[i]
    BY <2>1, <2>2 DEF Members
  <2> QED
    BY <2>3, <1>1, <1>4 DEF StillToCome
<1>7. ASSUME NEW r \in Req PROVE Progress(r)'
  <2>1. Counted(r)' = Counted(r) /\ (req[r].status = "RUNNING" => Doubtful(r)' = Doubtful(r))
    BY <1>1, <1>4, <1>6, <1>7 DEF Counted, Doubtful, SchedPhase
  <2> QED
    BY <2>1, <1>1, <1>7, ProgressKept DEF EngineInv
<1> QED
  BY <1>1, <1>5, <1>7 DEF EngineInv

\* The loop of update_from_output(): the others are still to come, or have come.
LEMMA OthersToCome ==
  ASSUME QueueInv, InUpdateLoop, running' = running, call'.req_index = call.req_index + 1
  PROVE  StillToCome' = StillToCome \ {Current}
<1>1. PICK s, i, n, r : s = running /\ i = call.req_index /\ n = Len(s) /\ r = Current
  OBVIOUS
<1>2. i \in 1..n /\ n \in Nat /\ r = s[i]
  BY <1>1, CurrentRuns
<1>3. /\ {s[j] : j \in (i + 1)..n} \subseteq StillToCome
      /\ r \notin {s[j] : j \in (i + 1)..n}
  BY <1>1, CurrentIsNotToCome
<1>4. StillToCome' = {s[j] : j \in (i + 1)..n} /\ StillToCome = {s[j] : j \in i..n}
  BY <1>1 DEF StillToCome
<1>5. \A j \in i..n : j = i \/ j \in (i + 1)..n
  BY <1>2
<1>6. \A j \in i..n : s[j] = r \/ s[j] \in {s[m] : m \in (i + 1)..n}
  BY <1>2, <1>5
<1> QED
  <2>1. PICK T, U : T = {s[j] : j \in (i + 1)..n} /\ U = {s[j] : j \in i..n}
    OBVIOUS
  <2>2. T \subseteq U /\ r \notin T /\ StillToCome' = T /\ StillToCome = U
    BY <2>1, <1>3, <1>4
  <2>3. \A q \in U : q = r \/ q \in T
    BY <2>1, <1>6
  <2> QED
    BY <2>2, <2>3, <1>1

\* What the loop knows of the request at hand.
LEMMA CurrentInFlight ==
  ASSUME QueueInv, EngineInv, InUpdateLoop, NEW r, r = Current,
         NEW nt, nt = req[r].num_tokens, NEW nc, nc = req[r].num_computed_tokens,
         NEW d, d = call.output.spec[r], NEW l, l = kvm.req_to_blocks[r],
         NEW c, c = kvm.num_cached_block[r]
  PROVE  /\ r \in Req /\ nt \in 1..LengthCap(r) /\ nc \in Nat /\ d \in Nat /\ c \in Nat
         /\ RunsWell(nt, nc, d, l, c) /\ req[r].status = "RUNNING"
         /\ d > 0 => call.output.num_scheduled_tokens[r] > 0 /\ Samples(call.output, r)
<1>1. r \in Req /\ call.phase = "update" /\ r \in StillToCome /\ c \in Nat
  BY CurrentRuns, CurrentIsNotToCome, NoneHashed DEF EngineInv
<1>2. req[r].status = "RUNNING"
  <2>1. PICK s, i, m : s = running /\ i = call.req_index /\ m = call.new_running
    OBVIOUS
  <2>2. /\ i \in 1..Len(s) /\ s \in Seq(Req) /\ m \in Seq(Req) /\ r = s[i]
        /\ LiveRunning = m \o SubSeq(s, i, Len(s))
    BY <2>1, CurrentRuns
  <2>3. PICK u : u = SubSeq(s, i, Len(s))
    OBVIOUS
  <2>4. u \in Seq(Req) /\ Len(u) = Len(s) - i + 1 /\ u[1] = s[i] /\ Len(u) \in Nat /\ Len(u) >= 1
    BY <2>2, <2>3
  <2>5. Len(m) + 1 \in 1..(Len(m) + Len(u)) /\ Len(m) \in Nat
    BY <2>2, <2>4
  <2>6. PICK w : w = m \o u
    OBVIOUS
  <2>7. /\ Len(w) = Len(m) + Len(u) /\ DOMAIN w = 1..Len(w)
        /\ w[Len(m) + 1] = u[1]
    <3>1. /\ w \in Seq(Req) /\ Len(w) = Len(m) + Len(u)
          /\ \A k \in 1..(Len(m) + Len(u)) : w[k] = IF k <= Len(m) THEN m[k] ELSE u[k - Len(m)]
      BY <2>2, <2>4, <2>6, ConcatProperties
    <3>2. w[Len(m) + 1] = u[(Len(m) + 1) - Len(m)] /\ (Len(m) + 1) - Len(m) = 1
      BY <3>1, <2>5
    <3> QED
      BY <3>1, <3>2
  <2>8. r \in Members(w)
    BY <2>2, <2>4, <2>5, <2>7 DEF Members
  <2>9. Members(w) = {q \in Req : Statuses[q] = "RUNNING"}
    BY <2>2, <2>3, <2>6 DEF QueueInv, InPlace, Placed
  <2> QED
    BY <2>8, <2>9 DEF Statuses
<1>3. Counted(r) = 0 /\ Doubtful(r) = d
  BY <1>1 DEF Counted, Doubtful, SchedPhase
<1>4. Fits(r, "RUNNING", nt, nc, nc + 0, d, l, c)
  BY <1>1, <1>2, <1>3 DEF EngineInv, Progress
<1>5. nt \in 1..LengthCap(r) /\ nc \in Nat /\ RunsWell(nt, nc, d, l, c)
  BY <1>4 DEF Fits
<1>6. d \in Nat /\ (d > 0 => call.output.num_scheduled_tokens[r] > 0 /\ Samples(call.output, r))
  <2>1. PICK o : o = call.output
    OBVIOUS
  <2>2. OutputGood(o)
    BY <2>1 DEF EngineInv, OutsOK
  <2> QED
    BY <2>1, <2>2, <1>1, GoodOutput
<1> QED
  BY <1>1, <1>2, <1>5, <1>6

LEMMA EngineUpdates ==
  ASSUME QueueInv, EngineInv, InUpdateLoop, NEW r, r = Current, running' = running,
         UNCHANGED batch_queue, call'.phase = "update", call'.output = call.output,
         call'.req_index = call.req_index + 1, call'.finished_sending = call.finished_sending,
         ManagerOK(kvm'),
         \A q \in Req \ {r} : /\ req'[q] = req[q]
                              /\ kvm'.req_to_blocks[q] = kvm.req_to_blocks[q]
                              /\ kvm'.num_cached_block[q] = kvm.num_cached_block[q],
         Counted(r)' = 0 /\ Doubtful(r)' = 0 => Progress(r)'
  PROVE  EngineInv'
<1>1. call.phase = "update" /\ r \in Req /\ StillToCome' = StillToCome \ {r}
  BY CurrentRuns, OthersToCome
<1>2. Counted(r)' = 0 /\ Doubtful(r)' = 0
  BY <1>1 DEF Counted, Doubtful, SchedPhase
<1>3. ASSUME NEW q \in Req, q # r PROVE Progress(q)'
  <2>1. Counted(q)' = Counted(q) /\ Doubtful(q)' = Doubtful(q)
    BY <1>1, <1>3 DEF Counted, Doubtful, SchedPhase
  <2> QED
    BY <2>1, <1>3, ProgressKept DEF EngineInv
<1>4. OutsOK'
  BY <1>1 DEF EngineInv, OutsOK, SchedPhase
<1> QED
  BY <1>2, <1>3, <1>4 DEF EngineInv

LEMMA EngineKeepUnscheduled ==
  ASSUME QueueInv, EngineInv, KeepUnscheduled, UNCHANGED batch_queue PROVE EngineInv'
<1>1. PICK r, nt, nc, d, l, c :
         /\ r = Current /\ nt = req[r].num_tokens /\ nc = req[r].num_computed_tokens
         /\ d = call.output.spec[r] /\ l = kvm.req_to_blocks[r] /\ c = kvm.num_cached_block[r]
  OBVIOUS
<1>2. /\ InUpdateLoop /\ UNCHANGED <<req, running, kvm>>
      /\ call.output.num_scheduled_tokens[r] = 0
      /\ call' = [call EXCEPT !.req_index = @ + 1, !.new_running = Append(@, Current)]
  BY <1>1 DEF KeepUnscheduled
<1>3. /\ call'.phase = "update" /\ call'.output = call.output
      /\ call'.req_index = call.req_index + 1 /\ call'.finished_sending = call.finished_sending
  BY <1>2 DEF QueueInv, Shapes, CallFields, InUpdateLoop
<1>4. /\ r \in Req /\ nt \in 1..LengthCap(r) /\ nc \in Nat /\ d \in Nat /\ c \in Nat
      /\ RunsWell(nt, nc, d, l, c) /\ req[r].status = "RUNNING"
      /\ d > 0 => call.output.num_scheduled_tokens[r] > 0
  BY <1>1, <1>2, CurrentInFlight
<1>5. d = 0
  BY <1>2, <1>4
<1>6. Fits(r, "RUNNING", nt, nc, nc + 0, 0, l, c)
  BY <1>4, <1>5 DEF Fits
<1>7. req[r].spec_token_ids \in 0..NumSpecTokens
  BY <1>4 DEF EngineInv, Progress
<1>8. Counted(r)' = 0 /\ Doubtful(r)' = 0 => Progress(r)'
  BY <1>1, <1>2, <1>4, <1>6, <1>7 DEF Progress
<1>9. ManagerOK(kvm') /\ kvm' = kvm /\ req' = req
  BY <1>2 DEF EngineInv
<1> QED
  BY <1>1, <1>2, <1>3, <1>8, <1>9, EngineUpdates

\* The rejected drafts are taken back; what is left is certain.
LEMMA TakenBack ==
  ASSUME QueueInv, EngineInv, InUpdateLoop, NEW r, r = Current,
         NEW nt, nt = req[r].num_tokens, NEW l, l = kvm.req_to_blocks[r],
         NEW c, c = kvm.num_cached_block[r], NEW g \in Generated(call.output, r),
         NEW x, x = ComputedAfter(r, g)
  PROVE  /\ g \in Nat /\ x \in Nat /\ nt \in 1..LengthCap(r) /\ r \in Req
         /\ RunsWell(nt + g, x, 0, l, c) /\ req[r].status = "RUNNING"
<1>1. PICK nc, d : nc = req[r].num_computed_tokens /\ d = call.output.spec[r]
  OBVIOUS
<1>2. /\ r \in Req /\ nt \in 1..LengthCap(r) /\ nc \in Nat /\ d \in Nat /\ c \in Nat
      /\ RunsWell(nt, nc, d, l, c) /\ req[r].status = "RUNNING"
      /\ d > 0 => Samples(call.output, r)
  BY <1>1, CurrentInFlight
<1>3. LengthCap(r) \in Nat /\ BlockSize \in Nat \ {0}
  BY <1>2, CapBounds
<1>4. g \in Nat /\ g <= 1 + d /\ (d > 0 => g > 0)
  BY <1>1, <1>2 DEF Generated
<1>5. x = IF d > 0 THEN nc - (d + 1 - g) ELSE nc
  BY <1>1, <1>2 DEF ComputedAfter, Rejected
<1>6. PICK y, z : y = c * BlockSize /\ z = BlockSize * Len(l)
  OBVIOUS
<1>7. y \in Nat /\ y <= nc - d /\ nc - d <= nt /\ nc <= z
  BY <1>2, <1>3, <1>6 DEF RunsWell
<1>8. z \in Nat
  <2>1. Len(l) \in Nat
    BY <1>2, NoneHashed DEF EngineInv
  <2> QED
    BY <2>1, <1>3, <1>6
<1>9. x \in Nat /\ y <= x /\ x <= nt + g /\ x <= z
  BY <1>2, <1>3, <1>4, <1>5, <1>7, <1>8
<1>10. x - 0 = x
  BY <1>9
<1>11. RunsWell(nt + g, x, 0, l, c)
  BY <1>6, <1>9, <1>10 DEF RunsWell
<1> QED
  BY <1>2, <1>4, <1>9, <1>11

LEMMA EngineUpdateContinues ==
  ASSUME QueueInv, EngineInv, InUpdateLoop, UNCHANGED batch_queue,
         NEW g \in Generated(call.output, Current), NEW drafts \in 0..NumSpecTokens,
         UpdateContinues(Current, g, drafts)
  PROVE  EngineInv'
<1>1. PICK r, nt, x, l, c :
         /\ r = Current /\ nt = req[r].num_tokens /\ x = ComputedAfter(r, g)
         /\ l = kvm.req_to_blocks[r] /\ c = kvm.num_cached_block[r]
  OBVIOUS
<1>2. /\ UNCHANGED <<running, kvm>> /\ ~ReachesCap(r, nt + g)
      /\ call' = [call EXCEPT !.req_index = @ + 1, !.new_running = Append(@, r)]
      /\ req' = [req EXCEPT ![r].num_tokens = nt + g, ![r].num_computed_tokens = x,
                            ![r].spec_token_ids = drafts]
  BY <1>1 DEF UpdateContinues
<1>3. /\ call'.phase = "update" /\ call'.output = call.output
      /\ call'.req_index = call.req_index + 1 /\ call'.finished_sending = call.finished_sending
  BY <1>2 DEF QueueInv, Shapes, CallFields, InUpdateLoop
<1>4. /\ g \in Nat /\ x \in Nat /\ nt \in 1..LengthCap(r) /\ r \in Req
      /\ RunsWell(nt + g, x, 0, l, c) /\ req[r].status = "RUNNING"
  BY <1>1, TakenBack
<1>5. /\ req'[r].status = "RUNNING" /\ req'[r].num_tokens = nt + g
      /\ req'[r].num_computed_tokens = x /\ req'[r].spec_token_ids = drafts
      /\ \A q \in Req : q # r => req'[q] = req[q]
  BY <1>2, <1>4 DEF QueueInv, Shapes, ReqFields
<1>6. nt + g \in 1..LengthCap(r)
  BY <1>2, <1>4, CapBounds DEF ReachesCap
<1>7. PICK y : y = nt + g
  OBVIOUS
<1>8. x + 0 = x
  BY <1>4
<1>9. Fits(r, "RUNNING", y, x, x + 0, 0, l, c)
  BY <1>4, <1>6, <1>7, <1>8 DEF Fits
<1>10. Counted(r)' = 0 /\ Doubtful(r)' = 0 => Progress(r)'
  BY <1>1, <1>2, <1>5, <1>7, <1>9 DEF Progress
<1>11. ManagerOK(kvm') /\ kvm' = kvm
  BY <1>2 DEF EngineInv
<1> QED
  BY <1>1, <1>2, <1>3, <1>5, <1>10, <1>11, EngineUpdates

LEMMA EngineUpdateStops ==
  ASSUME QueueInv, EngineInv, InUpdateLoop, UNCHANGED batch_queue,
         NEW g \in Generated(call.output, Current), UpdateStops(Current, g)
  PROVE  EngineInv' /\ OthersKeep(Current)
<1>1. PICK r, nt, x : r = Current /\ nt = req[r].num_tokens /\ x = ComputedAfter(r, g)
  OBVIOUS
<1>2. PICK n \in 1..g :
         /\ ~ReachesCap(r, nt + n - 1)
         /\ req' = [req EXCEPT ![r].status = "FINISHED", ![r].num_tokens = nt + n,
                               ![r].num_computed_tokens = x]
         /\ free_request(r, request_finished(kvm, r, ReachesCap(r, nt + n), x))
  BY <1>1 DEF UpdateStops
<1>3. /\ call' = [call EXCEPT !.req_index = @ + 1] /\ running' = running
      /\ \/ kvm' = kvm /\ r \in RemoteDecode
         \/ kvm' = free_block_hashes(free(kvm, r), r)
  <2>1. call' = [call EXCEPT !.req_index = @ + 1] /\ running' = running
    BY <1>1 DEF UpdateStops
  <2>2. PICK delay : delay = request_finished(kvm, r, ReachesCap(r, nt + n), x)
    OBVIOUS
  <2>3. delay => r \in RemoteDecode
    BY <2>2 DEF request_finished
  <2>4. kvm' = IF delay THEN kvm ELSE free_block_hashes(free(kvm, r), r)
    BY <2>2, <1>2 DEF free_request, FreedManager
  <2> QED
    BY <2>1, <2>3, <2>4
<1>4. /\ call'.phase = "update" /\ call'.output = call.output
      /\ call'.req_index = call.req_index + 1 /\ call'.finished_sending = call.finished_sending
  BY <1>3 DEF QueueInv, Shapes, CallFields, InUpdateLoop
<1>5. g \in Nat /\ x \in Nat /\ nt \in 1..LengthCap(r) /\ r \in Req
  BY <1>1, TakenBack
<1>6. /\ req'[r].status = "FINISHED" /\ req'[r].num_tokens = nt + n
      /\ req'[r].num_computed_tokens = x /\ req'[r].spec_token_ids = req[r].spec_token_ids
      /\ \A q \in Req : q # r => req'[q] = req[q]
  BY <1>2, <1>5 DEF QueueInv, Shapes, ReqFields
<1>7. nt + n \in 1..LengthCap(r)
  BY <1>2, <1>5, CapBounds DEF ReachesCap
<1>8. /\ ManagerOK(kvm') /\ (kvm'.req_to_blocks[r] = << >> \/ r \in RemoteDecode)
      /\ \A q \in Req \ {r} : /\ kvm'.req_to_blocks[q] = kvm.req_to_blocks[q]
                              /\ kvm'.num_cached_block[q] = kvm.num_cached_block[q]
  <2>1. CASE kvm' = kvm /\ r \in RemoteDecode
    BY <2>1 DEF EngineInv
  <2>2. CASE kvm' = free_block_hashes(free(kvm, r), r)
    BY <2>2, <1>5, FreedAsOK DEF EngineInv, FreedOf
  <2> QED
    BY <2>1, <2>2, <1>3
<1>9. req[r].spec_token_ids \in 0..NumSpecTokens
  BY <1>5 DEF EngineInv, Progress
<1>10. Progress(r)'
  BY <1>5, <1>6, <1>7, <1>8, <1>9, FinishedFits DEF Progress
<1>11. OthersKeep(r)
  BY <1>8 DEF OthersKeep, ListKept
<1>12. EngineInv'
  BY <1>1, <1>3, <1>4, <1>6, <1>8, <1>10, EngineUpdates
<1> QED
  BY <1>1, <1>11, <1>12

\* The requests that were sent are freed one after the other; Picked is the choice of
\* FoldSet.
Picked(s) == CHOOSE x \in s : TRUE
LEMMA AnyLeaves ==
  ASSUME NEW S, IsFiniteSet(S), NEW s \in SUBSET S, s # {}
  PROVE  /\ Picked(s) \in s /\ s \ {Picked(s)} \in SUBSET S /\ Picked(s) \in S
         /\ Cardinality(s) \in Nat /\ Cardinality(s \ {Picked(s)}) \in Nat
         /\ Cardinality(s \ {Picked(s)}) = Cardinality(s) - 1
<1>1. Picked(s) \in s
  BY DEF Picked
<1>2. IsFiniteSet(s)
  BY FS_Subset
<1>3. /\ Cardinality(s) \in Nat /\ Cardinality(s \ {Picked(s)}) = Cardinality(s) - 1
      /\ IsFiniteSet(s \ {Picked(s)})
  BY <1>1, <1>2, FS_CardinalityType, FS_RemoveElement
<1>4. Cardinality(s \ {Picked(s)}) \in Nat
  BY <1>3, FS_CardinalityType
<1> QED
  BY <1>1, <1>3, <1>4

\* A fact about the subsets of a finite set that holds of a set when it holds of the
\* set without one element holds of all.
LEMMA SetInduction ==
  ASSUME NEW S, IsFiniteSet(S), NEW T, {} \in T,
         \A s \in SUBSET S : s # {} /\ s \ {Picked(s)} \in T => s \in T
  PROVE  \A s \in SUBSET S : s \in T
<1>1. PICK n \in Nat : n = Cardinality(S)
  BY FS_CardinalityType
<1>c. \A s \in SUBSET S : IsFiniteSet(s) /\ Cardinality(s) \in Nat /\ Cardinality(s) \in 0..n
  BY <1>1, FS_Subset, FS_CardinalityType
<1> DEFINE M == {m \in 0..n : \A s \in SUBSET S : Cardinality(s) <= m => s \in T}
<1>2. 0 \in M
  <2>1. ASSUME NEW s \in SUBSET S, Cardinality(s) <= 0 PROVE s \in T
    <3>1. Cardinality(s) = 0
      BY <2>1, <1>c
    <3>2. s = {}
      BY <3>1, <1>c, FS_EmptySet
    <3> QED
      BY <3>2
  <2> QED
    BY <2>1
<1>3. ASSUME NEW m \in 0..(n - 1), m \in M PROVE m + 1 \in M
  <2>1. ASSUME NEW s \in SUBSET S, Cardinality(s) <= m + 1 PROVE s \in T
    <3>1. CASE s = {}
      BY <3>1
    <3>2. CASE s # {}
      <4>1. /\ s \ {Picked(s)} \in SUBSET S
            /\ Cardinality(s) \in Nat /\ Cardinality(s \ {Picked(s)}) = Cardinality(s) - 1
        BY <3>2, AnyLeaves
      <4>2. Cardinality(s \ {Picked(s)}) <= m
        BY <4>1, <2>1
      <4>3. s \ {Picked(s)} \in T
        BY <4>1, <4>2, <1>3
      <4> QED
        BY <4>3, <3>2
    <3> QED
      BY <3>1, <3>2
  <2> QED
    BY <2>1
<1>4. \A m \in 0..n : m \in M
  <2> HIDE DEF M
  <2> QED
    BY <1>2, <1>3, CountUp
<1>5. n \in M
  BY <1>4
<1> QED
  BY <1>5, <1>c

\* What freeing the requests of a set one by one computes.
FreesEach(h, k, S) ==
  /\ h[{}] = k
  /\ \A s \in SUBSET S : s # {} => h[s] = FreedManager(h[s \ {Picked(s)}], Picked(s))
  /\ FreedManagers(k, S) = h[S]
LEMMA FreedIterates ==
  ASSUME NEW k, NEW S, IsFiniteSet(S)
  PROVE  \E h : FreesEach(h, k, S)
<1>n. PICK n \in Nat : n = Cardinality(S)
  BY FS_CardinalityType
<1>c. \A s \in SUBSET S : IsFiniteSet(s) /\ Cardinality(s) \in Nat /\ Cardinality(s) <= n
  BY <1>n, FS_Subset, FS_CardinalityType
<1> DEFINE Eq(g, s) == g[s] = IF s = {} THEN k ELSE FreedManager(g[s \ {Picked(s)}], Picked(s))
           Works(g, m) == /\ g = [s \in SUBSET S |-> g[s]]
                          /\ \A s \in SUBSET S : Cardinality(s) <= m => Eq(g, s)
           T == {m \in 0..n : \E g : Works(g, m)}
<1> HIDE DEF Works
<1>1. 0 \in T
  <2>1. PICK g : g = [s \in SUBSET S |-> k]
    OBVIOUS
  <2>2. \A s \in SUBSET S : Cardinality(s) <= 0 => s = {}
    <3>1. \A s \in SUBSET S : Cardinality(s) <= 0 => Cardinality(s) = 0
      BY <1>c
    <3> QED
      BY <3>1, <1>c, FS_EmptySet
  <2>3. Works(g, 0)
    BY <2>1, <2>2 DEF Works
  <2> QED
    BY <2>3
<1>2. ASSUME NEW m \in 0..(n - 1), m \in T PROVE m + 1 \in T
  <2>1. PICK g : Works(g, m)
    BY <1>2
  <2>2. PICK f : f = [s \in SUBSET S |->
                        IF s = {} THEN k ELSE FreedManager(g[s \ {Picked(s)}], Picked(s))]
    OBVIOUS
  <2>3. \A s \in SUBSET S : Cardinality(s) <= m => f[s] = g[s]
    BY <2>1, <2>2 DEF Works
  <2>4. ASSUME NEW s \in SUBSET S, Cardinality(s) <= m + 1 PROVE Eq(f, s)
    <3>1. CASE s = {}
      BY <3>1, <2>2
    <3>2. CASE s # {}
      <4>1. /\ s \ {Picked(s)} \in SUBSET S
            /\ Cardinality(s) \in Nat /\ Cardinality(s \ {Picked(s)}) = Cardinality(s) - 1
        BY <3>2, AnyLeaves
      <4>2. Cardinality(s \ {Picked(s)}) <= m
        BY <4>1, <2>4
      <4>3. f[s \ {Picked(s)}] = g[s \ {Picked(s)}]
        BY <4>1, <4>2, <2>3
      <4> QED
        BY <4>3, <3>2, <2>2
    <3> QED
      BY <3>1, <3>2
  <2>5. Works(f, m + 1)
    <3> HIDE DEF Eq
    <3>1. f = [s \in SUBSET S |-> f[s]]
      BY <2>2
    <3> QED
      BY <2>4, <3>1 DEF Works
  <2> QED
    BY <2>5
<1>3. n \in T
  <2> HIDE DEF T
  <2>1. \A m \in 0..n : m \in T
    BY <1>1, <1>2, CountUp
  <2> QED
    BY <2>1
<1>4. PICK g : Works(g, n)
  BY <1>3
<1>5. g = [s \in SUBSET S |-> IF s = {} THEN k ELSE FreedManager(g[s \ {Picked(s)}], Picked(s))]
  <2>1. \A s \in SUBSET S : Eq(g, s)
    BY <1>4, <1>c DEF Works
  <2> QED
    BY <2>1, <1>4 DEF Works
<1>6. PICK w : /\ w = [s \in SUBSET S |-> IF s = {} THEN k
                         ELSE FreedManager(w[s \ {Picked(s)}], Picked(s))]
               /\ FreedManagers(k, S) = w[S]
  BY <1>5 DEF FreedManagers, FoldSet, MapThenFoldSet, Picked
<1>7. w[{}] = k /\ \A s \in SUBSET S : s # {} => w[s] = FreedManager(w[s \ {Picked(s)}], Picked(s))
  BY <1>6
<1> QED
  BY <1>6, <1>7 DEF FreesEach

\* What freeing some requests leaves: they have nothing, the others keep what they have.
Emptied(k, g, S) ==
  /\ ManagerOK(g)
  /\ \A q \in Req : \/ /\ g.req_to_blocks[q] = k.req_to_blocks[q]
                       /\ g.num_cached_block[q] = k.num_cached_block[q]
                    \/ q \in S /\ g.req_to_blocks[q] = << >> /\ g.num_cached_block[q] = 0
LEMMA FreedManagersOK ==
  ASSUME NEW k, ManagerOK(k), NEW S \in SUBSET Req PROVE Emptied(k, FreedManagers(k, S), S)
<1>1. IsFiniteSet(S)
  <2>1. IsFiniteSet(Req)
    BY ManagerAssumption
  <2> QED
    BY <2>1, FS_Subset
<1>e. PICK h : FreesEach(h, k, S)
  BY <1>1, FreedIterates
<1>2. /\ h[{}] = k
      /\ \A s \in SUBSET S : s # {} => h[s] = FreedManager(h[s \ {Picked(s)}], Picked(s))
      /\ FreedManagers(k, S) = h[S]
  BY <1>e DEF FreesEach
<1> DEFINE T == {s \in SUBSET S : Emptied(k, h[s], S)}
<1>3. {} \in T
  BY <1>2 DEF Emptied
<1>4. ASSUME NEW s \in SUBSET S, s # {}, s \ {Picked(s)} \in T PROVE s \in T
  <2>1. PICK r, g, m : r = Picked(s) /\ g = h[s \ {Picked(s)}] /\ m = h[s]
    OBVIOUS
  <2>2. r \in Req /\ r \in S
    BY <1>1, <1>4, <2>1, AnyLeaves
  <2>3. Emptied(k, g, S)
    BY <1>4, <2>1
  <2>4. m = free_block_hashes(free(g, r), r)
    BY <1>2, <1>4, <2>1 DEF FreedManager
  <2>5. FreedOf(g, m, r)
    BY <2>2, <2>3, <2>4, FreedAsOK DEF Emptied
  <2>6. Emptied(k, m, S)
    BY <2>2, <2>3, <2>5 DEF Emptied, FreedOf
  <2> QED
    BY <2>1, <2>6
<1>5. \A s \in SUBSET S : s \in T
  <2> HIDE DEF T
  <2> QED
    BY <1>1, <1>3, <1>4, SetInduction
<1> QED
  BY <1>2, <1>5

LEMMA EngineEndUpdate ==
  ASSUME QueueInv, EngineInv, UNCHANGED batch_queue, EndUpdate,
         \A r \in call.finished_sending : req[r].status = "FINISHED"
  PROVE  EngineInv' /\ Emptied(kvm, kvm', call.finished_sending)
<1>1. /\ call.phase = "update" /\ ~InUpdateLoop /\ call' = NoCall /\ req' = req
      /\ kvm' = FreedManagers(kvm, call.finished_sending)
  BY DEF EndUpdate
<1>2. call'.phase = "idle" /\ call'.output = NoOutput /\ call'.finished_sending = {}
  BY <1>1 DEF NoCall
<1>3. Emptied(kvm, kvm', call.finished_sending)
  BY <1>1, FreedManagersOK DEF EngineInv, OutsOK
<1>4. OutsOK'
  BY <1>2, NoOutputGood DEF EngineInv, OutsOK, Phases, SchedPhase
<1>5. ASSUME NEW r \in Req PROVE Progress(r)'
  <2>1. Counted(r)' = 0 /\ Doubtful(r)' = 0 /\ Counted(r) = 0
    BY <1>1, <1>2 DEF Counted, Doubtful, SchedPhase
  <2>2. Doubtful(r) = 0
    <3>1. call.req_index \in Nat /\ Len(running) \in Nat
      BY DEF QueueInv, Control
    <3>2. StillToCome = {}
      BY <3>1, <1>1 DEF StillToCome, InUpdateLoop
    <3> QED
      BY <3>2, <1>1 DEF Doubtful, SchedPhase
  <2>3. PICK q, l, c, ll, cc :
          /\ q = req[r] /\ l = kvm.req_to_blocks[r] /\ c = kvm.num_cached_block[r]
          /\ ll = kvm'.req_to_blocks[r] /\ cc = kvm'.num_cached_block[r]
    OBVIOUS
  <2>4. (ll = l /\ cc = c) \/ (q.status # "RUNNING" /\ ll = << >> /\ cc = 0)
    BY <1>3, <2>3 DEF Emptied
  <2>5. /\ Fits(r, q.status, q.num_tokens, q.num_computed_tokens,
                q.num_computed_tokens + 0, 0, l, c)
        /\ q.spec_token_ids \in 0..NumSpecTokens
    BY <2>1, <2>2, <2>3 DEF EngineInv, Progress
  <2>6. c \in Nat
    BY <2>3, NoneHashed DEF EngineInv
  <2>7. BlockSize \in Nat
    BY CapBounds
  <2>8. PICK nt, nc, n, y : /\ nt = q.num_tokens /\ nc = q.num_computed_tokens
                            /\ n = q.num_computed_tokens + 0 /\ y = c * BlockSize
    OBVIOUS
  <2>9. y \in Nat /\ 0 * BlockSize = 0
    BY <2>6, <2>7, <2>8
  <2>10. ASSUME q.status # "RUNNING", ll = << >>, cc = 0
         PROVE  Fits(r, q.status, nt, nc, n, 0, ll, cc)
    <3>1. q.status \in {"WAITING", "WAITING_FOR_FSM", "PREEMPTED"} => WaitsWell(nt, nc, ll, cc)
      BY <2>5, <2>8, <2>9, <2>10 DEF Fits, WaitsWell
    <3>2. nt \in 1..LengthCap(r) /\ nc \in Nat /\ (q.status = "NEW" => nc = 0) /\ LengthCap(r) \in Nat
      BY <2>5, <2>8, CapBounds DEF Fits
    <3> QED
      BY <3>1, <3>2, <2>9, <2>10 DEF Fits
  <2>11. Fits(r, q.status, nt, nc, n, 0, ll, cc)
    BY <2>4, <2>5, <2>8, <2>10
  <2> QED
    BY <2>1, <2>3, <2>5, <2>8, <2>11, <1>1 DEF Progress
<1> QED
  BY <1>3, <1>4, <1>5 DEF EngineInv, Emptied

-----------------------------------------------------------------------------
\* A finished request stays finished.
LEMMA RunningIsCurrent ==
  ASSUME QueueInv, InRunningLoop
  PROVE  /\ Current \in Req /\ running[Len(running)] \in Req
         /\ req[running[Len(running)]].status = "RUNNING"
<1>1. running \in Seq(Req) /\ call.req_index \in Nat \ {0} /\ call.req_index <= Len(running)
  BY DEF QueueInv, Control, InRunningLoop
<1>2. call.req_index \in 1..Len(running) /\ Len(running) \in 1..Len(running)
  BY <1>1
<1>3. PICK r : r = running[Len(running)] /\ r \in Members(running)
  BY <1>1, <1>2 DEF Members
<1>4. LiveRunning = running
  BY DEF LiveRunning, InRunningLoop
<1>5. Statuses[r] = "RUNNING"
  <2>1. PICK R, K, W, st : R = LiveRunning /\ K = call.skipped /\ W = waiting /\ st = Statuses
    OBVIOUS
  <2>2. Placed(R, K, W, st)
    BY <2>1 DEF QueueInv, InPlace
  <2> QED
    BY <2>1, <2>2, <1>3, <1>4 DEF Placed
<1> QED
  BY <1>1, <1>2, <1>3, <1>5 DEF Current, Statuses

\* Which requests a step changes the status of, and to what.
StatusKept(q) == req'[q].status = req[q].status
LEMMA StatusChanges ==
  ASSUME QueueInv, NEW r \in Req,
         \/ \E s : req' = [req EXCEPT ![r].status = s]
         \/ \E s, n : req' = [req EXCEPT ![r].status = s, ![r].num_computed_tokens = n]
         \/ \E s, t, n : req' = [req EXCEPT ![r].status = s, ![r].num_tokens = t,
                                            ![r].num_computed_tokens = n]
  PROVE  \A q \in Req \ {r} : StatusKept(q)
<1>1. CASE \E s : req' = [req EXCEPT ![r].status = s]
  BY <1>1 DEF QueueInv, Shapes, StatusKept
<1>2. CASE \E s, n : req' = [req EXCEPT ![r].status = s, ![r].num_computed_tokens = n]
  BY <1>2 DEF QueueInv, Shapes, StatusKept
<1>3. CASE \E s, t, n : req' = [req EXCEPT ![r].status = s, ![r].num_tokens = t,
                                            ![r].num_computed_tokens = n]
  BY <1>3 DEF QueueInv, Shapes, StatusKept
<1> QED
  BY <1>1, <1>2, <1>3

\* The request at the head: the status it may get.
LEMMA HeadStatus ==
  ASSUME QueueInv, NEW r, r = Head(waiting), SkipLora \/ ScheduleWaiting \/ LoadRemote \/ StopAtWaiting
  PROVE  /\ r \in Req /\ req[r].status \in Waits
         /\ \A q \in Req \ {r} : StatusKept(q)
<1>1. InWaitingLoop
  BY DEF SkipLora, ScheduleWaiting, LoadRemote, StopAtWaiting, LooksUpHead, ConsidersHead
<1>2. r \in Req /\ req[r].status \in Waits
  BY <1>1, HeadWaits
<1>3. \/ \E s, n : req' = [req EXCEPT ![r].status = s, ![r].num_computed_tokens = n]
      \/ \E s : req' = [req EXCEPT ![r].status = s]
  <2>1. CASE SkipLora
    BY <2>1 DEF SkipLora, ReqAtHead
  <2>2. CASE ScheduleWaiting
    BY <2>2 DEF ScheduleWaiting
  <2>3. CASE LoadRemote
    BY <2>3 DEF LoadRemote
  <2>4. CASE StopAtWaiting
    BY <2>4 DEF StopAtWaiting, ReqAtHead
  <2> QED
    BY <2>1, <2>2, <2>3, <2>4
<1> QED
  BY <1>2, <1>3, StatusChanges

LEMMA ScheduleStatus ==
  ASSUME QueueInv, ScheduleSteps
  PROVE  \A q \in Req : StatusKept(q) \/ req[q].status \in Waits \cup {"RUNNING"}
<1>1. CASE SkipRunning \/ RunningLoopEnds \/ SkipWaiting \/ WaitingLoopEnds
  BY <1>1 DEF SkipRunning, RunningLoopEnds, SkipWaiting, WaitingLoopEnds, StatusKept
<1>2. CASE ScheduleRunning
  <2>1. PICK r : r = Current
    OBVIOUS
  <2>2. r \in Req
    BY <1>2, <2>1, RunningIsCurrent DEF ScheduleRunning
  <2>3. \E n : req' = [req EXCEPT ![r].spec_token_ids = n]
    BY <1>2, <2>1 DEF ScheduleRunning
  <2> QED
    BY <2>2, <2>3 DEF QueueInv, Shapes, ReqFields, StatusKept
<1>3. CASE PreemptLast
  <2>1. PICK r : r = running[Len(running)]
    OBVIOUS
  <2>2. r \in Req /\ req[r].status = "RUNNING"
    BY <1>3, <2>1, RunningIsCurrent DEF PreemptLast
  <2>3. \E s, n : req' = [req EXCEPT ![r].status = s, ![r].num_computed_tokens = n]
    BY <1>3, <2>1 DEF PreemptLast
  <2> QED
    BY <2>2, <2>3, StatusChanges
<1>4. CASE SkipLora \/ ScheduleWaiting \/ LoadRemote \/ StopAtWaiting
  BY <1>4, HeadStatus
<1> QED
  BY <1>1, <1>2, <1>3, <1>4 DEF ScheduleSteps

LEMMA UpdateStatus ==
  ASSUME QueueInv, UpdateSteps
  PROVE  \A q \in Req : StatusKept(q) \/ req'[q].status = "FINISHED"
<1>1. CASE KeepUnscheduled \/ EndUpdate
  BY <1>1 DEF KeepUnscheduled, EndUpdate, StatusKept
<1>2. CASE UpdateScheduled
  <2>1. PICK r : r = Current
    OBVIOUS
  <2>2. r \in Req
    BY <1>2, <2>1, CurrentRuns DEF UpdateScheduled
  <2>3. PICK g : (\E d : UpdateContinues(r, g, d)) \/ UpdateStops(r, g)
    BY <1>2, <2>1 DEF UpdateScheduled
  <2>4. CASE \E d : UpdateContinues(r, g, d)
    <3>0. PICK d, t, n : /\ UpdateContinues(r, g, d)
                         /\ t = req[r].num_tokens + g /\ n = ComputedAfter(r, g)
      BY <2>4
    <3>1. req' = [req EXCEPT ![r].num_tokens = t, ![r].num_computed_tokens = n,
                             ![r].spec_token_ids = d]
      BY <3>0 DEF UpdateContinues
    <3> QED
      BY <3>1, <2>2 DEF QueueInv, Shapes, ReqFields, StatusKept
  <2>5. CASE UpdateStops(r, g)
    <3>1. \E t, n : req' = [req EXCEPT ![r].status = "FINISHED", ![r].num_tokens = t,
                                       ![r].num_computed_tokens = n]
      BY <2>5 DEF UpdateStops
    <3>2. req'[r].status = "FINISHED"
      BY <3>1, <2>2 DEF QueueInv, Shapes, ReqFields
    <3>3. \A q \in Req \ {r} : StatusKept(q)
      BY <3>1, <2>2, StatusChanges
    <3> QED
      BY <3>2, <3>3
  <2> QED
    BY <2>3, <2>4, <2>5
<1> QED
  BY <1>1, <1>2 DEF UpdateSteps

LEMMA FinishedStays ==
  ASSUME QueueInv, [Steps]_engineVars, NEW q \in Req, req[q].status = "FINISHED"
  PROVE  req'[q].status = "FINISHED"
<1>0. "FINISHED" \notin Waits \cup {"RUNNING"}
  BY DEF Waits
<1>1. ASSUME NEW r \in Req, AddRequest(r) \/ AbortRequest(r) \/ CompileGrammar(r)
      PROVE  req'[q].status = "FINISHED"
  <2>1. CASE AddRequest(r)
    <3>1. (\E s : req' = [req EXCEPT ![r].status = s]) /\ r # q
      BY <2>1 DEF AddRequest, add_request
    <3> QED
      BY <3>1, StatusChanges DEF StatusKept
  <2>2. CASE AbortRequest(r)
    <3>1. req' = [req EXCEPT ![r].status = "FINISHED"] /\ r # q
      BY <2>2 DEF AbortRequest, finish_requests, Live
    <3> QED
      BY <3>1, StatusChanges DEF StatusKept
  <2>3. CASE CompileGrammar(r)
    BY <2>3 DEF CompileGrammar, GrammarCompiled
  <2> QED
    BY <1>1, <2>1, <2>2, <2>3
<1>2. ASSUME NEW k \in Ranks, NEW r \in Req, TransferArrives(k, r) \/ TransferIsRead(k, r)
      PROVE  req'[q].status = "FINISHED"
  BY <1>2 DEF TransferArrives, TransferIsRead, schedulerVars
<1>3. CASE ResetPrefixCache
  BY <1>3 DEF ResetPrefixCache
<1>4. CASE ScheduleSteps
  BY <1>0, <1>4, ScheduleStatus DEF StatusKept
<1>5. CASE UpdateSteps
  BY <1>5, UpdateStatus DEF StatusKept
<1>6. CASE StepSchedules \/ StepDrains \/ ExecuteModel
  BY <1>6 DEF StepSchedules, StepDrains, ExecuteModel
<1>7. CASE StepDispatches
  <2>1. req' = [r \in Req |-> [req[r] EXCEPT
                 !.num_computed_tokens = @ + call.output.num_scheduled_tokens[r]]]
    BY <1>7 DEF StepDispatches, EndSchedule
  <2> QED
    BY <2>1 DEF QueueInv, Shapes, ReqFields
<1>8. CASE UNCHANGED engineVars
  BY <1>8 DEF engineVars, schedulerVars
<1> QED
  BY <1>1, <1>2, <1>3, <1>4, <1>5, <1>6, <1>7, <1>8 DEF Steps, EngineStep

-----------------------------------------------------------------------------
\* The KV transfers.  What get_finished counts for a request, in names of its own.
RecvNow(x, r) == x.done_recving_count[r] + IF <<FirstRank, r>> \in x.arrived THEN 1 ELSE 0
SendNow(x, r) == x.done_sending_count[r] + IF <<FirstRank, r>> \in x.notifs THEN 1 ELSE 0
OthersNow(x, r) == Cardinality({k \in Ranks \ {FirstRank} : <<k, r>> \in x.arrived \cup x.notifs})
IsRecving(x, r) == RecvNow(x, r) > 0 \/ <<FirstRank, r>> \in x.recving \ x.arrived
AllRecv(x, r) == RecvNow(x, r) + IF IsRecving(x, r) THEN OthersNow(x, r) ELSE 0
AllSend(x, r) == SendNow(x, r) + IF IsRecving(x, r) THEN 0 ELSE OthersNow(x, r)

Receiving(x, r) == {k \in Ranks : <<k, r>> \in x.recving}
TransferFields == {"recving", "arrived", "target", "read", "notifs", "done_recving_count",
                   "done_sending_count"}
\* Of the ranks that receive the blocks of a request, the first counts those that are
\* done; nobody counts what nobody receives.
CountsOK(x, r) ==
  /\ x.done_recving_count[r] \in Nat /\ x.done_sending_count[r] \in Nat
  /\ \/ Receiving(x, r) = {} /\ x.done_recving_count[r] = 0
     \/ /\ Receiving(x, r) # {} /\ r \in RemotePrefill
        /\ x.done_recving_count[r] + Cardinality(Receiving(x, r)) = TPSize
TransfersOK(x) ==
  /\ DOMAIN x = TransferFields /\ x.arrived \subseteq x.recving
  /\ \A r \in Req : CountsOK(x, r)
\* Only requests that wait to be read are counted as read.
Sends(x, r) == x.done_sending_count[r] > 0 \/ \E k \in Ranks : <<k, r>> \in x.notifs
SentFrom(x, S) == \A r \in Req : Sends(x, r) => r \in S

CountedAs(x, d, y, r) ==
  /\ r \in d.recving <=> AllRecv(x, r) = TPSize
  /\ r \in d.sending <=> AllSend(x, r) = TPSize
  /\ y.done_recving_count[r] = IF AllRecv(x, r) = TPSize THEN 0 ELSE AllRecv(x, r)
  /\ y.done_sending_count[r] = IF AllSend(x, r) = TPSize THEN 0 ELSE AllSend(x, r)
  /\ y.target[r] = IF r \in d.recving THEN {} ELSE x.target[r]
LEMMA FinishedCounts ==
  ASSUME NEW x, DOMAIN x = TransferFields, NEW d, d = get_finished(x)
  PROVE  /\ d.transfers.recving = x.recving \ x.arrived
         /\ d.transfers.arrived = {} /\ d.transfers.notifs = {}
         /\ DOMAIN d.transfers = TransferFields
         /\ d.recving \subseteq Req /\ d.sending \subseteq Req
         /\ \A r \in Req : CountedAs(x, d, d.transfers, r)
<1>1. PICK rc, sc : /\ rc = [q \in Req |-> AllRecv(x, q)] /\ sc = [q \in Req |-> AllSend(x, q)]
  OBVIOUS
<1>2. PICK a, b : /\ a = {q \in Req : rc[q] = TPSize} /\ b = {q \in Req : sc[q] = TPSize}
  OBVIOUS
<1>3. d = [recving |-> a, sending |-> b,
           transfers |->
             [x EXCEPT !.recving = x.recving \ x.arrived, !.arrived = {}, !.notifs = {},
                       !.target = [q \in Req |-> IF q \in a THEN {} ELSE @[q]],
                       !.done_recving_count = [q \in Req |-> IF q \in a THEN 0 ELSE rc[q]],
                       !.done_sending_count = [q \in Req |-> IF q \in b THEN 0 ELSE sc[q]]]]
  BY <1>1, <1>2
  DEF get_finished, AllDone, AllRecv, AllSend, RecvNow, SendNow, OthersNow, IsRecving
<1>5. PICK t, u, v : /\ t = [q \in Req |-> IF q \in a THEN {} ELSE x.target[q]]
                     /\ u = [q \in Req |-> IF q \in a THEN 0 ELSE rc[q]]
                     /\ v = [q \in Req |-> IF q \in b THEN 0 ELSE sc[q]]
  OBVIOUS
<1>6. PICK y : y = [x EXCEPT !.recving = x.recving \ x.arrived, !.arrived = {}, !.notifs = {},
                       !.target = t, !.done_recving_count = u, !.done_sending_count = v]
  OBVIOUS
<1>7. d.transfers = y /\ d.recving = a /\ d.sending = b
  BY <1>3, <1>5, <1>6
<1>8. /\ y.recving = x.recving \ x.arrived /\ y.arrived = {} /\ y.notifs = {}
      /\ y.target = t /\ y.done_recving_count = u /\ y.done_sending_count = v
      /\ DOMAIN y = TransferFields
  BY <1>6 DEF TransferFields
<1>9. ASSUME NEW r \in Req PROVE CountedAs(x, d, y, r)
  <2>1. rc[r] = AllRecv(x, r) /\ sc[r] = AllSend(x, r) /\ (r \in a <=> rc[r] = TPSize)
        /\ (r \in b <=> sc[r] = TPSize)
    BY <1>1, <1>2
  <2>2. t[r] = (IF r \in a THEN {} ELSE x.target[r]) /\ u[r] = (IF r \in a THEN 0 ELSE rc[r])
        /\ v[r] = (IF r \in b THEN 0 ELSE sc[r])
    BY <1>5
  <2> QED
    BY <2>1, <2>2, <1>7, <1>8 DEF CountedAs
<1> QED
  BY <1>2, <1>7, <1>8, <1>9

LEMMA RanksAre == IsFiniteSet(Ranks) /\ Cardinality(Ranks) = TPSize /\ TPSize \in Nat \ {0} /\ FirstRank \in Ranks
<1>1. TPSize \in Nat \ {0}
  BY ConnectorAssumption
<1> QED
  BY <1>1, FS_Interval DEF Ranks, FirstRank

\* A request whose blocks are received: every rank that is done is counted once, and
\* never as a rank that was read.
LEMMA CountsReceived ==
  ASSUME NEW x, TransfersOK(x), NEW r \in Req, Receiving(x, r) # {}, ~Sends(x, r)
  PROVE  /\ AllSend(x, r) = 0 /\ AllRecv(x, r) \in Nat
         /\ AllRecv(x, r) + Cardinality({k \in Ranks : <<k, r>> \in x.recving \ x.arrived}) = TPSize
         /\ AllRecv(x, r) = TPSize <=> {k \in Ranks : <<k, r>> \in x.recving \ x.arrived} = {}
<1>1. PICK R, A, L, O, c, sc :
         /\ R = Receiving(x, r) /\ A = {k \in Ranks : <<k, r>> \in x.arrived}
         /\ L = {k \in Ranks : <<k, r>> \in x.recving \ x.arrived}
         /\ O = {k \in Ranks \ {FirstRank} : <<k, r>> \in x.arrived \cup x.notifs}
         /\ c = x.done_recving_count[r] /\ sc = x.done_sending_count[r]
  OBVIOUS
<1>2. /\ c \in Nat /\ sc \in Nat /\ c + Cardinality(R) = TPSize
      /\ x.arrived \subseteq x.recving /\ R # {}
  BY <1>1 DEF TransfersOK, CountsOK
<1>3. sc = 0 /\ \A k \in Ranks : <<k, r>> \notin x.notifs
  BY <1>1, <1>2 DEF Sends
<1>4. A \subseteq R /\ R \subseteq Ranks /\ L = R \ A /\ R \cap A = A
  BY <1>1, <1>2 DEF Receiving
<1>5. O = A \ {FirstRank} /\ (FirstRank \in A <=> <<FirstRank, r>> \in x.arrived)
      /\ (FirstRank \in L <=> <<FirstRank, r>> \in x.recving \ x.arrived)
  BY <1>1, <1>3, RanksAre
<1>6. /\ IsFiniteSet(R) /\ IsFiniteSet(A) /\ Cardinality(R) \in Nat /\ Cardinality(A) \in Nat
      /\ Cardinality(R) <= TPSize
  BY <1>4, RanksAre, FS_Subset, FS_CardinalityType
<1>7. Cardinality(L) = Cardinality(R) - Cardinality(A) /\ IsFiniteSet(L)
  <2>1. Cardinality(R \ A) = Cardinality(R) - Cardinality(R \cap A) /\ IsFiniteSet(R \ A)
    BY <1>6, FS_Difference
  <2> QED
    BY <2>1, <1>4
<1>8. Cardinality(O) = IF FirstRank \in A THEN Cardinality(A) - 1 ELSE Cardinality(A)
  BY <1>5, <1>6, FS_RemoveElement
<1>9. Cardinality(L) = 0 <=> L = {}
  BY <1>7, FS_EmptySet
<1>10. RecvNow(x, r) = c + (IF FirstRank \in A THEN 1 ELSE 0) /\ SendNow(x, r) = 0
  BY <1>1, <1>3, <1>5, RanksAre DEF RecvNow, SendNow
<1>11. IsRecving(x, r)
  <2>1. CASE FirstRank \in R
    <3>1. FirstRank \in A \/ FirstRank \in L
      BY <2>1, <1>4
    <3> QED
      BY <3>1, <1>2, <1>5, <1>10 DEF IsRecving
  <2>2. CASE FirstRank \notin R
    <3>1. R # Ranks
      BY <2>2, RanksAre
    <3>2. Cardinality(R) # TPSize
      BY <3>1, <1>4, RanksAre, FS_Subset
    <3>3. FirstRank \notin A
      BY <2>2, <1>4
    <3>4. RecvNow(x, r) = c /\ c > 0
      BY <3>2, <3>3, <1>2, <1>6, <1>10, RanksAre
    <3> QED
      BY <3>4 DEF IsRecving
  <2> QED
    BY <2>1, <2>2
<1>12. AllRecv(x, r) = RecvNow(x, r) + Cardinality(O) /\ AllSend(x, r) = 0
  BY <1>1, <1>10, <1>11 DEF AllRecv, AllSend, OthersNow
<1>13. PICK a, b, n : a = Cardinality(A) /\ b = Cardinality(R) /\ n = Cardinality(L)
  OBVIOUS
<1>14. AllRecv(x, r) = c + a
  BY <1>2, <1>6, <1>8, <1>10, <1>12, <1>13
<1>15. n = b - a /\ c + b = TPSize /\ a \in Nat /\ b \in Nat /\ (n = 0 <=> L = {}) /\ TPSize \in Nat
  BY <1>2, <1>6, <1>7, <1>9, <1>13, RanksAre
<1>16. PICK z : z = AllRecv(x, r)
  OBVIOUS
<1>17. z \in Nat /\ z + n = TPSize /\ (z = TPSize <=> L = {})
  BY <1>2, <1>14, <1>15, <1>16
<1> QED
  BY <1>1, <1>12, <1>13, <1>16, <1>17

\* A request whose blocks are not received is counted only as it is read.
LEMMA CountsRead ==
  ASSUME NEW x, TransfersOK(x), NEW r \in Req, Receiving(x, r) = {}
  PROVE  /\ AllRecv(x, r) = 0 /\ AllSend(x, r) \in Nat
         /\ AllSend(x, r) > 0 => Sends(x, r)
         /\ {k \in Ranks : <<k, r>> \in x.recving \ x.arrived} = {}
<1>1. /\ x.done_recving_count[r] = 0 /\ x.done_sending_count[r] \in Nat
      /\ x.arrived \subseteq x.recving /\ \A k \in Ranks : <<k, r>> \notin x.recving
  BY DEF TransfersOK, CountsOK, Receiving
<1>2. \A k \in Ranks : <<k, r>> \notin x.arrived
  BY <1>1
<1>3. RecvNow(x, r) = 0 /\ ~IsRecving(x, r)
  BY <1>1, <1>2, RanksAre DEF RecvNow, IsRecving
<1>4. PICK O, o : /\ O = {k \in Ranks \ {FirstRank} : <<k, r>> \in x.arrived \cup x.notifs}
                  /\ o = Cardinality(O)
  OBVIOUS
<1>5. IsFiniteSet(O) /\ o \in Nat
  <2>1. O \in SUBSET Ranks
    BY <1>4
  <2> QED
    BY <2>1, <1>4, RanksAre, FS_Subset, FS_CardinalityType
<1>6. AllRecv(x, r) = 0 /\ AllSend(x, r) = SendNow(x, r) + o
  BY <1>3, <1>4 DEF AllRecv, AllSend, OthersNow
<1>7. SendNow(x, r) \in Nat
  BY <1>1 DEF SendNow
<1>8. ASSUME ~Sends(x, r) PROVE AllSend(x, r) = 0
  <2>1. x.done_sending_count[r] = 0 /\ \A k \in Ranks : <<k, r>> \notin x.notifs
    BY <1>1, <1>8 DEF Sends
  <2>2. O = {}
    BY <2>1, <1>2, <1>4
  <2>3. o = 0
    BY <2>2, <1>4, FS_EmptySet
  <2>4. SendNow(x, r) = 0
    BY <2>1, RanksAre DEF SendNow
  <2> QED
    BY <2>3, <2>4, <1>6
<1>9. AllSend(x, r) \in Nat
  BY <1>5, <1>6, <1>7
<1> QED
  BY <1>1, <1>6, <1>8, <1>9

\* get_finished: the transfers after it, and what it answers.
FinishedAs(x, d, S) ==
  /\ TransfersOK(d.transfers) /\ SentFrom(d.transfers, S)
  /\ d.sending \subseteq S
  /\ d.recving \subseteq RemotePrefill
  /\ \A r \in Req : /\ Receiving(d.transfers, r) \subseteq Receiving(x, r)
                    /\ r \in d.recving <=> Receiving(x, r) # {} /\ Receiving(d.transfers, r) = {}
                    /\ d.transfers.target[r] = IF r \in d.recving THEN {} ELSE x.target[r]
LEMMA GetFinishedOK ==
  ASSUME NEW x, TransfersOK(x), NEW S \in SUBSET RemoteDecode, SentFrom(x, S)
  PROVE  FinishedAs(x, get_finished(x), S)
<1>d. PICK d : d = get_finished(x)
  OBVIOUS
<1>f. DOMAIN x = TransferFields
  BY DEF TransfersOK
<1>t. TPSize \in Nat \ {0} /\ RemotePrefill \cap RemoteDecode = {} /\ RemotePrefill \subseteq Req
  BY ConnectorAssumption
<1>1. ASSUME NEW r \in Req
      PROVE  /\ CountsOK(d.transfers, r) /\ (Sends(d.transfers, r) => r \in S)
             /\ (r \in d.sending => r \in S) /\ (r \in d.recving => r \in RemotePrefill)
             /\ Receiving(d.transfers, r) \subseteq Receiving(x, r)
             /\ r \in d.recving <=> Receiving(x, r) # {} /\ Receiving(d.transfers, r) = {}
             /\ d.transfers.target[r] = IF r \in d.recving THEN {} ELSE x.target[r]
  <2>1. PICK ar, sd, y : ar = AllRecv(x, r) /\ sd = AllSend(x, r) /\ y = d.transfers
    OBVIOUS
  <2>2. /\ r \in d.recving <=> ar = TPSize
        /\ r \in d.sending <=> sd = TPSize
        /\ y.done_recving_count[r] = IF ar = TPSize THEN 0 ELSE ar
        /\ y.done_sending_count[r] = IF sd = TPSize THEN 0 ELSE sd
        /\ y.recving = x.recving \ x.arrived /\ y.notifs = {}
        /\ y.target[r] = IF r \in d.recving THEN {} ELSE x.target[r]
    BY <1>d, <1>f, <2>1, FinishedCounts DEF CountedAs
  <2>3. PICK L : L = Receiving(y, r) /\ L = {k \in Ranks : <<k, r>> \in x.recving \ x.arrived}
    BY <2>2 DEF Receiving
  <2>4. L \subseteq Receiving(x, r)
    BY <2>3 DEF Receiving
  <2>5. Sends(y, r) => y.done_sending_count[r] > 0
    BY <2>2 DEF Sends
  <2>6. CASE Receiving(x, r) = {}
    <3>1. ar = 0 /\ sd \in Nat /\ (sd > 0 => Sends(x, r)) /\ L = {}
      BY <2>1, <2>3, <2>6, CountsRead
    <3>2. CountsOK(y, r)
      <4>1. y.done_recving_count[r] = 0
        BY <3>1, <2>2, <1>t
      <4>2. y.done_sending_count[r] = 0 \/ y.done_sending_count[r] = sd
        BY <2>2
      <4>3. y.done_sending_count[r] \in Nat
        <5>1. PICK m : m = y.done_sending_count[r]
          OBVIOUS
        <5>2. m = 0 \/ m = sd
          BY <4>2, <5>1
        <5>3. 0 \in Nat /\ sd \in Nat
          BY <3>1
        <5>4. m \in Nat
          BY <5>2, <5>3, Zenon
        <5> QED
          BY <5>1, <5>4
      <4> QED
        BY <4>1, <4>3, <3>1, <2>3 DEF CountsOK
    <3>3. sd > 0 => r \in S
      BY <3>1 DEF SentFrom
    <3>4. r \notin d.recving
      BY <3>1, <2>2, <1>t
    <3>5. /\ Sends(y, r) => r \in S
          /\ r \in d.sending => r \in S
      BY <3>1, <3>3, <2>2, <2>5, <1>t
    <3> QED
      BY <3>2, <3>4, <3>5, <2>1, <2>2, <2>3, <2>4, <2>6
  <2>7. CASE Receiving(x, r) # {}
    <3>1. r \in RemotePrefill
      BY <2>7 DEF TransfersOK, CountsOK
    <3>2. ~Sends(x, r)
      BY <3>1, <1>t DEF SentFrom
    <3>3. sd = 0 /\ ar \in Nat /\ ar + Cardinality(L) = TPSize /\ (ar = TPSize <=> L = {})
      BY <2>1, <2>3, <2>7, <3>2, CountsReceived
    <3>4. y.done_sending_count[r] = 0 /\ ~Sends(y, r) /\ r \notin d.sending
      <4>1. y.done_sending_count[r] = 0 /\ r \notin d.sending
        BY <3>3, <2>2, <1>t
      <4>2. ~(0 > 0)
        OBVIOUS
      <4> QED
        BY <4>1, <4>2, <2>5
    <3>5. CountsOK(y, r)
      <4>2. CASE L = {}
        <5>1. y.done_recving_count[r] = 0
          BY <4>2, <3>3, <2>2
        <5> QED
          BY <5>1, <3>4, <4>2, <2>3 DEF CountsOK
      <4>3. CASE L # {}
        <5>1. y.done_recving_count[r] = ar
          BY <4>3, <3>3, <2>2
        <5> QED
          BY <5>1, <3>4, <4>3, <3>1, <3>3, <2>3 DEF CountsOK
      <4> QED
        BY <4>2, <4>3
    <3>6. r \in d.recving <=> L = {}
      BY <3>3, <2>2
    <3> QED
      BY <3>1, <3>4, <3>5, <3>6, <2>1, <2>2, <2>3, <2>4, <2>7
  <2> QED
    BY <2>6, <2>7
<1>2. DOMAIN d.transfers = TransferFields /\ d.transfers.arrived \subseteq d.transfers.recving
      /\ d.recving \subseteq Req /\ d.sending \subseteq Req
  BY <1>d, <1>f, FinishedCounts
<1> QED
  BY <1>1, <1>2, <1>d, <1>t DEF FinishedAs, TransfersOK, SentFrom

\* start_load_kv: the ranks receive the blocks of the requests of the metadata.
LEMMA StartLoadOK ==
  ASSUME NEW x, TransfersOK(x), NEW meta, NEW S, SentFrom(x, S),
         \A m \in meta : m.req \in RemotePrefill /\ Receiving(x, m.req) = {}
  PROVE  /\ TransfersOK(start_load_kv(x, meta)) /\ SentFrom(start_load_kv(x, meta), S)
         /\ \A r \in Req : (\A m \in meta : m.req # r)
              => Receiving(start_load_kv(x, meta), r) = Receiving(x, r)
<1>1. PICK N, M, R, t :
         /\ N = {l \in meta : l.blocks # {}} /\ M = {m.req : m \in N}
         /\ R = x.recving \cup (Ranks \X M)
         /\ t = [r \in Req |-> BlocksToRead(N, r) \cup x.target[r]]
  OBVIOUS
<1>2. PICK y : y = [x EXCEPT !.recving = R, !.target = t]
  OBVIOUS
<1>3. start_load_kv(x, meta) = y
  BY <1>1, <1>2 DEF start_load_kv
<1>4. DOMAIN x = TransferFields /\ x.arrived \subseteq x.recving
  BY DEF TransfersOK
<1>5. /\ y.recving = R /\ y.arrived = x.arrived /\ y.notifs = x.notifs
      /\ y.done_recving_count = x.done_recving_count
      /\ y.done_sending_count = x.done_sending_count /\ DOMAIN y = TransferFields
  BY <1>2, <1>4 DEF TransferFields
<1>6. SentFrom(y, S)
  BY <1>5 DEF SentFrom, Sends
<1>7. ASSUME NEW r \in Req, r \notin M PROVE Receiving(y, r) = Receiving(x, r)
  BY <1>1, <1>5, <1>7 DEF Receiving
<1>8. ASSUME NEW r \in Req, r \in M
      PROVE  Receiving(y, r) = Ranks /\ r \in RemotePrefill /\ Receiving(x, r) = {}
  BY <1>1, <1>5, <1>8 DEF Receiving
<1>9. ASSUME NEW r \in Req PROVE CountsOK(y, r)
  <2>1. CountsOK(x, r)
    BY DEF TransfersOK
  <2>2. CASE r \in M
    <3>1. Receiving(y, r) = Ranks /\ r \in RemotePrefill /\ Receiving(x, r) = {}
      BY <1>8, <2>2
    <3>2. x.done_recving_count[r] = 0 /\ x.done_sending_count[r] \in Nat
      BY <2>1, <3>1 DEF CountsOK
    <3>3. Ranks # {} /\ Cardinality(Ranks) = TPSize /\ TPSize \in Nat
      BY RanksAre
    <3>4. 0 + Cardinality(Ranks) = TPSize
      BY <3>3
    <3> QED
      BY <3>1, <3>2, <3>3, <3>4, <1>5 DEF CountsOK
  <2>3. CASE r \notin M
    <3>1. Receiving(y, r) = Receiving(x, r)
      BY <1>7, <2>3
    <3> QED
      BY <2>1, <3>1, <1>5 DEF CountsOK
  <2> QED
    BY <2>2, <2>3
<1>10. y.arrived \subseteq y.recving
  BY <1>1, <1>4, <1>5
<1>11. ASSUME NEW r \in Req, \A m \in meta : m.req # r PROVE r \notin M
  BY <1>1, <1>11
<1> QED
  BY <1>3, <1>5, <1>6, <1>7, <1>9, <1>10, <1>11 DEF TransfersOK

\* The transfers of the engine: what is to be fetched is fetched once, by every rank,
\* and only what the other engine is to read is counted as read.
Unfetched(r) == r \in RemotePrefill /\ Receiving(worker.transfers, r) = {}
MetaOK(meta) == \A m \in meta : Unfetched(m.req) /\ m.req \notin conn.do_remote_prefill
WaitsToBeRead == {r \in RemoteDecode : req[r].status = "FINISHED"}
WorkerFields == {"requests", "encoder_cache", "transfers"}
TransferInv ==
  /\ DOMAIN worker = WorkerFields
  /\ TransfersOK(worker.transfers)
  /\ SentFrom(worker.transfers, WaitsToBeRead)
  /\ MetaOK(conn.reqs_need_recv)
  /\ call.phase = "execute" => MetaOK(call.output.kv_meta) /\ conn.reqs_need_recv = {}
  /\ \A r \in conn.do_remote_prefill : Unfetched(r)
  /\ call.finished_sending \subseteq WaitsToBeRead

LEMMA ReadStays ==
  ASSUME QueueInv, [Steps]_engineVars PROVE WaitsToBeRead \subseteq WaitsToBeRead'
<1>1. ASSUME NEW r \in WaitsToBeRead PROVE r \in WaitsToBeRead'
  <2>1. r \in RemoteDecode /\ r \in Req /\ req[r].status = "FINISHED"
    BY ConnectorAssumption DEF WaitsToBeRead
  <2>2. req'[r].status = "FINISHED"
    BY <2>1, FinishedStays
  <2> QED
    BY <2>1, <2>2 DEF WaitsToBeRead
<1> QED
  BY <1>1

\* A step that leaves the transfers alone.
LEMMA TransferFrame ==
  ASSUME QueueInv, TransferInv, [Steps]_engineVars, worker' = worker,
         conn'.do_remote_prefill \subseteq conn.do_remote_prefill,
         \A m \in conn'.reqs_need_recv :
            \/ m \in conn.reqs_need_recv
            \/ m.req \in conn.do_remote_prefill \ conn'.do_remote_prefill,
         call'.phase = "execute" =>
            /\ conn'.reqs_need_recv = {}
            /\ call'.output.kv_meta = conn.reqs_need_recv \/ UNCHANGED call,
         call'.finished_sending \subseteq call.finished_sending
  PROVE  TransferInv'
<1>1. \A r : Unfetched(r) => Unfetched(r)'
  BY DEF Unfetched
<1>2. /\ DOMAIN worker' = WorkerFields /\ TransfersOK(worker.transfers)'
      /\ \A r \in conn'.do_remote_prefill : Unfetched(r)'
  BY <1>1 DEF TransferInv, TransfersOK, CountsOK, Receiving
<1>3. WaitsToBeRead \subseteq WaitsToBeRead'
  BY ReadStays
<1>4. SentFrom(worker.transfers, WaitsToBeRead)'
  BY <1>3 DEF TransferInv, SentFrom, Sends
<1>5. call'.finished_sending \subseteq WaitsToBeRead'
  BY <1>3 DEF TransferInv
<1>6. ASSUME NEW meta, MetaOK(meta) PROVE MetaOK(meta)'
  BY <1>1, <1>6 DEF MetaOK
<1>7. MetaOK(conn.reqs_need_recv)'
  BY <1>1 DEF MetaOK, TransferInv
<1>8. ASSUME call'.phase = "execute" PROVE MetaOK(call.output.kv_meta)'
  <2>1. CASE call'.output.kv_meta = conn.reqs_need_recv
    BY <1>6, <2>1 DEF TransferInv, MetaOK
  <2>2. CASE UNCHANGED call
    BY <1>6, <1>8, <2>2 DEF TransferInv, MetaOK
  <2> QED
    BY <1>8, <2>1, <2>2
<1> QED
  BY <1>2, <1>4, <1>5, <1>7, <1>8 DEF TransferInv

LEMMA TransferInit == Init => TransferInv
<1> SUFFICES ASSUME Init PROVE TransferInv
  OBVIOUS
<1>1. /\ worker = [requests |-> {}, encoder_cache |-> {}, transfers |-> InitTransfers]
      /\ conn = InitConnector /\ call = NoCall
  BY DEF Init, SchedulerInit
<1>2. PICK x : x = worker.transfers /\ x = InitTransfers
  BY <1>1
<1>3. /\ DOMAIN x = TransferFields /\ x.recving = {} /\ x.arrived = {} /\ x.notifs = {}
      /\ \A r \in Req : x.done_recving_count[r] = 0 /\ x.done_sending_count[r] = 0
  BY <1>2 DEF InitTransfers, TransferFields
<1>4. \A r : Receiving(x, r) = {}
  BY <1>3 DEF Receiving
<1>5. TransfersOK(x)
  BY <1>3, <1>4 DEF TransfersOK, CountsOK
<1>6. \A r \in Req : ~Sends(x, r)
  <2>1. ~(0 > 0)
    OBVIOUS
  <2> QED
    BY <2>1, <1>3 DEF Sends
<1>7. /\ conn.do_remote_prefill = RemotePrefill /\ conn.reqs_need_recv = {}
      /\ call.phase = "idle" /\ call.finished_sending = {}
  BY <1>1 DEF InitConnector, NoCall
<1> QED
  BY <1>1, <1>2, <1>4, <1>5, <1>6, <1>7
  DEF TransferInv, WorkerFields, SentFrom, MetaOK, Unfetched

\* A transfer arrives, and one is read.
LEMMA TransferMoves ==
  ASSUME QueueInv, TransferInv, EngineInv, NEW k \in Ranks, NEW r \in Req,
         TransferArrives(k, r) \/ TransferIsRead(k, r)
  PROVE  TransferInv'
<1>1. PICK x, y : x = worker.transfers /\ y = worker'.transfers
  OBVIOUS
<1>2. /\ req' = req /\ conn' = conn /\ call' = call
  BY DEF TransferArrives, TransferIsRead, schedulerVars
<1>3. DOMAIN worker = WorkerFields /\ TransfersOK(x) /\ SentFrom(x, WaitsToBeRead)
      /\ DOMAIN x = TransferFields
  BY <1>1 DEF TransferInv, TransfersOK
<1>4. /\ DOMAIN worker' = WorkerFields /\ DOMAIN y = TransferFields
      /\ y.recving = x.recving /\ y.arrived \subseteq y.recving
      /\ y.done_recving_count = x.done_recving_count
      /\ y.done_sending_count = x.done_sending_count
      /\ y.notifs = x.notifs \/ (Sending(r) /\ y.notifs = x.notifs \cup {<<k, r>>})
  <2>1. CASE TransferArrives(k, r)
    <3>1. worker' = [worker EXCEPT !.transfers = [x EXCEPT !.arrived = @ \cup {<<k, r>>}]]
          /\ <<k, r>> \in x.recving
      BY <2>1, <1>1 DEF TransferArrives, TransferArrived
    <3>2. y = [x EXCEPT !.arrived = @ \cup {<<k, r>>}] /\ DOMAIN worker' = WorkerFields
      BY <3>1, <1>1, <1>3 DEF WorkerFields
    <3>3. /\ DOMAIN y = TransferFields /\ y.recving = x.recving /\ y.notifs = x.notifs
          /\ y.arrived = x.arrived \cup {<<k, r>>}
          /\ y.done_recving_count = x.done_recving_count
          /\ y.done_sending_count = x.done_sending_count
      BY <3>2, <1>3 DEF TransferFields
    <3>4. x.arrived \subseteq x.recving
      BY <1>3 DEF TransfersOK
    <3>5. PICK p : p = <<k, r>>
      OBVIOUS
    <3>6. y.arrived \subseteq y.recving
      BY <3>1, <3>3, <3>4, <3>5
    <3>7. DOMAIN worker' = WorkerFields
      BY <3>2
    <3> QED
      BY <3>7, <3>3, <3>6
  <2>2. CASE TransferIsRead(k, r)
    <3>1. worker' = [worker EXCEPT !.transfers = TransferRead(x, k, r)] /\ Sending(r)
      BY <2>2, <1>1 DEF TransferIsRead
    <3>2. y = TransferRead(x, k, r) /\ DOMAIN worker' = WorkerFields
      BY <3>1, <1>1, <1>3 DEF WorkerFields
    <3>3. /\ DOMAIN y = TransferFields /\ y.recving = x.recving /\ y.arrived = x.arrived
          /\ y.notifs = x.notifs \cup {<<k, r>>}
          /\ y.done_recving_count = x.done_recving_count
          /\ y.done_sending_count = x.done_sending_count
      BY <3>2, <1>3 DEF TransferFields, TransferRead
    <3>4. x.arrived \subseteq x.recving
      BY <1>3 DEF TransfersOK
    <3> QED
      BY <3>1, <3>2, <3>3, <3>4
  <2> QED
    BY <2>1, <2>2
<1>5. \A q : Receiving(y, q) = Receiving(x, q)
  BY <1>4 DEF Receiving
<1>6. TransfersOK(y)
  BY <1>3, <1>4, <1>5 DEF TransfersOK, CountsOK
<1>7. Sending(r) => r \in WaitsToBeRead
  BY DEF Sending, EngineInv, Progress, Fits, WaitsToBeRead
<1>8. SentFrom(y, WaitsToBeRead)
  BY <1>3, <1>4, <1>7 DEF SentFrom, Sends
<1>9. \A q : Unfetched(q)' <=> Unfetched(q)
  BY <1>1, <1>5 DEF Unfetched
<1>10. WaitsToBeRead' = WaitsToBeRead
  BY <1>2 DEF WaitsToBeRead
<1>11. \A meta : MetaOK(meta) => MetaOK(meta)'
  BY <1>2, <1>9 DEF MetaOK
<1>12. TransfersOK(worker.transfers)' /\ SentFrom(worker.transfers, WaitsToBeRead)'
  BY <1>1, <1>6, <1>8, <1>10 DEF TransfersOK, SentFrom, CountsOK, Receiving, Sends
<1> QED
  BY <1>2, <1>4, <1>9, <1>10, <1>11, <1>12 DEF TransferInv, MetaOK

\* What the scheduler side of the connector does with a request that gets its slots.
AllocKnown(c, d, r, blocks) ==
  /\ d.do_remote_prefill = c.do_remote_prefill \ {r}
  /\ d.finished_recving = c.finished_recving
  /\ \A m \in d.reqs_need_recv :
        \/ m \in c.reqs_need_recv
        \/ m.req = r /\ m.blocks = blocks /\ r \in c.do_remote_prefill
LEMMA StateAfterAlloc ==
  ASSUME NEW c, NEW r, NEW blocks,
         DOMAIN c = {"do_remote_prefill", "reqs_need_recv", "finished_recving"}
  PROVE  AllocKnown(c, update_state_after_alloc(c, r, blocks), r, blocks)
<1>0. PICK d : d = update_state_after_alloc(c, r, blocks)
  OBVIOUS
<1>1. CASE r \notin c.do_remote_prefill
  BY <1>0, <1>1 DEF update_state_after_alloc, AllocKnown
<1>2. CASE r \in c.do_remote_prefill
  <2>1. PICK S : S = (IF PromptLen[r] < BlockSize THEN c.reqs_need_recv
                      ELSE c.reqs_need_recv \cup {[req |-> r, blocks |-> blocks]})
    OBVIOUS
  <2>2. d = [c EXCEPT !.do_remote_prefill = @ \ {r}, !.reqs_need_recv = S]
    BY <1>0, <1>2, <2>1 DEF update_state_after_alloc
  <2>3. /\ d.do_remote_prefill = c.do_remote_prefill \ {r} /\ d.reqs_need_recv = S
        /\ d.finished_recving = c.finished_recving
    BY <2>2
  <2>4. \A m \in S : m \in c.reqs_need_recv \/ m = [req |-> r, blocks |-> blocks]
    BY <2>1
  <2> QED
    BY <1>0, <2>3, <2>4, <1>2 DEF AllocKnown
<1> QED
  BY <1>1, <1>2

ConnKept ==
  /\ conn'.do_remote_prefill = conn.do_remote_prefill
  /\ conn'.reqs_need_recv = conn.reqs_need_recv
ConnTakes ==
  /\ conn'.do_remote_prefill \subseteq conn.do_remote_prefill
  /\ \A m \in conn'.reqs_need_recv :
        \/ m \in conn.reqs_need_recv
        \/ m.req \in conn.do_remote_prefill \ conn'.do_remote_prefill
LEMMA ConnAtHead ==
  ASSUME QueueInv, NEW r, NEW c, c = ConnectorAtHead(r)
  PROVE  /\ c.do_remote_prefill = conn.do_remote_prefill
         /\ c.reqs_need_recv = conn.reqs_need_recv
         /\ c.finished_recving = (IF Received(r) THEN conn.finished_recving \ {r}
                                  ELSE conn.finished_recving)
         /\ DOMAIN c = {"do_remote_prefill", "reqs_need_recv", "finished_recving"}
  BY DEF ConnectorAtHead, QueueInv, Shapes

LEMMA ScheduleConn ==
  ASSUME QueueInv, ScheduleSteps PROVE ConnTakes
<1>1. CASE UNCHANGED conn
  BY <1>1 DEF ConnTakes
<1>2. CASE SkipLora \/ StopAtWaiting
  BY <1>2, ConnAtHead DEF SkipLora, StopAtWaiting, ConnTakes
<1>3. CASE ScheduleWaiting
  <2>1. PICK r, c : r = Head(waiting) /\ c = ConnectorAtHead(r)
    OBVIOUS
  <2>2. conn' = update_state_after_alloc(c, r, {})
    BY <1>3, <2>1 DEF ScheduleWaiting
  <2>3. /\ c.do_remote_prefill = conn.do_remote_prefill
        /\ c.reqs_need_recv = conn.reqs_need_recv
        /\ DOMAIN c = {"do_remote_prefill", "reqs_need_recv", "finished_recving"}
    BY <2>1, ConnAtHead
  <2>4. PICK d : d = conn'
    OBVIOUS
  <2>5. /\ d.do_remote_prefill = c.do_remote_prefill \ {r}
        /\ \A m \in d.reqs_need_recv :
               m \in c.reqs_need_recv \/ (m.req = r /\ r \in c.do_remote_prefill)
    BY <2>2, <2>3, <2>4, StateAfterAlloc DEF AllocKnown
  <2>6. PICK A, B, P, Q : /\ A = conn.do_remote_prefill /\ B = d.do_remote_prefill
                          /\ P = conn.reqs_need_recv /\ Q = d.reqs_need_recv
    OBVIOUS
  <2>7. B = A \ {r} /\ \A m \in Q : m \in P \/ (m.req = r /\ r \in A)
    BY <2>3, <2>5, <2>6
  <2>8. B \subseteq A /\ \A m \in Q : m \in P \/ m.req \in A \ B
    BY <2>7
  <2> QED
    BY <2>4, <2>6, <2>8 DEF ConnTakes
<1>4. CASE LoadRemote
  <2>1. PICK r, b : conn' = update_state_after_alloc(conn, r, b)
    BY <1>4 DEF LoadRemote
  <2>2. DOMAIN conn = {"do_remote_prefill", "reqs_need_recv", "finished_recving"}
    BY DEF QueueInv, Shapes
  <2> QED
    BY <2>1, <2>2, StateAfterAlloc DEF ConnTakes, AllocKnown
<1> QED
  BY <1>1, <1>2, <1>3, <1>4
  DEF ScheduleSteps, SkipRunning, ScheduleRunning, PreemptLast, RunningLoopEnds, SkipWaiting,
      WaitingLoopEnds

LEMMA ScheduleCall ==
  ASSUME QueueInv, ScheduleSteps
  PROVE  call'.phase # "execute" /\ call'.finished_sending = call.finished_sending
         /\ call'.finished_recving = call.finished_recving
<1>0. DOMAIN call = CallFields
  BY DEF QueueInv, Shapes
<1>1. CASE SkipRunning \/ RunningLoopEnds
  BY <1>0, <1>1 DEF SkipRunning, RunningLoopEnds, CallFields, InRunningLoop
<1>2. CASE ScheduleRunning
  BY <1>0, <1>2 DEF ScheduleRunning, CallFields, InRunningLoop
<1>3. CASE PreemptLast
  BY <1>0, <1>3 DEF PreemptLast, CallFields, InRunningLoop
<1>4. CASE SkipWaiting \/ SkipLora \/ LoadRemote \/ StopAtWaiting \/ WaitingLoopEnds
  BY <1>0, <1>4 DEF SkipWaiting, SkipLora, LoadRemote, StopAtWaiting, WaitingLoopEnds,
                    CallFields, LooksUpHead, ConsidersHead, InWaitingLoop
<1>5. CASE ScheduleWaiting
  BY <1>0, <1>5 DEF ScheduleWaiting, CallFields, LooksUpHead, ConsidersHead, InWaitingLoop
<1> QED
  BY <1>1, <1>2, <1>3, <1>4, <1>5 DEF ScheduleSteps

LEMMA UpdateCall ==
  ASSUME QueueInv, UpdateSteps
  PROVE  /\ call'.phase # "execute" /\ call'.finished_sending \subseteq call.finished_sending
         /\ call'.finished_recving \subseteq call.finished_recving
         /\ ConnKept
<1>0. DOMAIN call = CallFields
      /\ DOMAIN conn = {"do_remote_prefill", "reqs_need_recv", "finished_recving"}
  BY DEF QueueInv, Shapes
<1>1. CASE KeepUnscheduled
  BY <1>0, <1>1 DEF KeepUnscheduled, CallFields, InUpdateLoop, ConnKept
<1>2. CASE UpdateScheduled
  <2>1. /\ UNCHANGED conn /\ InUpdateLoop
        /\ \/ call' = [call EXCEPT !.req_index = @ + 1, !.new_running = Append(@, Current)]
           \/ call' = [call EXCEPT !.req_index = @ + 1]
    BY <1>2 DEF UpdateScheduled, UpdateContinues, UpdateStops
  <2> QED
    BY <1>0, <2>1 DEF CallFields, InUpdateLoop, ConnKept
<1>3. CASE EndUpdate
  BY <1>0, <1>3 DEF EndUpdate, NoCall, ConnKept
<1> QED
  BY <1>1, <1>2, <1>3 DEF UpdateSteps

\* execute_model.
LEMMA TransferExecutes ==
  ASSUME QueueInv, TransferInv, [Steps]_engineVars, ExecuteModel PROVE TransferInv'
<1>1. PICK x, o, y, z, done :
         /\ x = worker.transfers /\ o = call.output /\ y = start_load_kv(x, o.kv_meta)
         /\ done = get_finished(y) /\ z = done.transfers
  OBVIOUS
<1>2. /\ call.phase = "execute" /\ req' = req /\ conn' = conn
      /\ worker' = [UpdatedWorker(worker, o) EXCEPT !.transfers = z]
      /\ call' = [BeginUpdate(o) EXCEPT !.finished_recving = done.recving,
                                        !.finished_sending = done.sending]
  BY <1>1 DEF ExecuteModel
<1>3. /\ DOMAIN worker = WorkerFields /\ TransfersOK(x) /\ SentFrom(x, WaitsToBeRead)
      /\ MetaOK(o.kv_meta) /\ conn.reqs_need_recv = {}
      /\ \A r \in conn.do_remote_prefill : Unfetched(r)
  BY <1>1, <1>2 DEF TransferInv
<1>4. DOMAIN worker' = WorkerFields /\ worker'.transfers = z
  BY <1>2, <1>3 DEF WorkerFields, UpdatedWorker
<1>5. call'.phase = "update" /\ call'.finished_sending = done.sending
  BY <1>2 DEF BeginUpdate, NoCall
<1>6. \A m \in o.kv_meta : m.req \in RemotePrefill /\ Receiving(x, m.req) = {}
  BY <1>1, <1>3 DEF MetaOK, Unfetched
<1>7. /\ TransfersOK(y) /\ SentFrom(y, WaitsToBeRead)
      /\ \A r \in Req : (\A m \in o.kv_meta : m.req # r) => Receiving(y, r) = Receiving(x, r)
  BY <1>1, <1>3, <1>6, StartLoadOK
<1>8. WaitsToBeRead \in SUBSET RemoteDecode /\ WaitsToBeRead' = WaitsToBeRead
  BY <1>2 DEF WaitsToBeRead
<1>9. FinishedAs(y, done, WaitsToBeRead)
  BY <1>1, <1>7, <1>8, GetFinishedOK
<1>10. /\ TransfersOK(z) /\ SentFrom(z, WaitsToBeRead) /\ done.sending \subseteq WaitsToBeRead
       /\ \A r \in Req : Receiving(z, r) \subseteq Receiving(y, r)
  BY <1>1, <1>9 DEF FinishedAs
<1>11. ASSUME NEW r \in conn.do_remote_prefill PROVE Unfetched(r)'
  <2>1. r \in RemotePrefill /\ r \in Req /\ Receiving(x, r) = {}
    BY <1>1, <1>3, ConnectorAssumption DEF Unfetched
  <2>2. \A m \in o.kv_meta : m.req # r
    BY <1>3 DEF MetaOK
  <2>3. Receiving(z, r) = {}
    BY <1>7, <1>10, <2>1, <2>2
  <2> QED
    BY <2>1, <2>3, <1>4 DEF Unfetched
<1>12. TransfersOK(worker.transfers)' /\ SentFrom(worker.transfers, WaitsToBeRead)'
  BY <1>4, <1>8, <1>10 DEF TransfersOK, SentFrom, CountsOK, Receiving, Sends
<1> QED
  BY <1>2, <1>3, <1>4, <1>5, <1>8, <1>10, <1>11, <1>12 DEF TransferInv, MetaOK

LEMMA TransferDispatches ==
  ASSUME QueueInv, TransferInv, EngineInv, [Steps]_engineVars, StepDispatches PROVE TransferInv'
<1>1. /\ conn' = [conn EXCEPT !.reqs_need_recv = {}] /\ call.phase = "finish"
  BY DEF StepDispatches, EndSchedule
<1>2. conn'.reqs_need_recv = {} /\ conn'.do_remote_prefill = conn.do_remote_prefill
  BY <1>1 DEF QueueInv, Shapes
<1>3. OutputOfCall.kv_meta = conn.reqs_need_recv
  BY DEF OutputOfCall, EngineInv, OutsOK, OutputGood, OutputShape, OutputFields
<1>4. CASE MaxConcurrentBatches = 1
  <2>1. call' = [NoCall EXCEPT !.phase = "execute", !.output = OutputOfCall] /\ UNCHANGED worker
    BY <1>4 DEF StepDispatches
  <2>2. call'.output.kv_meta = conn.reqs_need_recv /\ call'.finished_sending = {}
    BY <2>1, <1>3 DEF NoCall
  <2> QED
    BY <2>1, <2>2, <1>2, TransferFrame
<1>5. CASE MaxConcurrentBatches # 1
  <2>1. RemotePrefill = {} /\ RemoteDecode = {}
    <3>1. MaxConcurrentBatches > 1
      BY <1>5, EngineAssumption
    <3> QED
      BY <3>1, EngineAssumption
  <2>2. /\ call' = NoCall \/ call' = BeginUpdate(Head(batch_queue))
        /\ worker' = worker \/ worker' = UpdatedWorker(worker, OutputOfCall)
    BY <1>5 DEF StepDispatches
  <2>3. call'.phase # "execute" /\ call'.finished_sending = {}
    <3>1. CASE call' = NoCall
      BY <3>1 DEF NoCall
    <3>2. CASE call' = BeginUpdate(Head(batch_queue))
      BY <3>2 DEF BeginUpdate, NoCall
    <3> QED
      BY <2>2, <3>1, <3>2
  <2>4. worker'.transfers = worker.transfers /\ DOMAIN worker' = WorkerFields
    BY <2>2 DEF UpdatedWorker, TransferInv, WorkerFields
  <2>5. conn'.do_remote_prefill = {}
    BY <1>2, <2>1 DEF QueueInv, Shapes
  <2>6. WaitsToBeRead \subseteq WaitsToBeRead'
    BY ReadStays
  <2>7. TransfersOK(worker.transfers)' /\ SentFrom(worker.transfers, WaitsToBeRead)'
    BY <2>4, <2>6 DEF TransferInv, TransfersOK, SentFrom, CountsOK, Receiving, Sends
  <2> QED
    BY <2>3, <2>4, <2>5, <2>7, <1>2 DEF TransferInv, MetaOK
<1> QED
  BY <1>4, <1>5

LEMMA TransferNext ==
  ASSUME QueueInv, TransferInv, EngineInv, [Steps]_engineVars PROVE TransferInv'
<1>0. DOMAIN call = CallFields
  BY DEF QueueInv, Shapes
<1>1. ASSUME NEW r \in Req, AddRequest(r) \/ AbortRequest(r) \/ CompileGrammar(r)
      PROVE  TransferInv'
  <2>1. UNCHANGED <<conn, call, worker>>
    BY <1>1 DEF AddRequest, AbortRequest, CompileGrammar, add_request, finish_requests,
                GrammarCompiled
  <2>2. call'.phase = "execute" => conn'.reqs_need_recv = {}
    BY <2>1 DEF TransferInv
  <2> QED
    BY <2>1, <2>2, TransferFrame
<1>2. ASSUME NEW k \in Ranks, NEW r \in Req, TransferArrives(k, r) \/ TransferIsRead(k, r)
      PROVE  TransferInv'
  BY <1>2, TransferMoves
<1>3. CASE ResetPrefixCache \/ UNCHANGED engineVars
  <2>1. UNCHANGED <<conn, call, worker>>
    BY <1>3 DEF ResetPrefixCache, engineVars, schedulerVars
  <2>2. call'.phase = "execute" => conn'.reqs_need_recv = {}
    BY <2>1 DEF TransferInv
  <2> QED
    BY <2>1, <2>2, TransferFrame
<1>4. CASE ScheduleSteps /\ UNCHANGED <<batch_queue, worker>>
  BY <1>4, ScheduleConn, ScheduleCall, TransferFrame DEF ConnTakes
<1>5. CASE UpdateSteps /\ UNCHANGED <<batch_queue, worker>>
  BY <1>5, UpdateCall, TransferFrame DEF ConnKept
<1>6. CASE StepSchedules \/ StepDrains
  <2>1. UNCHANGED <<conn, worker>> /\ call'.phase # "execute" /\ call'.finished_sending = {}
    BY <1>6 DEF StepSchedules, StepDrains, BeginSchedule, BeginUpdate, NoCall
  <2> QED
    BY <2>1, TransferFrame
<1>7. CASE StepDispatches
  BY <1>7, TransferDispatches
<1>8. CASE ExecuteModel
  BY <1>8, TransferExecutes
<1> QED
  BY <1>1, <1>2, <1>3, <1>4, <1>5, <1>6, <1>7, <1>8 DEF Steps, EngineStep

LEMMA EngineUpdateStep ==
  ASSUME QueueInv, TransferInv, EngineInv, UNCHANGED batch_queue, UpdateSteps PROVE EngineInv'
<1>1. CASE KeepUnscheduled
  BY <1>1, EngineKeepUnscheduled
<1>2. CASE UpdateScheduled
  <2>1. /\ InUpdateLoop
        /\ \E g \in Generated(call.output, Current) :
             \/ \E d \in 0..NumSpecTokens : UpdateContinues(Current, g, d)
             \/ UpdateStops(Current, g)
    BY <1>2 DEF UpdateScheduled
  <2> QED
    BY <2>1, EngineUpdateContinues, EngineUpdateStops
<1>3. CASE EndUpdate
  <2>1. \A r \in call.finished_sending : req[r].status = "FINISHED"
    BY DEF TransferInv, WaitsToBeRead
  <2> QED
    BY <1>3, <2>1, EngineEndUpdate
<1> QED
  BY <1>1, <1>2, <1>3 DEF UpdateSteps

LEMMA EngineScheduleStep ==
  ASSUME Modelled, QueueInv, EngineInv, UNCHANGED batch_queue, ScheduleSteps PROVE EngineInv'
  BY EngineSkipRunning, EngineScheduleRunning, EnginePreemptLast, EngineRunningLoopEnds,
     EngineSkipWaiting, EngineSkipLora, EngineScheduleWaiting, EngineLoadRemote,
     EngineStopAtWaiting, EngineWaitingLoopEnds
  DEF ScheduleSteps

LEMMA EngineNext ==
  ASSUME Modelled, QueueInv, TransferInv, EngineInv, [Steps]_engineVars PROVE EngineInv'
<1>1. ASSUME NEW r \in Req, AddRequest(r) \/ AbortRequest(r) \/ CompileGrammar(r) PROVE EngineInv'
  <2>1. CASE AddRequest(r)
    BY <2>1, EngineAdd
  <2>2. CASE AbortRequest(r)
    BY <2>2, EngineAbort
  <2>3. CASE CompileGrammar(r)
    BY <2>3, EngineFrame DEF CompileGrammar, GrammarCompiled
  <2> QED
    BY <1>1, <2>1, <2>2, <2>3
<1>2. ASSUME NEW k \in Ranks, NEW r \in Req, TransferArrives(k, r) \/ TransferIsRead(k, r)
      PROVE  EngineInv'
  BY <1>2, EngineFrame DEF TransferArrives, TransferIsRead, schedulerVars
<1>3. CASE ResetPrefixCache
  BY <1>3, EngineReset
<1>4. CASE EngineStep
  BY <1>4, EngineScheduleStep, EngineUpdateStep, EngineStepSchedules, EngineStepDrains,
     EngineStepDispatches, EngineExecuteModel DEF EngineStep
<1>5. CASE UNCHANGED engineVars
  BY <1>5, EngineFrame DEF engineVars, schedulerVars
<1> QED
  BY <1>1, <1>2, <1>3, <1>4, <1>5 DEF Steps

\* The requests and the KV cache manager keep step, whatever is preempted, aborted,
\* cached, evicted, received or sent.
THEOREM EngineInvariant ==
  ASSUME Modelled PROVE Spec => [](QueueInv /\ TransferInv /\ EngineInv)
<1>1. Init => QueueInv /\ TransferInv /\ EngineInv
  BY QueueInit, TransferInit, EngineInit
<1>2. (QueueInv /\ TransferInv /\ EngineInv) /\ [Next]_vars
        => (QueueInv /\ TransferInv /\ EngineInv)'
  BY QueueNext, TransferNext, EngineNext, NextSteps
<1> QED
  BY <1>1, <1>2, PTL DEF Spec

=============================================================================
