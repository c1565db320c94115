---------------------- MODULE MultiprocExecutor_proofs ----------------------
(***************************************************************************)
(* The engine gets the answers of its own calls, for every number of       *)
(* workers, calls and concurrent batches, whatever raises, times out or    *)
(* dies - unless a utility call was made while futures were pending or     *)
(* failed in a worker and left the answers of others behind (misread).     *)
(*                                                                         *)
(* The argument: the calls whose answer a worker still owes are told apart *)
(* by their order alone, and the oldest of them is the one read next.      *)
(* While all goes well the worker that answers execute_model owes exactly  *)
(* the tasks of the I/O thread (OpenInStep), and a blocking call is the    *)
(* only one that is owed (Collecting).  A future that gives up leaves its  *)
(* answer behind and every later one is out of step (Lost); the engine     *)
(* ends when it comes to the one that gave up, before it uses any of them, *)
(* as it does when it comes to one whose method raised.                    *)
(***************************************************************************)
EXTENDS MultiprocExecutor, TLAPS

Answer == [call : Nat, ok : BOOLEAN]

\* The state of the busy loop.
MainStates ==
  [pc : {"idle", "collect", "wait", "dead"}, call : Nat, utility : BOOLEAN,
   left : Seq(Workers), reading : BOOLEAN]

\* The types of the variables.
Types ==
  /\ max_concurrent_batches \in Nat \ {0}
  /\ calls \in Seq(SUBSET Workers)
  /\ rpc \in [Workers -> Seq(Nat)]
  /\ response \in [Workers -> Seq(Answer)]
  /\ main \in MainStates
  /\ futures \in Seq(Nat) /\ io \in Seq(Nat)
  /\ result \in [Calls -> Seq(Answer)]
  /\ is_failed \in BOOLEAN /\ queues_open \in BOOLEAN

\* The order of a sequence, what is in it.
Distinct(q) == \A i, j \in DOMAIN q : q[i] = q[j] => i = j
Increasing(q) == \A i, j \in DOMAIN q : i < j => q[i] < q[j]
Members(q) == {q[i] : i \in DOMAIN q}

\* What is on its way to one worker (rp) is the end of all calls (cs); what it
\* has answered (rs) comes earlier, oldest first.
ChannelInOrder(cs, rp, rs) ==
  /\ Len(rp) <= Len(cs)
  /\ \A i \in 1..Len(rp) : rp[i] = Len(cs) - Len(rp) + i
  /\ \A i \in 1..Len(rs) : rs[i].call \in 1..(Len(cs) - Len(rp))
  /\ \A i, j \in 1..Len(rs) : i < j => rs[i].call < rs[j].call

\* The calls whose answer by worker w is still to be read.
Owed(cs, rp, rs, w) ==
  {rs[i].call : i \in 1..Len(rs)}
    \cup {c \in 1..Len(cs) : c > Len(cs) - Len(rp) /\ w \in cs[c]}
Uncollected(w) == Owed(calls, rpc[w], response[w], w)

Channels == \A w \in Workers : ChannelInOrder(calls, rpc[w], response[w])

Tasks == Members(io)
Pending == Members(futures)
Closed == is_failed \/ main.pc = "dead"

\* The future of call c has given up or failed; c waits behind such a future.
Bad(c) == result[c] # << >> /\ ~result[c][1].ok
Lost(c) == main.pc = "dead" \/ \E d \in Pending : d < c /\ Bad(d)

\* The I/O thread works for the futures, in order.
TaskQueues ==
  /\ Increasing(io) /\ Increasing(futures)
  /\ Tasks \subseteq Pending /\ Pending \subseteq 1..Len(calls)
  /\ Len(calls) <= MaxCalls
  /\ \A c \in Tasks : result[c] = << >>
  /\ \A c \in Calls : c > Len(calls) => result[c] = << >>
  /\ max_concurrent_batches = 1 => futures = << >>
  /\ main.pc = "wait" => futures # << >>

\* Queues are closed, and the monitor shuts down, only after a failure.
Flags == (~queues_open => Closed) /\ (monitor = "failed" => is_failed)

\* A blocking call is alone: its answers are all that the workers owe.
Collecting ==
  main.pc = "collect" =>
    /\ futures = << >> /\ main.call = Len(calls) /\ main.call \in Calls
    /\ main.left # << >> /\ Distinct(main.left)
    /\ \A w \in Workers : Uncollected(w) = IF w \in Members(main.left) THEN {main.call} ELSE {}

\* The answer to a task is owed, and before it only those to earlier tasks.
TasksInStep ==
  \A c \in Tasks :
    \/ Lost(c)
    \/ /\ c \in Uncollected(OutputRank)
       /\ \A x \in Uncollected(OutputRank) : x < c => x \in Tasks

\* Before a failure, and with no future that gave up, tasks and what is owed agree.
OpenInStep ==
  ~Closed =>
    /\ \A d \in Pending : Bad(d) => \A c \in Tasks : d < c
    /\ main.pc # "collect" /\ (\A d \in Pending : ~Bad(d)) =>
         \A w \in Workers : Uncollected(w) = IF w = OutputRank THEN Tasks ELSE {}

\* A wrong answer is only in a future behind one that gave up.
ResultsMatch ==
  \A c \in Calls : \A i \in DOMAIN result[c] :
    result[c][i].call \in {0, c} \/ (c \in Pending /\ Lost(c))

\* The inductive invariant.
IInv ==
  /\ Types /\ Channels /\ TaskQueues /\ Flags /\ Collecting
  /\ TasksInStep /\ OpenInStep /\ ResultsMatch

-----------------------------------------------------------------------------
\* Two facts of arithmetic.
LEMMA IntervalGrows == ASSUME NEW k \in Nat PROVE 1..(k + 1) = 1..k \cup {k + 1}
  OBVIOUS
LEMMA NextAfter ==
  ASSUME NEW n \in Nat, NEW m \in Nat, NEW c \in Nat, c = n - m + 1, NEW x \in Nat
  PROVE  x > n - m <=> x > c \/ x = c
  OBVIOUS

\* The two resting states of the busy loop.
LEMMA RestingStates ==
  /\ Idle \in MainStates /\ Idle.pc = "idle"
  /\ Dead \in MainStates /\ Dead.pc = "dead"
<1>1. Idle \in MainStates /\ Idle.pc = "idle"
  BY DEF Idle, MainStates
<1>2. ASSUME NEW m \in MainStates
      PROVE  [m EXCEPT !.pc = "dead"] \in MainStates /\ [m EXCEPT !.pc = "dead"].pc = "dead"
  BY DEF MainStates
<1> QED
  BY <1>1, <1>2 DEF Dead

\* What Tail takes from an ordered sequence is its least member.
LEMMA TailIncreasing ==
  ASSUME NEW q \in Seq(Nat), q # << >>, Increasing(q)
  PROVE  /\ Tail(q) \in Seq(Nat) /\ Increasing(Tail(q))
         /\ Head(q) \in Members(q)
         /\ \A x \in Members(q) : Head(q) <= x
         /\ Members(Tail(q)) = Members(q) \ {Head(q)}
<1>n. Len(q) \in Nat \ {0} /\ DOMAIN q = 1..Len(q)
  OBVIOUS
<1>t. /\ Tail(q) \in Seq(Nat) /\ DOMAIN Tail(q) = 1..(Len(q) - 1)
      /\ \A i \in 1..(Len(q) - 1) : Tail(q)[i] = q[i + 1]
  BY <1>n
<1>h. Head(q) = q[1] /\ 1 \in DOMAIN q
  BY <1>n
<1>v. \A i \in DOMAIN q : q[i] \in Nat
  BY <1>n
<1>1. Increasing(Tail(q))
  BY <1>n, <1>t DEF Increasing
<1>2. Head(q) \in Members(q)
  BY <1>h DEF Members
<1>3. \A i \in DOMAIN q : i # 1 => q[1] < q[i]
  BY <1>n, <1>h DEF Increasing
<1>4. \A x \in Members(q) : Head(q) <= x
  BY <1>3, <1>h, <1>v DEF Members
<1>5. ASSUME NEW x \in Members(Tail(q)) PROVE x \in Members(q) \ {Head(q)}
  <2>1. PICK i \in 1..(Len(q) - 1) : x = q[i + 1]
    BY <1>t DEF Members
  <2>2. i + 1 \in DOMAIN q /\ i + 1 # 1
    BY <1>n
  <2>3. x \in Nat /\ q[1] \in Nat /\ q[1] < x
    BY <2>1, <2>2, <1>3, <1>h, <1>v
  <2> QED
    BY <2>1, <2>2, <2>3, <1>h DEF Members
<1>6. ASSUME NEW x \in Members(q) \ {Head(q)} PROVE x \in Members(Tail(q))
  <2>1. PICK i \in DOMAIN q : x = q[i]
    BY DEF Members
  <2>2. i # 1
    BY <2>1, <1>h
  <2>3. i - 1 \in 1..(Len(q) - 1) /\ (i - 1) + 1 = i
    BY <2>2, <1>n
  <2>4. x = Tail(q)[i - 1]
    BY <2>1, <2>3, <1>t
  <2> QED
    BY <2>3, <2>4, <1>t DEF Members
<1> QED
  BY <1>1, <1>2, <1>4, <1>5, <1>6, <1>t

\* Append adds a member, and keeps the order if it is above all others.
LEMMA AppendMember ==
  ASSUME NEW q \in Seq(Nat), NEW x \in Nat
  PROVE  /\ Append(q, x) \in Seq(Nat)
         /\ Members(Append(q, x)) = Members(q) \cup {x}
         /\ Increasing(q) /\ (\A y \in Members(q) : y < x) => Increasing(Append(q, x))
<1>n. Len(q) \in Nat /\ DOMAIN q = 1..Len(q)
  OBVIOUS
<1>t. /\ Append(q, x) \in Seq(Nat) /\ DOMAIN Append(q, x) = 1..(Len(q) + 1)
      /\ \A i \in 1..Len(q) : Append(q, x)[i] = q[i]
      /\ Append(q, x)[Len(q) + 1] = x
  BY <1>n
<1>d. 1..(Len(q) + 1) = 1..Len(q) \cup {Len(q) + 1}
  BY <1>n
<1>1. Members(Append(q, x)) = Members(q) \cup {x}
  BY <1>n, <1>t, <1>d DEF Members
<1>2. ASSUME Increasing(q), \A y \in Members(q) : y < x PROVE Increasing(Append(q, x))
  <2>1. \A i \in 1..Len(q) : q[i] < x
    BY <1>2, <1>n DEF Members
  <2> QED
    BY <1>2, <1>n, <1>t, <2>1 DEF Increasing
<1> QED
  BY <1>1, <1>2, <1>t

\* The workers still to be read from, after the first was.
LEMMA TailDistinct ==
  ASSUME NEW q \in Seq(Workers), q # << >>, Distinct(q)
  PROVE  /\ Tail(q) \in Seq(Workers) /\ Distinct(Tail(q))
         /\ Head(q) \in Members(q) /\ Head(q) \in Workers
         /\ Members(Tail(q)) = Members(q) \ {Head(q)}
         /\ Len(q) = 1 => Members(Tail(q)) = {}
         /\ Len(q) # 1 => Tail(q) # << >>
<1>n. Len(q) \in Nat \ {0} /\ DOMAIN q = 1..Len(q)
  OBVIOUS
<1>t. /\ Tail(q) \in Seq(Workers) /\ DOMAIN Tail(q) = 1..(Len(q) - 1)
      /\ Len(Tail(q)) = Len(q) - 1
      /\ \A i \in 1..(Len(q) - 1) : Tail(q)[i] = q[i + 1]
  BY <1>n
<1>h. Head(q) = q[1] /\ 1 \in DOMAIN q /\ q[1] \in Workers
  BY <1>n
<1>1. Distinct(Tail(q))
  <2> SUFFICES ASSUME NEW i \in 1..(Len(q) - 1), NEW j \in 1..(Len(q) - 1), q[i + 1] = q[j + 1]
               PROVE  i = j
    BY <1>t DEF Distinct
  <2>1. i + 1 \in DOMAIN q /\ j + 1 \in DOMAIN q
    BY <1>n
  <2>2. i + 1 = j + 1
    BY <2>1 DEF Distinct
  <2> QED
    BY <2>2
<1>5. ASSUME NEW x \in Members(Tail(q)) PROVE x \in Members(q) \ {Head(q)}
  <2>1. PICK i \in 1..(Len(q) - 1) : x = q[i + 1]
    BY <1>t DEF Members
  <2>2. i + 1 \in DOMAIN q /\ i + 1 # 1
    BY <1>n
  <2> QED
    BY <2>1, <2>2, <1>h DEF Members, Distinct
<1>6. ASSUME NEW x \in Members(q) \ {Head(q)} PROVE x \in Members(Tail(q))
  <2>1. PICK i \in DOMAIN q : x = q[i]
    BY DEF Members
  <2>2. i # 1
    BY <2>1, <1>h
  <2>3. i - 1 \in 1..(Len(q) - 1) /\ (i - 1) + 1 = i
    BY <2>2, <1>n
  <2>4. x = Tail(q)[i - 1]
    BY <2>1, <2>3, <1>t
  <2> QED
    BY <2>3, <2>4, <1>t DEF Members
<1>7. Len(q) = 1 => Members(Tail(q)) = {}
  BY <1>t DEF Members
<1>8. ASSUME Len(q) # 1 PROVE Tail(q) # << >>
  <2>1. PICK t : t = Tail(q)
    OBVIOUS
  <2>2. Len(t) # 0
    BY <1>8, <1>t, <1>n, <2>1
  <2>3. t # << >>
    BY <2>2
  <2> QED
    BY <2>1, <2>3
<1> QED
  BY <1>1, <1>5, <1>6, <1>7, <1>8, <1>h, <1>t DEF Members

-----------------------------------------------------------------------------
\* A broadcast call is owed by the workers that answer it, after all others.
LEMMA CallSent ==
  ASSUME NEW cs \in Seq(SUBSET Workers), NEW rp \in Seq(Nat), NEW rs \in Seq(Answer),
         NEW w \in Workers, NEW a \in SUBSET Workers, ChannelInOrder(cs, rp, rs)
  PROVE  /\ ChannelInOrder(Append(cs, a), Append(rp, Len(cs) + 1), rs)
         /\ Owed(Append(cs, a), Append(rp, Len(cs) + 1), rs, w)
              = Owed(cs, rp, rs, w) \cup IF w \in a THEN {Len(cs) + 1} ELSE {}
         /\ Owed(cs, rp, rs, w) \subseteq 1..Len(cs)
<1> DEFINE n == Len(cs)  m == Len(rp)  k == Len(rs)
<1>n. n \in Nat /\ m \in Nat /\ k \in Nat /\ m <= n
  BY DEF ChannelInOrder
<1>c. /\ Len(Append(cs, a)) = n + 1 /\ Append(cs, a)[n + 1] = a
      /\ \A i \in 1..n : Append(cs, a)[i] = cs[i]
  BY <1>n
<1>r. /\ Len(Append(rp, n + 1)) = m + 1 /\ Append(rp, n + 1)[m + 1] = n + 1
      /\ \A i \in 1..m : Append(rp, n + 1)[i] = rp[i]
  BY <1>n
<1>d. (n + 1) - (m + 1) = n - m /\ n - m \in Nat
  BY <1>n
<1>1. ChannelInOrder(Append(cs, a), Append(rp, n + 1), rs)
  <2>1. \A i \in 1..(m + 1) : Append(rp, n + 1)[i] = (n - m) + i
    <3> SUFFICES ASSUME NEW i \in 1..(m + 1) PROVE Append(rp, n + 1)[i] = (n - m) + i
      OBVIOUS
    <3>1. CASE i = m + 1
      BY <3>1, <1>r, <1>n
    <3>2. CASE i # m + 1
      <4>1. i \in 1..m
        BY <3>2, <1>n
      <4> QED
        BY <4>1, <1>r DEF ChannelInOrder
    <3> QED
      BY <3>1, <3>2
  <2>2. m + 1 <= n + 1
    BY <1>n
  <2> QED
    BY <2>1, <2>2, <1>c, <1>r, <1>d DEF ChannelInOrder
<1>2. ASSUME NEW x
      PROVE  x \in {c \in 1..(n + 1) : c > n - m /\ w \in Append(cs, a)[c]}
               <=> \/ x \in {c \in 1..n : c > n - m /\ w \in cs[c]}
                   \/ x = n + 1 /\ w \in a
  <2>1. CASE x = n + 1
    <3>1. x \in 1..(n + 1) /\ x \notin 1..n /\ x > n - m
      BY <2>1, <1>n
    <3> QED
      BY <3>1, <2>1, <1>c
  <2>2. CASE x # n + 1
    <3>1. x \in 1..(n + 1) <=> x \in 1..n
      BY <2>2, <1>n
    <3> QED
      BY <3>1, <2>2, <1>c
  <2> QED
    BY <2>1, <2>2
<1>3. Owed(Append(cs, a), Append(rp, n + 1), rs, w)
        = {rs[i].call : i \in 1..k} \cup {c \in 1..(n + 1) : c > n - m /\ w \in Append(cs, a)[c]}
  BY <1>c, <1>r, <1>d DEF Owed
<1>4. Owed(cs, rp, rs, w) = {rs[i].call : i \in 1..k} \cup {c \in 1..n : c > n - m /\ w \in cs[c]}
  BY DEF Owed
<1>5. Owed(Append(cs, a), Append(rp, n + 1), rs, w)
        = Owed(cs, rp, rs, w) \cup IF w \in a THEN {n + 1} ELSE {}
  BY <1>2, <1>3, <1>4
<1>6. {rs[i].call : i \in 1..k} \subseteq 1..n
  <2>1. \A i \in 1..k : rs[i].call \in 1..(n - m)
    BY DEF ChannelInOrder
  <2>2. 1..(n - m) \subseteq 1..n
    BY <1>n
  <2> QED
    BY <2>1, <2>2
<1> QED
  BY <1>1, <1>4, <1>5, <1>6

\* The answers of worker w after it took its next call.
AfterAnswer(cs, rp, rs, w, ok) ==
  IF w \in cs[Head(rp)] THEN Append(rs, [call |-> Head(rp), ok |-> ok]) ELSE rs

\* A worker that takes a call and answers it still owes that answer.
LEMMA CallAnswered ==
  ASSUME NEW cs \in Seq(SUBSET Workers), NEW rp \in Seq(Nat), NEW rs \in Seq(Answer),
         NEW w \in Workers, NEW ok \in BOOLEAN, ChannelInOrder(cs, rp, rs), rp # << >>
  PROVE  /\ Tail(rp) \in Seq(Nat) /\ AfterAnswer(cs, rp, rs, w, ok) \in Seq(Answer)
         /\ ChannelInOrder(cs, Tail(rp), AfterAnswer(cs, rp, rs, w, ok))
         /\ Owed(cs, Tail(rp), AfterAnswer(cs, rp, rs, w, ok), w) = Owed(cs, rp, rs, w)
<1>rt. PICK rt : rt = AfterAnswer(cs, rp, rs, w, ok)
  OBVIOUS
<1> DEFINE n == Len(cs)  m == Len(rp)  k == Len(rs)
<1>n. n \in Nat /\ m \in Nat \ {0} /\ k \in Nat /\ m <= n
  BY DEF ChannelInOrder
<1>r. /\ Len(Tail(rp)) = m - 1 /\ Tail(rp) \in Seq(Nat) /\ Head(rp) = rp[1]
      /\ \A i \in 1..(m - 1) : Tail(rp)[i] = rp[i + 1]
  BY <1>n
<1>c. PICK c : c = n - m + 1
  OBVIOUS
<1>h. Head(rp) = c /\ c \in 1..n /\ n - (m - 1) = c /\ c \in Nat
  <2>1. 1 \in 1..m
    BY <1>n
  <2>2. rp[1] = n - m + 1
    BY <2>1 DEF ChannelInOrder
  <2> QED
    BY <2>2, <1>n, <1>r, <1>c
<1>1. \A i \in 1..(m - 1) : Tail(rp)[i] = c + i
  <2> SUFFICES ASSUME NEW i \in 1..(m - 1) PROVE Tail(rp)[i] = c + i
    OBVIOUS
  <2>1. i + 1 \in 1..m
    BY <1>n
  <2>2. rp[i + 1] = n - m + (i + 1)
    BY <2>1 DEF ChannelInOrder
  <2> QED
    BY <2>2, <1>r, <1>c, <1>n
<1>2. \A i \in 1..k : rs[i].call \in 1..(c - 1) /\ rs[i].call \in 1..c /\ rs[i].call < c
  <2> SUFFICES ASSUME NEW i \in 1..k
               PROVE  rs[i].call \in 1..(c - 1) /\ rs[i].call \in 1..c /\ rs[i].call < c
    OBVIOUS
  <2>1. rs[i].call \in 1..(n - m)
    BY DEF ChannelInOrder
  <2> QED
    BY <2>1, <1>c, <1>n
<1>w. {x \in 1..n : x > n - m /\ w \in cs[x]}
        = {x \in 1..n : x > c /\ w \in cs[x]} \cup IF w \in cs[c] THEN {c} ELSE {}
  <2>1. ASSUME NEW x \in 1..n PROVE x > n - m <=> x > c \/ x = c
    <3>1. x \in Nat
      BY <1>n
    <3> HIDE DEF n, m
    <3> QED
      BY <3>1, <1>c, <1>n, <1>h, NextAfter
  <2> QED
    BY <2>1, <1>h
<1>o. Owed(cs, rp, rs, w)
        = {rs[i].call : i \in 1..k} \cup {x \in 1..n : x > n - m /\ w \in cs[x]}
  BY DEF Owed
<1>p. Owed(cs, Tail(rp), rt, w)
        = {rt[i].call : i \in 1..Len(rt)} \cup {x \in 1..n : x > c /\ w \in cs[x]}
  BY <1>r, <1>h DEF Owed
<1>l. m - 1 <= n /\ n - Len(Tail(rp)) = c
  BY <1>n, <1>r, <1>h
<1>3. CASE w \in cs[c]
  <2>a. PICK z : z = [call |-> c, ok |-> ok]
    OBVIOUS
  <2>z. z \in Answer /\ z.call = c
    BY <2>a, <1>h DEF Answer
  <2>1. rt = Append(rs, z)
    BY <1>3, <1>h, <1>rt, <2>a DEF AfterAnswer
  <2>2. /\ rt \in Seq(Answer) /\ Len(rt) = k + 1 /\ rt[k + 1] = z
        /\ \A i \in 1..k : rt[i] = rs[i]
    BY <2>1, <2>z
  <2>3. 1..(k + 1) = 1..k \cup {k + 1}
    BY <1>n, IntervalGrows
  <2>4. \A i \in 1..(k + 1) : rt[i].call \in 1..c
    <3> c \in 1..c
      BY <1>h
    <3> QED
      BY <2>2, <2>3, <2>z, <1>2
  <2>5. \A i, j \in 1..(k + 1) : i < j => rt[i].call < rt[j].call
    <3> SUFFICES ASSUME NEW i \in 1..(k + 1), NEW j \in 1..(k + 1), i < j
                 PROVE  rt[i].call < rt[j].call
      OBVIOUS
    <3>1. i \in 1..k
      BY <1>n
    <3>2. CASE j = k + 1
      BY <3>1, <3>2, <2>2, <2>z, <1>2
    <3>3. CASE j # k + 1
      <4>1. j \in 1..k
        BY <3>3, <2>3
      <4> QED
        BY <3>1, <4>1, <2>2 DEF ChannelInOrder
    <3> QED
      BY <3>2, <3>3
  <2>6. ChannelInOrder(cs, Tail(rp), rt)
    BY <2>2, <2>4, <2>5, <1>1, <1>l, <1>r DEF ChannelInOrder
  <2>7. {rt[i].call : i \in 1..(k + 1)} = {rs[i].call : i \in 1..k} \cup {c}
    <3>1. \A i \in 1..(k + 1) : (i \in 1..k /\ rt[i] = rs[i]) \/ rt[i].call = c
      BY <2>2, <2>3, <2>z
    <3>2. k + 1 \in 1..(k + 1) /\ rt[k + 1].call = c
      BY <2>2, <2>3, <2>z
    <3>3. \A i \in 1..k : i \in 1..(k + 1) /\ rt[i].call = rs[i].call
      BY <2>2, <2>3
    <3> QED
      BY <3>1, <3>2, <3>3
  <2>8. Owed(cs, Tail(rp), rt, w) = Owed(cs, rp, rs, w)
    BY <2>7, <2>2, <1>w, <1>o, <1>p, <1>3
  <2> QED
    BY <2>2, <2>6, <2>8, <1>r, <1>rt
<1>4. CASE w \notin cs[c]
  <2>1. rt = rs
    BY <1>4, <1>h, <1>rt DEF AfterAnswer
  <2>2. ChannelInOrder(cs, Tail(rp), rt)
    BY <2>1, <1>1, <1>2, <1>l, <1>r DEF ChannelInOrder
  <2>3. Owed(cs, Tail(rp), rt, w) = Owed(cs, rp, rs, w)
    BY <2>1, <1>w, <1>o, <1>p, <1>4
  <2> QED
    BY <2>1, <2>2, <2>3, <1>r, <1>rt
<1> QED
  BY <1>3, <1>4

\* The answer read from a worker is to the oldest call it owes.
LEMMA AnswerRead ==
  ASSUME NEW cs \in Seq(SUBSET Workers), NEW rp \in Seq(Nat), NEW rs \in Seq(Answer),
         NEW w \in Workers, ChannelInOrder(cs, rp, rs), rs # << >>
  PROVE  /\ Head(rs) \in Answer /\ Tail(rs) \in Seq(Answer)
         /\ Head(rs).call \in Owed(cs, rp, rs, w)
         /\ \A x \in Owed(cs, rp, rs, w) : Head(rs).call <= x
         /\ ChannelInOrder(cs, rp, Tail(rs))
         /\ Owed(cs, rp, Tail(rs), w) = Owed(cs, rp, rs, w) \ {Head(rs).call}
<1> DEFINE n == Len(cs)  m == Len(rp)  k == Len(rs)
<1>n. n \in Nat /\ m \in Nat /\ k \in Nat \ {0} /\ m <= n
  BY DEF ChannelInOrder
<1>t. /\ Len(Tail(rs)) = k - 1 /\ Tail(rs) \in Seq(Answer) /\ Head(rs) = rs[1] /\ rs[1] \in Answer
      /\ \A i \in 1..(k - 1) : Tail(rs)[i] = rs[i + 1]
  BY <1>n
<1>s. 1 \in 1..k /\ \A i \in 1..(k - 1) : i + 1 \in 1..k /\ i + 1 # 1
  BY <1>n
<1>h. PICK h : h = rs[1].call
  OBVIOUS
<1>1. h \in 1..(n - m) /\ h \in Nat /\ h <= n - m
  <2>1. h \in 1..(n - m)
    BY <1>s, <1>h DEF ChannelInOrder
  <2> QED
    BY <2>1, <1>n
<1>2. \A i \in 1..k : i # 1 => h < rs[i].call
  BY <1>s, <1>h, <1>n DEF ChannelInOrder
<1>v. \A i \in 1..k : rs[i].call \in Nat
  <2>1. \A i \in 1..k : rs[i] \in Answer
    OBVIOUS
  <2> QED
    BY <2>1 DEF Answer
<1>o. Owed(cs, rp, rs, w)
        = {rs[i].call : i \in 1..k} \cup {x \in 1..n : x > n - m /\ w \in cs[x]}
  BY DEF Owed
<1>p. Owed(cs, rp, Tail(rs), w)
        = {Tail(rs)[i].call : i \in 1..(k - 1)} \cup {x \in 1..n : x > n - m /\ w \in cs[x]}
  BY <1>t DEF Owed
<1>3. \A x \in 1..n : x > n - m => h < x
  BY <1>1, <1>n
<1>4. \A x \in Owed(cs, rp, rs, w) : h <= x
  <2>1. \A i \in 1..k : h <= rs[i].call
    BY <1>2, <1>v, <1>1, <1>h
  <2>2. \A x \in 1..n : x > n - m => h <= x
    BY <1>3, <1>1
  <2> QED
    BY <2>1, <2>2, <1>o
<1>5. h \in Owed(cs, rp, rs, w)
  BY <1>o, <1>h, <1>s
<1>6. \A x : x \in {Tail(rs)[i].call : i \in 1..(k - 1)} <=> x \in {rs[i].call : i \in 1..k} /\ x # h
  <2>1. ASSUME NEW i \in 1..(k - 1)
        PROVE  Tail(rs)[i].call \in {rs[j].call : j \in 1..k} /\ Tail(rs)[i].call # h
    <3>1. Tail(rs)[i].call = rs[i + 1].call
      BY <1>t
    <3>2. h < rs[i + 1].call /\ rs[i + 1].call \in Nat
      BY <1>2, <1>s, <1>v
    <3>3. h # rs[i + 1].call
      BY <3>2, <1>1
    <3> QED
      BY <3>1, <3>3, <1>s
  <2>2. ASSUME NEW j \in 1..k, rs[j].call # h
        PROVE  rs[j].call \in {Tail(rs)[i].call : i \in 1..(k - 1)}
    <3>1. j # 1
      BY <2>2, <1>h
    <3>2. j - 1 \in 1..(k - 1) /\ (j - 1) + 1 = j
      BY <3>1, <1>n
    <3>3. Tail(rs)[j - 1] = rs[j]
      BY <3>2, <1>t
    <3> QED
      BY <3>2, <3>3
  <2> QED
    BY <2>1, <2>2
<1>7. Owed(cs, rp, Tail(rs), w) = Owed(cs, rp, rs, w) \ {h}
  <2>1. \A x \in 1..n : x > n - m => x # h
    BY <1>3, <1>1
  <2> QED
    BY <2>1, <1>6, <1>o, <1>p
<1>8. ChannelInOrder(cs, rp, Tail(rs))
  <2>1. \A i \in 1..(k - 1) : Tail(rs)[i].call \in 1..(n - m)
    BY <1>t, <1>s DEF ChannelInOrder
  <2>2. \A i, j \in 1..(k - 1) : i < j => Tail(rs)[i].call < Tail(rs)[j].call
    <3> SUFFICES ASSUME NEW i \in 1..(k - 1), NEW j \in 1..(k - 1), i < j
                 PROVE  rs[i + 1].call < rs[j + 1].call
      BY <1>t
    <3>1. i + 1 < j + 1
      OBVIOUS
    <3> QED
      BY <3>1, <1>s DEF ChannelInOrder
  <2> QED
    BY <2>1, <2>2, <1>t DEF ChannelInOrder
<1> QED
  BY <1>1, <1>4, <1>5, <1>7, <1>8, <1>h, <1>t

-----------------------------------------------------------------------------
\* A step that keeps the calls, the tasks and what the workers owe, and that
\* leaves a blocking call only after a failure.
LEMMA ControlStep ==
  ASSUME IInv, UNCHANGED <<max_concurrent_batches, calls, futures, io, result>>,
         Types', Channels', Flags',
         \A w \in Workers : Uncollected(w)' = Uncollected(w),
         main.pc = "dead" => main'.pc = "dead",
         Closed => Closed',
         main'.pc = "wait" => futures # << >>,
         main'.pc = "collect" =>
           main.pc = "collect" /\ main'.call = main.call /\ main'.left = main.left,
         main.pc = "collect" => main'.pc = "collect" \/ Closed'
  PROVE  IInv'
<1>p. Pending' = Pending /\ Tasks' = Tasks
  BY DEF Pending, Tasks
<1>b. \A c : Bad(c)' <=> Bad(c)
  BY DEF Bad
<1>l. \A c : Lost(c) => Lost(c)'
  BY <1>p, <1>b DEF Lost
<1>o. OutputRank \in Workers
  BY ExecutorAssumption
<1>1. TaskQueues'
  BY <1>p DEF IInv, TaskQueues
<1>2. Collecting'
  BY DEF IInv, Collecting
<1>3. TasksInStep'
  BY <1>p, <1>l, <1>o DEF IInv, TasksInStep
<1>4. OpenInStep'
  <2> SUFFICES ASSUME ~Closed'
               PROVE  /\ \A d \in Pending : Bad(d) => \A c \in Tasks : d < c
                      /\ main'.pc # "collect" /\ (\A d \in Pending : ~Bad(d)) =>
                           \A w \in Workers : Uncollected(w)' = IF w = OutputRank THEN Tasks ELSE {}
    BY <1>p, <1>b DEF OpenInStep
  <2> QED
    BY DEF IInv, OpenInStep
<1>5. ResultsMatch'
  BY <1>p, <1>l DEF IInv, ResultsMatch
<1> QED
  BY <1>1, <1>2, <1>3, <1>4, <1>5 DEF IInv

\* A broadcast call adds to what the workers owe.
LEMMA BroadcastStep ==
  ASSUME IInv, NEW a \in SUBSET Workers, Broadcast(a), UNCHANGED response
  PROVE  /\ calls' \in Seq(SUBSET Workers) /\ Len(calls') = Len(calls) + 1
         /\ rpc' \in [Workers -> Seq(Nat)]
         /\ Len(calls) + 1 \in Calls /\ Len(calls) \in Nat
         /\ Channels'
         /\ \A w \in Workers :
              /\ Uncollected(w)' = Uncollected(w) \cup IF w \in a THEN {Len(calls) + 1} ELSE {}
              /\ Uncollected(w) \subseteq 1..Len(calls)
<1>t. /\ calls \in Seq(SUBSET Workers) /\ rpc \in [Workers -> Seq(Nat)]
      /\ response \in [Workers -> Seq(Answer)] /\ Channels
  BY DEF IInv, Types
<1>s. /\ calls' = Append(calls, a) /\ Len(calls) < MaxCalls
      /\ rpc' = [w \in Workers |-> Append(rpc[w], Len(calls) + 1)]
  BY DEF Broadcast
<1>n. Len(calls) \in Nat /\ Len(calls) + 1 \in Nat
  BY <1>t
<1>1. calls' \in Seq(SUBSET Workers) /\ Len(calls') = Len(calls) + 1
  BY <1>t, <1>s
<1>2. rpc' \in [Workers -> Seq(Nat)]
  <2>1. \A w \in Workers : Append(rpc[w], Len(calls) + 1) \in Seq(Nat)
    BY <1>t, <1>n
  <2> QED
    BY <2>1, <1>s
<1>3. Len(calls) + 1 \in Calls
  BY <1>n, <1>s, ExecutorAssumption DEF Calls
<1>4. ASSUME NEW w \in Workers
      PROVE  /\ ChannelInOrder(calls, rpc[w], response[w])'
             /\ Uncollected(w)' = Uncollected(w) \cup IF w \in a THEN {Len(calls) + 1} ELSE {}
             /\ Uncollected(w) \subseteq 1..Len(calls)
  <2>1. rpc'[w] = Append(rpc[w], Len(calls) + 1) /\ response'[w] = response[w]
    BY <1>s
  <2>2. rpc[w] \in Seq(Nat) /\ response[w] \in Seq(Answer)
    BY <1>t
  <2>3. ChannelInOrder(calls, rpc[w], response[w])
    BY <1>t DEF Channels
  <2>c. calls \in Seq(SUBSET Workers)
    BY <1>t
  <2>4. /\ ChannelInOrder(Append(calls, a), Append(rpc[w], Len(calls) + 1), response[w])
        /\ Owed(Append(calls, a), Append(rpc[w], Len(calls) + 1), response[w], w)
             = Owed(calls, rpc[w], response[w], w) \cup IF w \in a THEN {Len(calls) + 1} ELSE {}
        /\ Owed(calls, rpc[w], response[w], w) \subseteq 1..Len(calls)
    BY <2>2, <2>3, <2>c, CallSent
  <2> QED
    BY <2>1, <2>4, <1>s DEF Uncollected
<1> QED
  BY <1>1, <1>2, <1>3, <1>4, <1>n DEF Channels

\* A blocking call is made when nothing is owed.
LEMMA BlockingCall ==
  ASSUME IInv, NEW a \in SUBSET Workers, NEW left \in Seq(Workers), NEW u \in BOOLEAN,
         left # << >>, Distinct(left), Members(left) = a,
         main.pc = "idle", futures = << >>, Broadcast(a), main' = Collect(u, left),
         UNCHANGED <<max_concurrent_batches, futures, io, response, result, failVars>>
  PROVE  IInv'
<1>b. /\ calls' \in Seq(SUBSET Workers) /\ Len(calls') = Len(calls) + 1
      /\ rpc' \in [Workers -> Seq(Nat)]
      /\ Len(calls) + 1 \in Calls /\ Len(calls) \in Nat
      /\ Channels'
      /\ \A w \in Workers :
           Uncollected(w)' = Uncollected(w) \cup IF w \in a THEN {Len(calls) + 1} ELSE {}
  BY BroadcastStep
<1>m. main' = [pc |-> "collect", call |-> Len(calls) + 1, utility |-> u, left |-> left, reading |-> FALSE]
  BY DEF Collect
<1>e. Pending = {} /\ Tasks = {} /\ Pending' = {} /\ Tasks' = {}
  <2>1. Pending = {} /\ Pending' = {}
    BY DEF Pending, Members
  <2>2. Tasks = {} /\ Tasks' = Tasks
    BY <2>1 DEF IInv, TaskQueues, Tasks
  <2> QED
    BY <2>1, <2>2
<1>f. ~is_failed /\ queues_open
  BY DEF Broadcast
<1>u. \A w \in Workers : Uncollected(w) = {}
  BY <1>e, <1>f DEF IInv, OpenInStep, Closed
<1>1. Types'
  <2>1. Len(calls) + 1 \in Nat
    BY <1>b
  <2>2. main' \in MainStates
    BY <1>m, <2>1 DEF MainStates
  <2> QED
    BY <1>b, <2>2 DEF IInv, Types, failVars
<1>2. TaskQueues'
  <2>1. Increasing(io)' /\ Increasing(futures)'
    BY DEF IInv, TaskQueues
  <2>2. Len(calls') <= MaxCalls
    BY <1>b, ExecutorAssumption DEF Calls
  <2>3. \A c \in Calls : c > Len(calls) => result[c] = << >>
    BY DEF IInv, TaskQueues
  <2>4. \A c \in Calls : c > Len(calls) + 1 => c > Len(calls)
    BY <1>b DEF Calls
  <2>5. \A c \in Calls : c > Len(calls') => result'[c] = << >>
    BY <2>3, <2>4, <1>b
  <2> QED
    BY <2>1, <2>2, <2>5, <1>e, <1>m DEF TaskQueues
<1>3. Flags'
  BY <1>f DEF IInv, Flags, failVars
<1>4. Collecting'
  BY <1>b, <1>m, <1>u DEF Collecting
<1>5. TasksInStep' /\ OpenInStep'
  BY <1>e, <1>m DEF TasksInStep, OpenInStep
<1>6. ResultsMatch'
  <2>1. \A c \in Calls : \A i \in DOMAIN result[c] : result[c][i].call \in {0, c}
    BY <1>e DEF IInv, ResultsMatch
  <2> QED
    BY <2>1 DEF ResultsMatch
<1> QED
  BY <1>b, <1>1, <1>2, <1>3, <1>4, <1>5, <1>6 DEF IInv

\* execute_model, blocking or with a future for the I/O thread.
LEMMA ExecuteModelStep ==
  ASSUME IInv, ExecuteModel, Fixed
  PROVE  IInv'
<1>o. OutputRank \in Workers /\ {OutputRank} \in SUBSET Workers
  BY ExecutorAssumption
<1>s. /\ main.pc = "idle" /\ Broadcast({OutputRank})
      /\ UNCHANGED <<max_concurrent_batches, response, result, failVars>>
  BY DEF ExecuteModel, Fixed
<1>n. max_concurrent_batches \in Nat \ {0}
  BY DEF IInv, Types
<1>1. CASE ~(max_concurrent_batches > 1)
  <2>1. futures = << >>
    BY <1>1, <1>n DEF IInv, TaskQueues
  <2>2. main' = Collect(FALSE, <<OutputRank>>) /\ UNCHANGED <<io, futures>>
    BY <1>1 DEF ExecuteModel
  <2>3. PICK q : q = <<OutputRank>>
    OBVIOUS
  <2>4. q \in Seq(Workers) /\ q # << >> /\ DOMAIN q = {1} /\ q[1] = OutputRank
    BY <2>3, <1>o
  <2>5. Distinct(q) /\ Members(q) = {OutputRank}
    BY <2>4 DEF Distinct, Members
  <2>6. main' = Collect(FALSE, q)
    BY <2>2, <2>3
  <2> QED
    BY <2>1, <2>2, <2>4, <2>5, <2>6, <1>s, <1>o, BlockingCall
<1>2. CASE max_concurrent_batches > 1
  <2>s. /\ io' = Append(io, Len(calls) + 1) /\ futures' = Append(futures, Len(calls) + 1)
        /\ main' = main
    BY <1>2 DEF ExecuteModel
  <2>n. PICK n : n = Len(calls)
    OBVIOUS
  <2>b. /\ calls' \in Seq(SUBSET Workers) /\ Len(calls') = n + 1
        /\ rpc' \in [Workers -> Seq(Nat)]
        /\ n + 1 \in Calls /\ n \in Nat
        /\ Channels'
        /\ \A w \in Workers :
             /\ Uncollected(w)' = Uncollected(w) \cup IF w \in {OutputRank} THEN {n + 1} ELSE {}
             /\ Uncollected(w) \subseteq 1..n
    BY <1>s, <1>o, <2>n, BroadcastStep
  <2>f. ~is_failed /\ queues_open /\ ~Closed
    BY <1>s DEF Broadcast, Closed
  <2>q. /\ io \in Seq(Nat) /\ futures \in Seq(Nat) /\ Increasing(io) /\ Increasing(futures)
        /\ Tasks \subseteq Pending /\ Pending \subseteq 1..n
        /\ (\A c \in Tasks : result[c] = << >>)
        /\ (\A c \in Calls : c > n => result[c] = << >>)
    BY <2>n DEF IInv, Types, TaskQueues
  <2>w. n + 1 \in Nat /\ n + 1 \notin Pending /\ (\A y \in Pending : y \in Nat /\ y < n + 1)
    <3>1. n \in Nat
      BY <2>b
    <3>2. n + 1 \in Nat /\ n + 1 \notin 1..n /\ (\A y \in 1..n : y \in Nat /\ y < n + 1)
      BY <3>1
    <3> QED
      BY <3>2, <2>q
  <2>a. /\ io' \in Seq(Nat) /\ futures' \in Seq(Nat) /\ Increasing(io)' /\ Increasing(futures)'
        /\ Tasks' = Tasks \cup {n + 1} /\ Pending' = Pending \cup {n + 1}
    <3>1. (\A y \in Members(io) : y < n + 1) /\ (\A y \in Members(futures) : y < n + 1)
      BY <2>q, <2>w DEF Tasks, Pending
    <3>2. io' = Append(io, n + 1) /\ futures' = Append(futures, n + 1)
      BY <2>s, <2>n
    <3> QED
      BY <3>1, <3>2, <2>q, <2>w, AppendMember DEF Tasks, Pending
  <2>c. \A c : Bad(c)' <=> Bad(c)
    BY <1>s DEF Bad
  <2>d. result[n + 1] = << >> /\ ~Bad(n + 1)
    <3>1. n + 1 > n
      BY <2>b
    <3> QED
      BY <3>1, <2>b, <2>q DEF Bad
  <2>l. \A c : Lost(c) => Lost(c)'
    BY <2>a, <2>c, <2>s DEF Lost
  <2>1. Types'
    BY <1>s, <2>a, <2>b, <2>s DEF IInv, Types, failVars
  <2>2. TaskQueues'
    <3>1. Len(calls') <= MaxCalls
      BY <2>b, ExecutorAssumption DEF Calls
    <3>2. Pending' \subseteq 1..(n + 1)
      <4>1. n \in Nat
        BY <2>b
      <4>2. 1..(n + 1) = 1..n \cup {n + 1}
        BY <4>1, IntervalGrows
      <4> QED
        BY <4>2, <2>a, <2>q
    <3>3. \A c \in Calls : c > n + 1 => c > n
      BY <2>b DEF Calls
    <3>4. \A c \in Calls : c > Len(calls') => result'[c] = << >>
      BY <3>3, <2>b, <2>q, <1>s
    <3>5. \A c \in Tasks' : result'[c] = << >>
      BY <2>a, <2>d, <2>q, <1>s
    <3>6. max_concurrent_batches' # 1 /\ main'.pc # "wait" /\ Tasks' \subseteq Pending'
      <4>1. max_concurrent_batches # 1
        BY <1>2, <1>n
      <4> QED
        BY <4>1, <1>s, <2>s, <2>a, <2>q
    <3> QED
      BY <3>1, <3>2, <3>4, <3>5, <3>6, <2>a, <2>b DEF TaskQueues
  <2>3. Flags'
    BY <1>s, <2>f DEF IInv, Flags, failVars
  <2>4. Collecting'
    BY <1>s, <2>s DEF Collecting
  <2>5. TasksInStep'
    <3> SUFFICES ASSUME NEW c \in Tasks'
                 PROVE  \/ Lost(c)'
                        \/ /\ c \in Uncollected(OutputRank)'
                           /\ \A x \in Uncollected(OutputRank)' : x < c => x \in Tasks'
      BY DEF TasksInStep
    <3>u. PICK v : v = Uncollected(OutputRank)
      OBVIOUS
    <3>v. Uncollected(OutputRank)' = v \cup {n + 1} /\ v \subseteq 1..n
      BY <2>b, <1>o, <3>u
    <3>1. CASE c \in Tasks
      <4>1. Lost(c) \/ (c \in v /\ \A x \in v : x < c => x \in Tasks)
        BY <3>1, <3>u DEF IInv, TasksInStep
      <4>2. ~(n + 1 < c)
        BY <3>1, <2>b, <2>q
      <4> QED
        BY <4>1, <4>2, <3>v, <2>l, <2>a
    <3>2. CASE c = n + 1
      <4>1. CASE \E d \in Pending : Bad(d)
        BY <4>1, <3>2, <2>a, <2>c, <2>w DEF Lost
      <4>2. CASE \A d \in Pending : ~Bad(d)
        <5>1. v = Tasks
          BY <4>2, <2>f, <1>s, <1>o, <3>u DEF IInv, OpenInStep
        <5> QED
          BY <5>1, <3>2, <3>v, <2>a
      <4> QED
        BY <4>1, <4>2
    <3> QED
      BY <3>1, <3>2, <2>a
  <2>6. OpenInStep'
    <3>1. ASSUME NEW d \in Pending', Bad(d)', NEW c \in Tasks' PROVE d < c
      <4>1. d \in Pending /\ Bad(d)
        BY <3>1, <2>a, <2>c, <2>d
      <4>2. c \in Tasks => d < c
        BY <4>1, <2>f DEF IInv, OpenInStep
      <4> QED
        BY <4>1, <4>2, <2>a, <2>w
    <3>2. ASSUME \A d \in Pending' : ~Bad(d)', NEW w \in Workers
          PROVE  Uncollected(w)' = IF w = OutputRank THEN Tasks' ELSE {}
      <4>1. \A d \in Pending : ~Bad(d)
        BY <3>2, <2>a, <2>c
      <4>2. Uncollected(w) = IF w = OutputRank THEN Tasks ELSE {}
        BY <4>1, <2>f, <1>s DEF IInv, OpenInStep
      <4> QED
        BY <4>2, <2>a, <2>b
    <3> QED
      BY <3>1, <3>2 DEF OpenInStep
  <2>7. ResultsMatch'
    BY <2>a, <2>l, <1>s DEF IInv, ResultsMatch
  <2> QED
    BY <2>b, <2>1, <2>2, <2>3, <2>4, <2>5, <2>6, <2>7 DEF IInv
<1> QED
  BY <1>1, <1>2

\* A utility call is answered by all workers.
LEMMA UtilityStep ==
  ASSUME IInv, Utility, Fixed
  PROVE  misread' \/ IInv'
<1> SUFFICES ASSUME ~misread' PROVE IInv'
  OBVIOUS
<1>1. PICK q : q = Ranks
  OBVIOUS
<1>2. /\ DOMAIN q = 1..WorldSize /\ WorldSize \in Nat \ {0}
      /\ \A w \in 1..WorldSize : q[w] = w
  BY <1>1, ExecutorAssumption DEF Ranks, Workers
<1>3. q \in Seq(Workers) /\ Len(q) = WorldSize
  BY <1>1, <1>2 DEF Ranks, Workers
<1>4. q # << >> /\ Distinct(q) /\ Members(q) = Workers
  BY <1>2, <1>3 DEF Distinct, Members, Workers
<1>5. /\ main.pc = "idle" /\ futures = << >> /\ Broadcast(Workers) /\ main' = Collect(TRUE, q)
      /\ UNCHANGED <<max_concurrent_batches, futures, io, response, result, failVars>>
  BY <1>1 DEF Utility, Fixed
<1> QED
  BY <1>3, <1>4, <1>5, BlockingCall

\* The engine reads the answer of the next worker to its blocking call.
LEMMA ReadResponseStep ==
  ASSUME IInv, ReadResponse, Fixed
  PROVE  misread' \/ IInv'
<1> SUFFICES ASSUME ~misread' PROVE IInv'
  OBVIOUS
<1>t. /\ calls \in Seq(SUBSET Workers) /\ rpc \in [Workers -> Seq(Nat)]
      /\ response \in [Workers -> Seq(Answer)] /\ Channels
      /\ result \in [Calls -> Seq(Answer)]
      /\ main \in MainStates
  BY DEF IInv, Types
<1>q. PICK q : q = main.left
  OBVIOUS
<1>c. PICK c : c = main.call
  OBVIOUS
<1>m. /\ main.pc = "collect" /\ futures = << >> /\ c = Len(calls) /\ c \in Calls
      /\ q \in Seq(Workers) /\ q # << >> /\ Distinct(q)
      /\ \A v \in Workers : Uncollected(v) = IF v \in Members(q) THEN {c} ELSE {}
  BY <1>t, <1>q, <1>c DEF IInv, ReadResponse, Collecting, MainStates
<1>w. PICK w : w = Head(q)
  OBVIOUS
<1>r. /\ Tail(q) \in Seq(Workers) /\ Distinct(Tail(q)) /\ w \in Members(q) /\ w \in Workers
      /\ Members(Tail(q)) = Members(q) \ {w}
      /\ Len(q) = 1 => Members(Tail(q)) = {}
      /\ Len(q) # 1 => Tail(q) # << >>
  BY <1>m, <1>w, TailDistinct
<1>h. PICK h : h = Head(response[w])
  OBVIOUS
<1>s. /\ response[w] # << >>
      /\ response' = [response EXCEPT ![w] = Tail(response[w])]
      /\ result' = [result EXCEPT ![c] = Append(result[c], h)]
      /\ main' = IF ~h.ok THEN AfterRaise
                 ELSE IF Len(q) = 1 THEN Idle
                 ELSE [main EXCEPT !.left = Tail(q), !.reading = FALSE]
      /\ h.ok \/ ~(Len(q) > 1)
      /\ UNCHANGED <<max_concurrent_batches, calls, futures, rpc, io, failVars>>
  BY <1>q, <1>c, <1>w, <1>h DEF ReadResponse, Fixed
<1>a. /\ h \in Answer /\ Tail(response[w]) \in Seq(Answer)
      /\ h.call \in Uncollected(w)
      /\ ChannelInOrder(calls, rpc[w], Tail(response[w]))
      /\ Owed(calls, rpc[w], Tail(response[w]), w) = Uncollected(w) \ {h.call}
  <2>1. rpc[w] \in Seq(Nat) /\ response[w] \in Seq(Answer) /\ ChannelInOrder(calls, rpc[w], response[w])
    BY <1>t, <1>r DEF Channels
  <2>2. PICK rs : rs = response[w]
    OBVIOUS
  <2>3. rs \in Seq(Answer) /\ rs # << >> /\ ChannelInOrder(calls, rpc[w], rs) /\ h = Head(rs)
    BY <2>1, <2>2, <1>s, <1>h
  <2>4. /\ h \in Answer /\ Tail(rs) \in Seq(Answer)
        /\ h.call \in Owed(calls, rpc[w], rs, w)
        /\ ChannelInOrder(calls, rpc[w], Tail(rs))
        /\ Owed(calls, rpc[w], Tail(rs), w) = Owed(calls, rpc[w], rs, w) \ {h.call}
    BY <2>1, <2>3, <1>t, <1>r, AnswerRead
  <2> QED
    BY <2>2, <2>4 DEF Uncollected
<1>b. h.call = c
  BY <1>a, <1>m, <1>r
<1>u. \A v \in Workers : Uncollected(v)' = IF v \in Members(Tail(q)) THEN {c} ELSE {}
  <2> SUFFICES ASSUME NEW v \in Workers
               PROVE  Uncollected(v)' = IF v \in Members(Tail(q)) THEN {c} ELSE {}
    OBVIOUS
  <2>1. CASE v = w
    <3>1. response'[v] = Tail(response[w])
      BY <2>1, <1>s, <1>t, <1>r
    <3>2. Uncollected(v)' = Uncollected(w) \ {c}
      BY <3>1, <2>1, <1>a, <1>b, <1>s DEF Uncollected
    <3> QED
      BY <3>2, <2>1, <1>m, <1>r
  <2>2. CASE v # w
    <3>1. response'[v] = response[v]
      BY <2>2, <1>s, <1>t
    <3>2. Uncollected(v)' = Uncollected(v)
      BY <3>1, <1>s DEF Uncollected
    <3> QED
      BY <3>2, <2>2, <1>m, <1>r
  <2> QED
    BY <2>1, <2>2
<1>1. Channels'
  <2> SUFFICES ASSUME NEW v \in Workers PROVE ChannelInOrder(calls, rpc[v], response'[v])
    BY <1>s DEF Channels
  <2>1. CASE v = w
    BY <2>1, <1>a, <1>s, <1>t, <1>r
  <2>2. CASE v # w
    BY <2>2, <1>s, <1>t DEF Channels
  <2> QED
    BY <2>1, <2>2
<1>e. Pending = {} /\ Tasks = {} /\ Pending' = {} /\ Tasks' = {}
  <2>1. Pending = {} /\ Pending' = {}
    BY <1>m, <1>s DEF Pending, Members
  <2>2. Tasks = {} /\ Tasks' = Tasks
    BY <2>1, <1>s DEF IInv, TaskQueues, Tasks
  <2> QED
    BY <2>1, <2>2
<1>n. \/ (main' = Idle \/ main' = Dead) /\ Len(q) = 1
      \/ main' = [main EXCEPT !.left = Tail(q), !.reading = FALSE] /\ Len(q) # 1
  <2>1. Len(q) \in Nat \ {0}
    BY <1>m
  <2>2. ASSUME ~h.ok PROVE (main' = Idle \/ main' = Dead) /\ Len(q) = 1
    <3>1. main' = AfterRaise /\ ~(Len(q) > 1)
      BY <2>2, <1>s
    <3>2. AfterRaise = Idle \/ AfterRaise = Dead
      BY DEF AfterRaise
    <3>3. ASSUME NEW n \in Nat \ {0}, ~(n > 1) PROVE n = 1
      BY <3>3
    <3> QED
      BY <3>1, <3>2, <3>3, <2>1
  <2> QED
    BY <2>2, <1>s
<1>d. result' \in [Calls -> Seq(Answer)]
  <2>1. Append(result[c], h) \in Seq(Answer)
    BY <1>t, <1>m, <1>a
  <2> QED
    BY <2>1, <1>t, <1>s
<1>2. Types'
  <2>1. response' \in [Workers -> Seq(Answer)]
    BY <1>a, <1>s, <1>t
  <2>2. main' \in MainStates
    <3>1. Idle \in MainStates /\ Dead \in MainStates
      BY RestingStates
    <3> QED
      BY <3>1, <1>n, <1>r, <1>t DEF MainStates
  <2> QED
    BY <2>1, <2>2, <1>d, <1>s DEF IInv, Types, failVars
<1>p. main'.pc \in {"idle", "collect", "dead"}
  <2>1. /\ [main EXCEPT !.left = Tail(q), !.reading = FALSE].pc = main.pc
        /\ Idle.pc = "idle" /\ Dead.pc = "dead"
    BY <1>t, RestingStates DEF MainStates
  <2> QED
    BY <2>1, <1>n, <1>m
<1>3. TaskQueues'
  <2>1. /\ Increasing(io)' /\ Increasing(futures)' /\ Len(calls') <= MaxCalls
        /\ \A x \in Calls : x > Len(calls) => result[x] = << >>
    BY <1>s DEF IInv, TaskQueues
  <2>2. ~(c > Len(calls))
    <3>1. Len(calls) \in Nat
      BY <1>t
    <3> QED
      BY <1>m, <3>1
  <2>3. \A x \in Calls : x > Len(calls') => result'[x] = << >>
    BY <2>1, <2>2, <1>s, <1>t
  <2> QED
    BY <2>1, <2>3, <1>e, <1>p, <1>m, <1>s DEF TaskQueues
<1>4. Flags'
  BY <1>s, <1>m DEF IInv, Flags, Closed, failVars
<1>5. Collecting'
  <2> SUFFICES ASSUME main'.pc = "collect" PROVE Collecting'
    BY DEF Collecting
  <2>1. main' = [main EXCEPT !.left = Tail(q), !.reading = FALSE] /\ Len(q) # 1
    BY <1>n, RestingStates
  <2>2. main'.left = Tail(q) /\ main'.call = c
    BY <2>1, <1>t, <1>c
  <2> QED
    BY <2>1, <2>2, <1>m, <1>r, <1>s, <1>u DEF Collecting
<1>6. TasksInStep'
  BY <1>e DEF TasksInStep
<1>7. OpenInStep'
  <2>1. main'.pc # "collect" => Members(Tail(q)) = {}
    BY <1>n, <1>m, <1>r, <1>t DEF MainStates
  <2>2. main'.pc # "collect" => \A v \in Workers : Uncollected(v)' = {}
    BY <2>1, <1>u
  <2> QED
    BY <2>2, <1>e DEF OpenInStep
<1>8. ResultsMatch'
  <2>1. \A x \in Calls : \A i \in DOMAIN result[x] : result[x][i].call \in {0, x}
    BY <1>e DEF IInv, ResultsMatch
  <2>2. ASSUME NEW x \in Calls, NEW i \in DOMAIN result'[x] PROVE result'[x][i].call \in {0, x}
    <3>1. CASE x # c
      BY <3>1, <2>1, <1>s, <1>t
    <3>2. CASE x = c
      <4>r. PICK r : r = result[c]
        OBVIOUS
      <4>1. r \in Seq(Answer) /\ result'[x] = Append(r, h)
        BY <3>2, <4>r, <1>t, <1>s, <1>m
      <4>2. /\ DOMAIN Append(r, h) = 1..(Len(r) + 1) /\ Len(r) \in Nat /\ DOMAIN r = 1..Len(r)
            /\ Append(r, h)[Len(r) + 1] = h /\ \A j \in 1..Len(r) : Append(r, h)[j] = r[j]
        BY <4>1, <1>a
      <4>3. i = Len(r) + 1 \/ i \in 1..Len(r)
        BY <4>1, <4>2, IntervalGrows
      <4> QED
        BY <4>1, <4>2, <4>3, <4>r, <3>2, <2>1, <1>b
    <3> QED
      BY <3>1, <3>2
  <2> QED
    BY <2>2 DEF ResultsMatch
<1> QED
  BY <1>1, <1>2, <1>3, <1>4, <1>5, <1>6, <1>7, <1>8 DEF IInv

\* The task that runs is the oldest one.
LEMMA OldestTask ==
  ASSUME IInv, NEW c \in IoRunning, NEW answer \in Answer, IoDone(c, answer), Fixed
  PROVE  /\ c \in Tasks /\ c \in Pending /\ c \in Nat /\ c \in Calls
         /\ \A x \in Tasks : c <= x
         /\ Tasks' = Tasks \ {c} /\ io' \in Seq(Nat) /\ Increasing(io)'
         /\ result[c] = << >> /\ result'[c] = <<answer>>
         /\ result' \in [Calls -> Seq(Answer)]
         /\ \A x \in Calls : x # c => result'[x] = result[x]
<1>t. io \in Seq(Nat) /\ Increasing(io) /\ result \in [Calls -> Seq(Answer)]
  BY DEF IInv, Types, TaskQueues
<1>1. io # << >> /\ c = io[1]
  BY DEF IoRunning
<1>2. c = Head(io) /\ Len(io) \in Nat \ {0} /\ DOMAIN io = 1..Len(io) /\ 1 \in DOMAIN io
  BY <1>1, <1>t
<1>3. \A k \in DOMAIN io : io[k] = c => k = 1
  <2> SUFFICES ASSUME NEW k \in DOMAIN io, k # 1 PROVE io[k] # c
    OBVIOUS
  <2>1. 1 < k /\ io[k] \in Nat /\ io[1] \in Nat
    BY <1>2, <1>t
  <2>2. io[1] < io[k]
    BY <2>1, <1>2, <1>t DEF Increasing
  <2> QED
    BY <2>1, <2>2, <1>1
<1>4. io' = SubSeq(io, 1, 0) \o SubSeq(io, 2, Len(io))
  <2>1. PICK k : k = CHOOSE j \in DOMAIN io : io[j] = c
    OBVIOUS
  <2>2. k \in DOMAIN io /\ io[k] = c
    BY <2>1, <1>1, <1>2
  <2>3. k = 1
    BY <2>2, <1>3
  <2>4. io' = SubSeq(io, 1, k - 1) \o SubSeq(io, k + 1, Len(io))
    BY <2>1 DEF IoDone, IoWithout
  <2>5. k - 1 = 0 /\ k + 1 = 2
    BY <2>3
  <2> QED
    BY <2>4, <2>5
<1>5. io' = Tail(io)
  BY <1>2, <1>4, <1>t
<1>6. /\ Tail(io) \in Seq(Nat) /\ Increasing(Tail(io)) /\ Head(io) \in Members(io)
      /\ (\A x \in Members(io) : Head(io) <= x)
      /\ Members(Tail(io)) = Members(io) \ {Head(io)}
  BY <1>1, <1>t, TailIncreasing
<1>7. c \in Tasks /\ Tasks' = Tasks \ {c} /\ \A x \in Tasks : c <= x
  BY <1>2, <1>5, <1>6 DEF Tasks
<1>8. c \in Pending /\ c \in Nat /\ c \in Calls /\ result[c] = << >>
  <2>1. c \in Pending /\ c \in 1..Len(calls) /\ Len(calls) <= MaxCalls /\ result[c] = << >>
    BY <1>7 DEF IInv, TaskQueues
  <2>2. Len(calls) \in Nat
    BY DEF IInv, Types
  <2> QED
    BY <2>1, <2>2, ExecutorAssumption DEF Calls
<1>9. result' = [result EXCEPT ![c] = <<answer>>]
  BY <1>8 DEF IoDone
<1>10. <<answer>> \in Seq(Answer)
  OBVIOUS
<1>11. /\ result'[c] = <<answer>> /\ result' \in [Calls -> Seq(Answer)]
       /\ \A x \in Calls : x # c => result'[x] = result[x]
  BY <1>8, <1>9, <1>10, <1>t
<1> QED
  BY <1>5, <1>6, <1>7, <1>8, <1>11

\* What the end of a task leaves alone.
LEMMA TaskEnds ==
  ASSUME IInv, NEW c \in IoRunning, NEW answer \in Answer, IoDone(c, answer), Fixed,
         response' \in [Workers -> Seq(Answer)]
  PROVE  /\ Types' /\ TaskQueues' /\ Flags' /\ Collecting'
         /\ main' = main /\ main.pc # "collect" /\ Pending' = Pending
         /\ \A x \in Calls : x # c => (Bad(x)' <=> Bad(x))
         /\ Bad(c)' <=> ~answer.ok
         /\ ~Bad(c)
         /\ \A x \in Pending : x \in Calls
         /\ \A x : Lost(x) => Lost(x)'
<1>o. /\ c \in Tasks /\ c \in Pending /\ c \in Nat /\ c \in Calls
      /\ Tasks' = Tasks \ {c} /\ io' \in Seq(Nat) /\ Increasing(io)'
      /\ result[c] = << >> /\ result'[c] = <<answer>>
      /\ result' \in [Calls -> Seq(Answer)]
      /\ \A x \in Calls : x # c => result'[x] = result[x]
  BY OldestTask
<1>s. UNCHANGED <<max_concurrent_batches, calls, main, futures, rpc, failVars>>
  BY DEF IoDone, Fixed
<1>1. Types'
  BY <1>o, <1>s DEF IInv, Types, failVars
<1>2. main.pc # "collect"
  BY <1>o DEF IInv, Collecting, Pending, Members
<1>3. Collecting'
  BY <1>2, <1>s DEF Collecting
<1>4. Flags'
  BY <1>s DEF IInv, Flags, Closed, failVars
<1>5. Pending' = Pending
  BY <1>s DEF Pending
<1>6. \A x \in Calls : x # c => (Bad(x)' <=> Bad(x))
  BY <1>o DEF Bad
<1>7. (Bad(c)' <=> ~answer.ok) /\ ~Bad(c)
  <2>1. <<answer>> # << >> /\ <<answer>>[1] = answer
    OBVIOUS
  <2> QED
    BY <2>1, <1>o DEF Bad
<1>q. /\ Increasing(futures) /\ Tasks \subseteq Pending /\ Pending \subseteq 1..Len(calls)
      /\ Len(calls) <= MaxCalls
      /\ (\A x \in Tasks : result[x] = << >>)
      /\ (\A x \in Calls : x > Len(calls) => result[x] = << >>)
      /\ max_concurrent_batches = 1 => futures = << >>
      /\ main.pc = "wait" => futures # << >>
  BY DEF IInv, TaskQueues
<1>n. Len(calls) \in Nat
  BY DEF IInv, Types
<1>8. \A x \in Pending : x \in Calls
  <2>1. 1..Len(calls) \subseteq Calls
    BY <1>q, <1>n, ExecutorAssumption DEF Calls
  <2> QED
    BY <2>1, <1>q
<1>9. TaskQueues'
  <2>1. ~(c > Len(calls))
    <3>1. c \in 1..Len(calls)
      BY <1>o, <1>q
    <3> QED
      BY <3>1, <1>n
  <2>2. \A x \in Tasks' : result'[x] = << >>
    BY <1>o, <1>q, <1>8
  <2>3. \A x \in Calls : x > Len(calls) => result'[x] = << >>
    BY <2>1, <1>o, <1>q
  <2> QED
    BY <2>2, <2>3, <1>o, <1>q, <1>s, <1>5 DEF TaskQueues
<1>10. \A x : Lost(x) => Lost(x)'
  <2>1. \A d \in Pending : Bad(d) => Bad(d)'
    BY <1>6, <1>7, <1>8
  <2> QED
    BY <2>1, <1>5, <1>s DEF Lost
<1> QED
  BY <1>1, <1>2, <1>3, <1>4, <1>5, <1>6, <1>7, <1>8, <1>9, <1>10, <1>s

\* A future gives up: what comes after it is out of step.
LEMMA TaskGivesUp ==
  ASSUME IInv, NEW c \in IoRunning, IoDone(c, Cancelled), UNCHANGED response, Fixed
  PROVE  IInv'
<1>c. Cancelled \in Answer /\ ~Cancelled.ok /\ Cancelled.call = 0
  BY DEF Cancelled, Answer
<1>o. /\ c \in Tasks /\ c \in Pending /\ c \in Nat /\ c \in Calls
      /\ (\A x \in Tasks : c <= x)
      /\ Tasks' = Tasks \ {c} /\ result'[c] = <<Cancelled>>
      /\ result' \in [Calls -> Seq(Answer)]
      /\ \A x \in Calls : x # c => result'[x] = result[x]
  BY <1>c, OldestTask
<1>r. response' \in [Workers -> Seq(Answer)]
  BY DEF IInv, Types
<1>e. /\ Types' /\ TaskQueues' /\ Flags' /\ Collecting'
      /\ main' = main /\ main.pc # "collect" /\ Pending' = Pending
      /\ (\A x \in Calls : x # c => (Bad(x)' <=> Bad(x)))
      /\ (Bad(c)' <=> ~Cancelled.ok) /\ ~Bad(c)
      /\ (\A x \in Pending : x \in Calls)
      /\ \A x : Lost(x) => Lost(x)'
  BY <1>c, <1>r, TaskEnds
<1>s. UNCHANGED <<calls, rpc, response, is_failed>>
  BY DEF IoDone, failVars
<1>1. Channels'
  BY <1>s DEF IInv, Channels
<1>l. \A x \in Tasks' : c < x
  <2>1. \A x \in Tasks : x \in Nat
    BY <1>e DEF IInv, TaskQueues, Calls
  <2> QED
    BY <2>1, <1>o
<1>2. TasksInStep'
  BY <1>l, <1>o, <1>e, <1>c DEF TasksInStep, Lost
<1>3. OpenInStep'
  <2> SUFFICES ASSUME ~Closed'
               PROVE  \A d \in Pending : Bad(d)' => \A x \in Tasks' : d < x
    BY <1>o, <1>e, <1>c DEF OpenInStep
  <2>1. ~Closed
    BY <1>e, <1>s DEF Closed
  <2>2. \A d \in Pending : Bad(d) => \A x \in Tasks : d < x
    BY <2>1 DEF IInv, OpenInStep
  <2> QED
    BY <2>2, <1>l, <1>e, <1>o
<1>4. ResultsMatch'
  <2> SUFFICES ASSUME NEW x \in Calls, NEW i \in DOMAIN result'[x]
               PROVE  result'[x][i].call \in {0, x} \/ (x \in Pending /\ Lost(x)')
    BY <1>e DEF ResultsMatch
  <2>1. CASE x = c
    <3>1. DOMAIN <<Cancelled>> = {1} /\ <<Cancelled>>[1] = Cancelled
      OBVIOUS
    <3> QED
      BY <3>1, <2>1, <1>o, <1>c
  <2>2. CASE x # c
    <3>1. result'[x] = result[x]
      BY <2>2, <1>o
    <3>2. result[x][i].call \in {0, x} \/ (x \in Pending /\ Lost(x))
      BY <3>1 DEF IInv, ResultsMatch
    <3> QED
      BY <3>1, <3>2, <1>e
  <2> QED
    BY <2>1, <2>2
<1> QED
  BY <1>1, <1>2, <1>3, <1>4, <1>e DEF IInv

\* A task reads an answer: its own, unless it is out of step.
LEMMA IoReadsStep ==
  ASSUME IInv, NEW c, IoReads(c), Fixed
  PROVE  IInv'
<1>p. OutputRank \in Workers
  BY ExecutorAssumption
<1>t. /\ calls \in Seq(SUBSET Workers) /\ rpc \in [Workers -> Seq(Nat)]
      /\ response \in [Workers -> Seq(Answer)] /\ Channels
  BY DEF IInv, Types
<1>rs. PICK rs : rs = response[OutputRank]
  OBVIOUS
<1>h. PICK h : h = Head(rs)
  OBVIOUS
<1>s. /\ c \in IoRunning /\ rs # << >> /\ IoDone(c, h)
      /\ response' = [response EXCEPT ![OutputRank] = Tail(rs)]
      /\ UNCHANGED <<calls, rpc, is_failed>>
  BY <1>rs, <1>h DEF IoReads, IoDone, failVars
<1>v. PICK v : v = Uncollected(OutputRank)
  OBVIOUS
<1>a. /\ h \in Answer /\ Tail(rs) \in Seq(Answer)
      /\ h.call \in v /\ (\A x \in v : h.call <= x)
      /\ ChannelInOrder(calls, rpc[OutputRank], Tail(rs))
      /\ Owed(calls, rpc[OutputRank], Tail(rs), OutputRank) = v \ {h.call}
  <2>1. rpc[OutputRank] \in Seq(Nat) /\ rs \in Seq(Answer) /\ ChannelInOrder(calls, rpc[OutputRank], rs)
    BY <1>t, <1>p, <1>rs DEF Channels
  <2>2. v = Owed(calls, rpc[OutputRank], rs, OutputRank)
    BY <1>v, <1>rs DEF Uncollected
  <2> QED
    BY <2>1, <2>2, <1>t, <1>p, <1>s, <1>h, AnswerRead
<1>r. /\ response' \in [Workers -> Seq(Answer)] /\ response'[OutputRank] = Tail(rs)
      /\ \A w \in Workers : w # OutputRank => response'[w] = response[w]
  BY <1>a, <1>s, <1>t, <1>p
<1>u. /\ Uncollected(OutputRank)' = v \ {h.call}
      /\ \A w \in Workers : w # OutputRank => Uncollected(w)' = Uncollected(w)
  BY <1>r, <1>a, <1>s DEF Uncollected
<1>1. Channels'
  BY <1>r, <1>a, <1>s, <1>t DEF Channels
<1>o. /\ c \in Tasks /\ c \in Pending /\ c \in Nat /\ c \in Calls
      /\ (\A x \in Tasks : c <= x)
      /\ Tasks' = Tasks \ {c} /\ result'[c] = <<h>>
      /\ result' \in [Calls -> Seq(Answer)]
      /\ \A x \in Calls : x # c => result'[x] = result[x]
  BY <1>a, <1>s, OldestTask
<1>e. /\ Types' /\ TaskQueues' /\ Flags' /\ Collecting'
      /\ main' = main /\ main.pc # "collect" /\ Pending' = Pending
      /\ (\A x \in Calls : x # c => (Bad(x)' <=> Bad(x)))
      /\ (Bad(c)' <=> ~h.ok) /\ ~Bad(c)
      /\ (\A x \in Pending : x \in Calls)
      /\ \A x : Lost(x) => Lost(x)'
  BY <1>a, <1>s, <1>r, TaskEnds
<1>b. \A d \in Pending : (Bad(d) => Bad(d)') /\ (Bad(d)' => Bad(d) \/ d = c)
  BY <1>e
<1>n. /\ (\A x \in Tasks : x \in Nat) /\ (\A x \in Pending : x \in Nat) /\ h.call \in Nat
      /\ \A x \in v : x \in Nat
  <2>1. \A x \in Pending : x \in Nat
    BY <1>e DEF Calls
  <2>2. \A x \in Tasks : x \in Nat
    BY <2>1 DEF IInv, TaskQueues
  <2>3. h.call \in Nat
    BY <1>a DEF Answer
  <2>4. \A x \in v : x \in Nat
    <3>1. \A i \in 1..Len(response[OutputRank]) : response[OutputRank][i].call \in Nat
      <4>1. \A i \in 1..Len(rs) : rs[i] \in Answer
        BY <1>t, <1>rs, <1>p
      <4> QED
        BY <4>1, <1>rs DEF Answer
    <3> QED
      BY <3>1, <1>v DEF Uncollected, Owed
  <2> QED
    BY <2>1, <2>2, <2>3, <2>4
<1>m. Lost(c) \/ (h.call = c /\ \A x \in v : x < c => x \in Tasks)
  <2>1. Lost(c) \/ (c \in v /\ \A x \in v : x < c => x \in Tasks)
    BY <1>o, <1>v DEF IInv, TasksInStep
  <2>2. ASSUME c \in v, \A x \in v : x < c => x \in Tasks PROVE h.call = c
    <3>1. h.call <= c
      BY <2>2, <1>a
    <3>2. h.call < c => c <= h.call
      BY <2>2, <1>a, <1>o
    <3> QED
      BY <3>1, <3>2, <1>n, <1>o
  <2> QED
    BY <2>1, <2>2
<1>k. \A x \in Tasks : Lost(c) => Lost(x)
  <2>1. \A x \in Tasks : \A d \in Pending : d < c => d < x
    BY <1>n, <1>o
  <2> QED
    BY <2>1 DEF Lost
<1>2. TasksInStep'
  <2> SUFFICES ASSUME NEW y \in Tasks'
               PROVE  \/ Lost(y)'
                      \/ /\ y \in v \ {h.call}
                         /\ \A x \in v \ {h.call} : x < y => x \in Tasks'
    BY <1>u DEF TasksInStep
  <2>1. y \in Tasks /\ y # c
    BY <1>o
  <2>2. CASE Lost(c)
    BY <2>1, <2>2, <1>k, <1>e
  <2>3. CASE h.call = c
    <3>1. Lost(y) \/ (y \in v /\ \A x \in v : x < y => x \in Tasks)
      BY <2>1, <1>v DEF IInv, TasksInStep
    <3> QED
      BY <3>1, <2>1, <2>3, <1>e, <1>o
  <2> QED
    BY <2>2, <2>3, <1>m
<1>3. OpenInStep'
  <2> SUFFICES ASSUME ~Closed'
               PROVE  /\ \A d \in Pending : Bad(d) \/ d = c => \A x \in Tasks' : d < x
                      /\ (\A d \in Pending : ~Bad(d)) =>
                           \A w \in Workers : Uncollected(w)' = IF w = OutputRank THEN Tasks' ELSE {}
    BY <1>b, <1>e DEF OpenInStep
  <2>1. ~Closed
    BY <1>e, <1>s DEF Closed
  <2>2. \A d \in Pending : Bad(d) => \A x \in Tasks : d < x
    BY <2>1 DEF IInv, OpenInStep
  <2>4. \A x \in Tasks' : c < x
    <3>1. \A x \in Tasks' : x \in Tasks /\ x # c
      BY <1>o
    <3> QED
      BY <3>1, <1>o, <1>n
  <2>3. ASSUME \A d \in Pending : ~Bad(d), NEW w \in Workers
        PROVE  Uncollected(w)' = IF w = OutputRank THEN Tasks' ELSE {}
    <3>1. \A x \in Workers : Uncollected(x) = IF x = OutputRank THEN Tasks ELSE {}
      BY <2>1, <2>3, <1>e DEF IInv, OpenInStep
    <3>2. h.call = c
      BY <2>1, <2>3, <1>m DEF Lost, Closed
    <3>3. CASE w = OutputRank
      BY <3>1, <3>2, <3>3, <1>u, <1>o, <1>v, <1>p
    <3>4. CASE w # OutputRank
      BY <3>1, <3>4, <1>u
    <3> QED
      BY <3>3, <3>4
  <2> QED
    BY <2>2, <2>3, <2>4, <1>o
<1>4. ResultsMatch'
  <2> SUFFICES ASSUME NEW x \in Calls, NEW i \in DOMAIN result'[x]
               PROVE  result'[x][i].call \in {0, x} \/ (x \in Pending /\ Lost(x)')
    BY <1>e DEF ResultsMatch
  <2>1. CASE x = c
    <3>1. DOMAIN <<h>> = {1} /\ <<h>>[1] = h
      OBVIOUS
    <3>2. i = 1 /\ result'[x][i] = h
      BY <3>1, <2>1, <1>o
    <3> QED
      BY <3>2, <2>1, <1>o, <1>m, <1>e
  <2>2. CASE x # c
    <3>1. result'[x] = result[x]
      BY <2>2, <1>o
    <3>2. result[x][i].call \in {0, x} \/ (x \in Pending /\ Lost(x))
      BY <3>1 DEF IInv, ResultsMatch
    <3> QED
      BY <3>1, <3>2, <1>e
  <2> QED
    BY <2>1, <2>2
<1> QED
  BY <1>1, <1>2, <1>3, <1>4, <1>e DEF IInv

\* The oldest future ends: nothing is before it, so its answer is its own; if
\* it gave up, the engine ends.
LEMMA FutureResultStep ==
  ASSUME IInv, FutureResult, Fixed
  PROVE  IInv'
<1>h. PICK h : h = Head(futures)
  OBVIOUS
<1>s. /\ main.pc = "wait" /\ result[h] # << >> /\ futures' = Tail(futures)
      /\ main' = IF result[h][1].ok THEN Idle ELSE Dead
      /\ UNCHANGED <<max_concurrent_batches, calls, result, rpc, response, io, failVars>>
  BY <1>h DEF FutureResult, Fixed
<1>t. futures \in Seq(Nat) /\ futures # << >> /\ Increasing(futures)
  BY <1>s DEF IInv, Types, TaskQueues
<1>f. /\ futures' \in Seq(Nat) /\ Increasing(futures)' /\ h \in Pending
      /\ (\A x \in Pending : h <= x)
      /\ Pending' = Pending \ {h}
  BY <1>h, <1>s, <1>t, TailIncreasing DEF Pending
<1>q. /\ Increasing(io) /\ Tasks \subseteq Pending /\ Pending \subseteq 1..Len(calls)
      /\ Len(calls) <= MaxCalls
      /\ (\A x \in Tasks : result[x] = << >>)
      /\ (\A x \in Calls : x > Len(calls) => result[x] = << >>)
      /\ max_concurrent_batches = 1 => futures = << >>
  BY DEF IInv, TaskQueues
<1>n. \A x \in Pending : x \in Nat
  <2>1. Len(calls) \in Nat
    BY DEF IInv, Types
  <2> QED
    BY <2>1, <1>q
<1>k. Tasks' = Tasks /\ h \notin Tasks
  BY <1>s, <1>q DEF Tasks
<1>b. \A x : Bad(x)' <=> Bad(x)
  BY <1>s DEF Bad
<1>m. /\ Bad(h) => main' = Dead
      /\ ~Bad(h) => main' = Idle
  BY <1>s DEF Bad
<1>i. Idle.pc = "idle" /\ Dead.pc = "dead"
  BY RestingStates
<1>u. \A w \in Workers : Uncollected(w)' = Uncollected(w)
  BY <1>s DEF Uncollected
<1>p. OutputRank \in Workers
  BY ExecutorAssumption
<1>l. \A x : Lost(x) => Lost(x)'
  <2>1. CASE Bad(h)
    BY <2>1, <1>m, <1>i DEF Lost
  <2>2. CASE ~Bad(h)
    BY <2>2, <1>s, <1>b, <1>f DEF Lost
  <2> QED
    BY <2>1, <2>2
<1>1. Types'
  <2>1. main' \in MainStates
    BY <1>m, RestingStates
  <2> QED
    BY <2>1, <1>f, <1>s DEF IInv, Types, failVars
<1>2. Channels'
  BY <1>s DEF IInv, Channels
<1>3. TaskQueues'
  <2>1. main'.pc # "wait" /\ max_concurrent_batches' # 1
    BY <1>m, <1>i, <1>q, <1>s, <1>t
  <2> QED
    BY <2>1, <1>f, <1>k, <1>q, <1>s DEF TaskQueues
<1>4. Flags'
  BY <1>s DEF IInv, Flags, Closed, failVars
<1>5. Collecting'
  BY <1>m, <1>i DEF Collecting
<1>6. TasksInStep'
  BY <1>k, <1>l, <1>u, <1>p DEF IInv, TasksInStep
<1>7. OpenInStep'
  <2> SUFFICES ASSUME ~Closed' PROVE OpenInStep'
    BY DEF OpenInStep
  <2>1. ~Bad(h)
    BY <1>m, <1>i DEF Closed
  <2>2. ~Closed
    BY <1>s DEF Closed, failVars
  <2>3. \A d \in Pending : Bad(d) => \A c \in Tasks : d < c
    BY <2>2 DEF IInv, OpenInStep
  <2>4. (\A d \in Pending : ~Bad(d)) =>
          \A w \in Workers : Uncollected(w) = IF w = OutputRank THEN Tasks ELSE {}
    BY <2>2, <1>s DEF IInv, OpenInStep
  <2>5. (\A d \in Pending' : ~Bad(d)') => \A d \in Pending : ~Bad(d)
    BY <2>1, <1>b, <1>f
  <2> QED
    BY <2>3, <2>4, <2>5, <1>b, <1>f, <1>k, <1>u DEF OpenInStep
<1>8. ResultsMatch'
  <2> SUFFICES ASSUME NEW x \in Calls, NEW i \in DOMAIN result[x]
               PROVE  result[x][i].call \in {0, x} \/ (x \in Pending' /\ Lost(x)')
    BY <1>s DEF ResultsMatch
  <2>1. result[x][i].call \in {0, x} \/ (x \in Pending /\ Lost(x))
    BY DEF IInv, ResultsMatch
  <2>2. ~Lost(h)
    <3>1. \A d \in Pending : ~(d < h)
      BY <1>f, <1>n
    <3> QED
      BY <3>1, <1>s DEF Lost
  <2> QED
    BY <2>1, <2>2, <1>f, <1>l
<1> QED
  BY <1>1, <1>2, <1>3, <1>4, <1>5, <1>6, <1>7, <1>8 DEF IInv

\* shutdown cancels the tasks that do not run, after a failure.
LEMMA BeginShutdownStep ==
  ASSUME IInv, BeginShutdown, Fixed
  PROVE  IInv'
<1>s. /\ ShuttingDown
      /\ io' = IF io = << >> THEN io ELSE <<Head(io)>>
      /\ result' = [c \in Calls |-> IF c \in {io[i] : i \in 2..Len(io)} THEN <<Cancelled>> ELSE result[c]]
      /\ UNCHANGED <<max_concurrent_batches, calls, main, futures, rpc, response, is_failed, queues_open,
                     monitor>>
  BY DEF BeginShutdown, Fixed
<1>t. io \in Seq(Nat) /\ Increasing(io) /\ result \in [Calls -> Seq(Answer)]
  BY DEF IInv, Types, TaskQueues
<1>q. /\ Increasing(futures) /\ Tasks \subseteq Pending /\ Pending \subseteq 1..Len(calls)
      /\ Len(calls) <= MaxCalls
      /\ (\A x \in Tasks : result[x] = << >>)
      /\ (\A x \in Calls : x > Len(calls) => result[x] = << >>)
      /\ max_concurrent_batches = 1 => futures = << >>
      /\ main.pc = "wait" => futures # << >>
  BY DEF IInv, TaskQueues
<1>n. Len(calls) \in Nat
  BY DEF IInv, Types
<1>c. Closed
  BY <1>s DEF IInv, Flags, ShuttingDown, Closed
<1>d. Closed'
  BY <1>c, <1>s DEF Closed
<1>w. PICK W : W = {io[i] : i \in 2..Len(io)}
  OBVIOUS
<1>x. W \subseteq Tasks
  <2>1. 2..Len(io) \subseteq DOMAIN io
    BY <1>t
  <2> QED
    BY <2>1, <1>w DEF Tasks, Members
<1>v. Tasks \subseteq Calls
  <2>1. 1..Len(calls) \subseteq Calls
    BY <1>q, <1>n, ExecutorAssumption DEF Calls
  <2> QED
    BY <2>1, <1>q
<1>a. Cancelled \in Answer /\ ~Cancelled.ok /\ Cancelled.call = 0
  BY DEF Cancelled, Answer
<1>r. /\ result' \in [Calls -> Seq(Answer)]
      /\ \A x \in W : result'[x] = <<Cancelled>>
      /\ \A x \in Calls : x \notin W => result'[x] = result[x]
  <2>1. <<Cancelled>> \in Seq(Answer)
    BY <1>a
  <2>2. result' = [c \in Calls |-> IF c \in W THEN <<Cancelled>> ELSE result[c]]
    BY <1>s, <1>w
  <2> QED
    BY <2>1, <2>2, <1>t, <1>x, <1>v
<1>i. /\ io' \in Seq(Nat) /\ Increasing(io)' /\ Tasks' \subseteq Tasks /\ Tasks' \cap W = {}
      /\ \A x \in Tasks', y \in Tasks : x <= y
  <2>1. CASE io = << >>
    <3>1. io' = << >> /\ Tasks' = {}
      BY <2>1, <1>s DEF Tasks, Members
    <3> QED
      BY <3>1 DEF Increasing
  <2>2. CASE io # << >>
    <3>h. PICK h : h = Head(io)
      OBVIOUS
    <3>1. h \in Nat /\ h = io[1] /\ Len(io) \in Nat \ {0} /\ DOMAIN io = 1..Len(io)
      BY <3>h, <2>2, <1>t
    <3>j. PICK j : j = <<h>>
      OBVIOUS
    <3>2. io' = j
      BY <3>h, <3>j, <2>2, <1>s
    <3>3. j \in Seq(Nat) /\ DOMAIN j = {1} /\ j[1] = h
      BY <3>j, <3>1
    <3>4. Increasing(j) /\ Members(j) = {h}
      BY <3>3 DEF Increasing, Members
    <3>5. h \in Members(io) /\ \A y \in Members(io) : h <= y
      BY <3>h, <2>2, <1>t, TailIncreasing
    <3>6. h \notin W
      <4> SUFFICES ASSUME NEW k \in 2..Len(io) PROVE io[k] # h
        BY <1>w
      <4>1. k \in DOMAIN io /\ 1 \in DOMAIN io /\ 1 < k
        BY <3>1
      <4>2. io[1] < io[k] /\ io[k] \in Nat
        BY <4>1, <1>t DEF Increasing
      <4> QED
        BY <4>2, <3>1
    <3> QED
      BY <3>2, <3>3, <3>4, <3>5, <3>6 DEF Tasks
  <2> QED
    BY <2>1, <2>2
<1>p. Pending' = Pending
  BY <1>s DEF Pending
<1>b. \A x \in Pending : Bad(x) => Bad(x)'
  <2> SUFFICES ASSUME NEW x \in Pending, Bad(x) PROVE Bad(x)'
    OBVIOUS
  <2>1. x \notin W
    BY <1>x, <1>q DEF Bad
  <2>2. x \in Calls
    <3>1. 1..Len(calls) \subseteq Calls
      BY <1>q, <1>n, ExecutorAssumption DEF Calls
    <3> QED
      BY <3>1, <1>q
  <2> QED
    BY <2>1, <2>2, <1>r DEF Bad
<1>l. \A x : Lost(x) => Lost(x)'
  BY <1>b, <1>p, <1>s DEF Lost
<1>u. Uncollected(OutputRank)' = Uncollected(OutputRank)
  BY <1>s DEF Uncollected
<1>1. Types'
  BY <1>i, <1>r, <1>s DEF IInv, Types
<1>2. Channels'
  BY <1>s DEF IInv, Channels
<1>3. TaskQueues'
  <2>1. \A x \in Tasks' : result'[x] = << >>
    BY <1>i, <1>r, <1>q, <1>v
  <2>2. \A x \in Calls : x > Len(calls) => result'[x] = << >>
    <3>1. \A x \in W : ~(x > Len(calls))
      BY <1>x, <1>q, <1>n
    <3> QED
      BY <3>1, <1>r, <1>q
  <2> QED
    BY <2>1, <2>2, <1>i, <1>p, <1>q, <1>s DEF TaskQueues
<1>4. Flags'
  BY <1>s, <1>d DEF IInv, Flags
<1>5. Collecting'
  <2>1. \A w \in Workers : Uncollected(w)' = Uncollected(w)
    BY <1>s DEF Uncollected
  <2> QED
    BY <2>1, <1>s DEF IInv, Collecting
<1>6. TasksInStep'
  <2> SUFFICES ASSUME NEW c \in Tasks'
               PROVE  \/ Lost(c)'
                      \/ /\ c \in Uncollected(OutputRank)
                         /\ \A x \in Uncollected(OutputRank) : x < c => x \in Tasks'
    BY <1>u DEF TasksInStep
  <2>1. c \in Tasks
    BY <1>i
  <2>2. \/ Lost(c)
        \/ /\ c \in Uncollected(OutputRank)
           /\ \A x \in Uncollected(OutputRank) : x < c => x \in Tasks
    BY <2>1 DEF IInv, TasksInStep
  <2>3. \A x \in Tasks : ~(x < c)
    <3>1. \A x \in Tasks : x \in Nat
      BY <1>v DEF Calls
    <3> QED
      BY <3>1, <1>i, <2>1
  <2> QED
    BY <2>2, <2>3, <1>l
<1>7. OpenInStep'
  BY <1>d DEF OpenInStep
<1>8. ResultsMatch'
  <2> SUFFICES ASSUME NEW x \in Calls, NEW i \in DOMAIN result'[x]
               PROVE  result'[x][i].call \in {0, x} \/ (x \in Pending /\ Lost(x)')
    BY <1>p DEF ResultsMatch
  <2>1. CASE x \in W
    <3>1. DOMAIN <<Cancelled>> = {1} /\ <<Cancelled>>[1] = Cancelled
      OBVIOUS
    <3> QED
      BY <3>1, <2>1, <1>r, <1>a
  <2>2. CASE x \notin W
    <3>1. result'[x] = result[x]
      BY <2>2, <1>r
    <3>2. result[x][i].call \in {0, x} \/ (x \in Pending /\ Lost(x))
      BY <3>1 DEF IInv, ResultsMatch
    <3> QED
      BY <3>1, <3>2, <1>l
  <2> QED
    BY <2>1, <2>2
<1> QED
  BY <1>1, <1>2, <1>3, <1>4, <1>5, <1>6, <1>7, <1>8 DEF IInv

\* A worker takes a call; what it owes stays the same.
LEMMA WorkerStepKeeps ==
  ASSUME IInv, NEW w \in Workers, WorkerStep(w), Fixed
  PROVE  IInv'
<1>t. /\ calls \in Seq(SUBSET Workers) /\ rpc \in [Workers -> Seq(Nat)]
      /\ response \in [Workers -> Seq(Answer)] /\ Channels
  BY DEF IInv, Types
<1>rp. PICK rp : rp = rpc[w]
  OBVIOUS
<1>rs. PICK rs : rs = response[w]
  OBVIOUS
<1>ok. PICK ok \in BOOLEAN :
         response' = IF w \in calls[Head(rp)]
                     THEN [response EXCEPT ![w] = Append(rs, [call |-> Head(rp), ok |-> ok])]
                     ELSE response
  BY <1>rp, <1>rs DEF WorkerStep
<1>rt. PICK rt : rt = AfterAnswer(calls, rp, rs, w, ok)
  OBVIOUS
<1>s. /\ rp # << >> /\ rpc' = [rpc EXCEPT ![w] = Tail(rp)]
      /\ UNCHANGED <<max_concurrent_batches, engineVars, io, failVars>>
  BY <1>rp DEF WorkerStep, Fixed
<1>a. response' = [response EXCEPT ![w] = rt]
  <2>1. CASE w \in calls[Head(rp)]
    BY <2>1, <1>ok, <1>rt DEF AfterAnswer
  <2>2. CASE w \notin calls[Head(rp)]
    <3>1. rt = response[w] /\ response' = response
      BY <2>2, <1>ok, <1>rt, <1>rs DEF AfterAnswer
    <3> QED
      BY <3>1, <1>t
  <2> QED
    BY <2>1, <2>2
<1>b. /\ Tail(rp) \in Seq(Nat) /\ rt \in Seq(Answer)
      /\ ChannelInOrder(calls, Tail(rp), rt)
      /\ Owed(calls, Tail(rp), rt, w) = Owed(calls, rp, rs, w)
  <2>1. rp \in Seq(Nat) /\ rs \in Seq(Answer) /\ ChannelInOrder(calls, rp, rs)
    BY <1>t, <1>rp, <1>rs DEF Channels
  <2>2. rp # << >>
    BY <1>s
  <2>3. calls \in Seq(SUBSET Workers)
    BY <1>t
  <2> QED
    BY <2>1, <2>2, <2>3, <1>rt, <1>ok, CallAnswered
<1>c. /\ rpc' \in [Workers -> Seq(Nat)] /\ response' \in [Workers -> Seq(Answer)]
      /\ rpc'[w] = Tail(rp) /\ response'[w] = rt
      /\ \A v \in Workers : v # w => rpc'[v] = rpc[v] /\ response'[v] = response[v]
  BY <1>a, <1>b, <1>s, <1>t
<1>e. calls' = calls /\ main' = main /\ futures' = futures /\ result' = result
  BY <1>s DEF engineVars
<1>1. Types'
  BY <1>c, <1>e, <1>s DEF IInv, Types, failVars
<1>2. Channels'
  BY <1>b, <1>c, <1>e, <1>t DEF Channels
<1>3. \A v \in Workers : Uncollected(v)' = Uncollected(v)
  <2> SUFFICES ASSUME NEW v \in Workers PROVE Uncollected(v)' = Uncollected(v)
    OBVIOUS
  <2>1. CASE v = w
    BY <2>1, <1>b, <1>c, <1>e, <1>rp, <1>rs DEF Uncollected
  <2>2. CASE v # w
    BY <2>2, <1>c, <1>e DEF Uncollected
  <2> QED
    BY <2>1, <2>2
<1>4. Flags' /\ (Closed => Closed')
  BY <1>e, <1>s DEF IInv, Flags, Closed, failVars
<1>5. main.pc = "wait" => futures # << >>
  BY DEF IInv, TaskQueues
<1> QED
  BY <1>1, <1>2, <1>3, <1>4, <1>5, <1>e, <1>s, ControlStep

\* The engine stops or goes on without an answer.
LEMMA MainControl ==
  ASSUME IInv, Fixed,
         ExecuteModelRaises \/ BeginRead \/ ReadTimesOut \/ WaitForFuture \/ HandleExecutorFailed
  PROVE  IInv'
<1>s. UNCHANGED <<max_concurrent_batches, calls, futures, result, rpc, response, io, failVars>>
  BY DEF Fixed, ExecuteModelRaises, BeginRead, ReadTimesOut, WaitForFuture, HandleExecutorFailed
<1>t. main \in MainStates
  BY DEF IInv, Types
<1>i. Idle.pc = "idle" /\ Dead.pc = "dead"
  BY RestingStates
<1>m. /\ main.pc # "dead"
      /\ \/ main' = Dead
         \/ main' = Idle /\ main.pc = "collect" /\ is_failed
         \/ main.pc = "idle" /\ futures # << >> /\ main' = [main EXCEPT !.pc = "wait"]
         \/ main.pc = "collect" /\ main' = [main EXCEPT !.reading = TRUE]
  <2>1. CASE ExecuteModelRaises
    BY <2>1 DEF ExecuteModelRaises
  <2>2. CASE BeginRead
    <3>1. ~queues_open => is_failed
      BY <2>2 DEF IInv, Flags, Closed, BeginRead
    <3> QED
      BY <2>2, <3>1 DEF BeginRead, AfterRaise
  <2>3. CASE ReadTimesOut
    BY <2>3 DEF ReadTimesOut, AfterRaise
  <2>4. CASE WaitForFuture
    BY <2>4 DEF WaitForFuture
  <2>5. CASE HandleExecutorFailed
    BY <2>5 DEF HandleExecutorFailed
  <2> QED
    BY <2>1, <2>2, <2>3, <2>4, <2>5
<1>1. /\ main' \in MainStates
      /\ main'.pc = "wait" => futures # << >>
      /\ main'.pc = "collect" =>
           main.pc = "collect" /\ main'.call = main.call /\ main'.left = main.left
      /\ main.pc = "collect" => main'.pc = "collect" \/ main'.pc = "dead" \/ is_failed
  <2>1. CASE main' = Dead
    BY <2>1, RestingStates
  <2>2. CASE main' = Idle /\ main.pc = "collect" /\ is_failed
    BY <2>2, RestingStates
  <2>3. CASE main.pc = "idle" /\ futures # << >> /\ main' = [main EXCEPT !.pc = "wait"]
    BY <2>3, <1>t DEF MainStates
  <2>4. CASE main.pc = "collect" /\ main' = [main EXCEPT !.reading = TRUE]
    BY <2>4, <1>t DEF MainStates
  <2> QED
    BY <2>1, <2>2, <2>3, <2>4, <1>m
<1>2. Types'
  BY <1>1, <1>s DEF IInv, Types, failVars
<1>3. Channels' /\ \A w \in Workers : Uncollected(w)' = Uncollected(w)
  BY <1>s DEF IInv, Channels, Uncollected
<1>4. is_failed' = is_failed /\ queues_open' = queues_open /\ monitor' = monitor
  BY <1>s DEF failVars
<1>5. (Closed => Closed') /\ (main.pc = "collect" => main'.pc = "collect" \/ Closed')
  BY <1>1, <1>4, <1>m DEF Closed
<1>6. Flags'
  BY <1>4, <1>5 DEF IInv, Flags
<1> QED
  BY <1>1, <1>2, <1>3, <1>5, <1>6, <1>m, <1>s, ControlStep

\* Deaths, the monitor and the later steps of shutdown.
LEMMA FailureControl ==
  ASSUME IInv, Fixed,
         \/ MonitorSeesDeath \/ MonitorCalls \/ CloseQueues \/ TerminateWorkers
         \/ \E w \in Workers : WorkerDies(w)
  PROVE  IInv'
<1>s. UNCHANGED <<max_concurrent_batches, engineVars, rpc, response, io>>
  BY DEF Fixed, MonitorSeesDeath, MonitorCalls, CloseQueues, TerminateWorkers, WorkerDies
<1>e. calls' = calls /\ main' = main /\ futures' = futures /\ result' = result
  BY <1>s DEF engineVars
<1>f. /\ is_failed' \in BOOLEAN /\ queues_open' \in BOOLEAN
      /\ is_failed => is_failed'
      /\ ~queues_open' => ~queues_open \/ Closed
      /\ monitor' = "failed" => is_failed'
  <2>0. /\ is_failed \in BOOLEAN /\ queues_open \in BOOLEAN
        /\ monitor = "failed" => is_failed
    BY DEF IInv, Types, Flags
  <2>1. CASE MonitorSeesDeath
    BY <2>0, <2>1 DEF MonitorSeesDeath
  <2>2. CASE MonitorCalls
    BY <2>0, <2>2 DEF MonitorCalls
  <2>3. CASE CloseQueues
    BY <2>0, <2>3 DEF CloseQueues, ShuttingDown, Closed
  <2>4. CASE TerminateWorkers
    BY <2>0, <2>4 DEF TerminateWorkers
  <2>5. CASE \E w \in Workers : WorkerDies(w)
    BY <2>0, <2>5 DEF WorkerDies, failVars
  <2> QED
    BY <2>1, <2>2, <2>3, <2>4, <2>5
<1>1. Types'
  BY <1>e, <1>f, <1>s DEF IInv, Types
<1>2. Channels' /\ \A w \in Workers : Uncollected(w)' = Uncollected(w)
  BY <1>e, <1>s DEF IInv, Channels, Uncollected
<1>3. Closed => Closed'
  BY <1>e, <1>f DEF Closed
<1>4. Flags'
  BY <1>3, <1>f DEF IInv, Flags
<1>5. main.pc = "wait" => futures # << >>
  BY DEF IInv, TaskQueues
<1> QED
  BY <1>1, <1>2, <1>3, <1>4, <1>5, <1>e, <1>s, ControlStep

-----------------------------------------------------------------------------
\* The invariant holds at the start.
LEMMA InitInvariant == Init => IInv
<1> SUFFICES ASSUME Init PROVE IInv
  OBVIOUS
<1>e. PICK e : e = << >>
  OBVIOUS
<1>d. DOMAIN e = {} /\ Len(e) = 0 /\ e \in Seq(Nat) /\ e \in Seq(Answer) /\ e \in Seq(SUBSET Workers)
  BY <1>e
<1>i. /\ calls = e /\ futures = e /\ io = e /\ main = Idle
      /\ rpc = [w \in Workers |-> e] /\ response = [w \in Workers |-> e]
      /\ result = [c \in Calls |-> e]
      /\ is_failed = FALSE /\ queues_open = TRUE /\ monitor = "watch"
      /\ max_concurrent_batches \in Nat \ {0}
  BY <1>e, ExecutorAssumption DEF Init
<1>p. Idle.pc = "idle" /\ Pending = {} /\ Tasks = {}
  BY <1>i, <1>d, RestingStates DEF Pending, Tasks, Members
<1>1. Types
  <2>1. Idle \in MainStates
    BY RestingStates
  <2> QED
    BY <2>1, <1>d, <1>i DEF Types
<1>2. Channels
  BY <1>d, <1>i DEF Channels, ChannelInOrder
<1>3. TaskQueues
  BY <1>d, <1>i, <1>p, ExecutorAssumption DEF TaskQueues, Increasing, Calls
<1>4. Flags /\ Collecting /\ TasksInStep
  BY <1>i, <1>p DEF Flags, Collecting, TasksInStep
<1>5. \A w \in Workers : Uncollected(w) = {}
  BY <1>d, <1>i DEF Uncollected, Owed
<1>6. OpenInStep
  BY <1>5, <1>p DEF OpenInStep
<1>7. ResultsMatch
  BY <1>d, <1>i DEF ResultsMatch
<1> QED
  BY <1>1, <1>2, <1>3, <1>4, <1>6, <1>7 DEF IInv

\* What misread records stays recorded.
LEMMA MisreadStays ==
  ASSUME misread, [Next]_vars
  PROVE  misread'
<1>1. CASE Next
  BY <1>1 DEF Next, MainStep, IoStep, FailStep, WorkStep, ExecuteModel, ExecuteModelRaises,
    Utility, WaitForFuture, BeginRead, ReadResponse, ReadTimesOut, FutureResult,
    HandleExecutorFailed, IoReads, IoCancelled, IoTimesOut, IoDone, MonitorSeesDeath,
    BeginShutdown, CloseQueues, TerminateWorkers, MonitorCalls, WorkerStep, WorkerDies,
    engineVars
<1>2. CASE UNCHANGED vars
  BY <1>2 DEF vars, engineVars
<1> QED
  BY <1>1, <1>2

\* Every step keeps the invariant, or is one that misread records.
LEMMA StepInvariant ==
  ASSUME IInv, [Next]_vars
  PROVE  misread' \/ IInv'
<1>1. CASE Fixed /\ ExecuteModel
  BY <1>1, ExecuteModelStep
<1>2. CASE Fixed /\ Utility
  BY <1>2, UtilityStep
<1>3. CASE Fixed /\ (ExecuteModelRaises \/ BeginRead \/ ReadTimesOut \/ WaitForFuture \/ HandleExecutorFailed)
  BY <1>3, MainControl
<1>4. CASE Fixed /\ ReadResponse
  BY <1>4, ReadResponseStep
<1>5. CASE Fixed /\ FutureResult
  BY <1>5, FutureResultStep
<1>6. CASE Fixed /\ \E c \in Calls : IoReads(c)
  BY <1>6, IoReadsStep
<1>7. CASE Fixed /\ \E c \in Calls : IoCancelled(c) \/ IoTimesOut(c)
  <2>1. PICK c \in IoRunning : IoDone(c, Cancelled) /\ UNCHANGED response
    BY <1>7 DEF IoCancelled, IoTimesOut
  <2> QED
    BY <2>1, <1>7, TaskGivesUp
<1>8. CASE Fixed /\ BeginShutdown
  BY <1>8, BeginShutdownStep
<1>9. CASE Fixed /\ (\/ MonitorSeesDeath \/ MonitorCalls \/ CloseQueues \/ TerminateWorkers
                     \/ \E w \in Workers : WorkerDies(w))
  BY <1>9, FailureControl
<1>10. CASE Fixed /\ \E w \in Workers : WorkerStep(w)
  BY <1>10, WorkerStepKeeps
<1>11. CASE UNCHANGED vars
  <2>s. UNCHANGED <<max_concurrent_batches, calls, main, futures, result, rpc, response, io,
                    is_failed, queues_open, monitor>>
    BY <1>11 DEF vars, engineVars, failVars
  <2>1. Types' /\ Channels' /\ \A w \in Workers : Uncollected(w)' = Uncollected(w)
    BY <2>s DEF IInv, Types, Channels, Uncollected
  <2>2. Flags' /\ (Closed => Closed')
    BY <2>s DEF IInv, Flags, Closed
  <2>3. main.pc = "wait" => futures # << >>
    BY DEF IInv, TaskQueues
  <2> QED
    BY <2>1, <2>2, <2>3, <2>s, ControlStep
<1> QED
  BY <1>1, <1>2, <1>3, <1>4, <1>5, <1>6, <1>7, <1>8, <1>9, <1>10, <1>11
  DEF Next, MainStep, IoStep, FailStep, WorkStep

\* The engine gets the answers of its own calls from collective_rpc and from its
\* futures, whatever raises in a worker, times out, dies or is shut down in between.
\* A wrong answer has only two causes: a utility call made while futures were
\* pending, and one that failed in a worker and left the answers of others behind.
THEOREM EngineGetsItsAnswers == Spec => []AnswersMatchCalls
<1>1. Init => misread \/ IInv
  BY InitInvariant
<1>2. (misread \/ IInv) /\ [Next]_vars => (misread \/ IInv)'
  <2>1. misread /\ [Next]_vars => misread'
    BY MisreadStays
  <2>2. IInv /\ [Next]_vars => misread' \/ IInv'
    BY StepInvariant
  <2> QED
    BY <2>1, <2>2
<1>3. misread \/ IInv => AnswersMatchCalls
  BY DEF IInv, ResultsMatch, AnswersMatchCalls, Pending, Members
<1> QED
  BY <1>1, <1>2, <1>3, PTL DEF Spec
=============================================================================
