--------------------------- MODULE OpcuaBatcherProofs ---------------------------
(***************************************************************************)
(* Proofs about the batcher, for any limits, hold-offs and number of       *)
(* requests: none is lost or sent twice, those of one queue are sent in    *)
(* order, and the urgent ones go first.                                    *)
(***************************************************************************)
EXTENDS OpcuaBatcher, SequenceTheorems, FiniteSetTheorems, TLAPS

\* Requests are taken in the order of their numbers: so many have been.
Taken == Len(asked) - Len(commands)
QueueOf(n) == queues[asked[n].kind][asked[n].priority]

Made == asked \in Seq([kind : Kinds, priority : Priorities]) /\ Len(asked) <= MaxAsked

\* What is on its way to the worker are the last requests made.
Coming == /\ commands \in Seq(Nat) /\ Len(commands) <= Len(asked)
          /\ \A i \in 1 .. Len(commands) : commands[i] = Taken + i

\* A queue holds requests of its kind and priority out of the first made, in the
\* order they were made.
Ordered(q, kind, p, made, first) ==
  /\ \A i \in 1 .. Len(q) : /\ i <= q[i] /\ q[i] <= first
                            /\ made[q[i]].kind = kind /\ made[q[i]].priority = p
  /\ \A i, j \in 1 .. Len(q) : i < j => q[i] < q[j]
InOrder(kind, p) == Ordered(queues[kind][p], kind, p, asked, Taken)
Queued == /\ queues \in [Kinds -> [Priorities -> Seq(Nat)]]
          /\ \A kind \in Kinds, p \in Priorities : InOrder(kind, p)

\* What was sent is older than all that waits in its queue.
SentAhead == \A n \in sent : /\ n \in 1 .. Taken
                             /\ \A i \in 1 .. Len(QueueOf(n)) : n < QueueOf(n)[i]

\* What was taken was sent or waits.
Kept == \A n \in 1 .. Taken :
          n \in sent \/ \E i \in 1 .. Len(QueueOf(n)) : QueueOf(n)[i] = n

BatcherInv == Made /\ Coming /\ Queued /\ SentAhead /\ Kept
--------------------------------------------------------------------------------
\* The bound on the requests is a number.
LEMMA MaxIsNat == MaxAsked \in Nat
BY BatcherAssumption DEF BatcherAssumption

\* The worker starts with nothing asked.
LEMMA BatcherInit == Init => BatcherInv
<1> SUFFICES ASSUME Init PROVE BatcherInv
    OBVIOUS
<1>1. Made /\ Coming /\ Taken = 0
  BY MaxIsNat DEF Init, Made, Coming, Taken
<1>2. Queued
  BY DEF Init, Queued, InOrder, Ordered, Kinds, Priorities
<1> QED BY <1>1, <1>2 DEF Init, BatcherInv, SentAhead, Kept

\* What the invariant says of one request made.
LEMMA OfARequest ==
  ASSUME BatcherInv, NEW n \in 1 .. Len(asked)
  PROVE  asked[n].kind \in Kinds /\ asked[n].priority \in Priorities
<1>1. asked[n] \in [kind : Kinds, priority : Priorities]
  BY ElementOfSeq DEF BatcherInv, Made
<1> QED BY <1>1

\* What the invariant says of one queue.
LEMMA OfAQueue ==
  ASSUME BatcherInv, NEW kind \in Kinds, NEW p \in Priorities
  PROVE  /\ queues[kind][p] \in Seq(Nat) /\ Taken \in Nat
         /\ Ordered(queues[kind][p], kind, p, asked, Taken)
BY DEF BatcherInv, Made, Coming, Taken, Queued, InOrder

\* A queue stays in order while requests are made and taken.
LEMMA OrderedLater ==
  ASSUME NEW q \in Seq(Nat), NEW kind, NEW p, NEW made, NEW first \in Nat,
         Ordered(q, kind, p, made, first),
         NEW more, NEW later \in Nat, first <= later,
         \A m \in 1 .. first : more[m] = made[m]
  PROVE  Ordered(q, kind, p, more, later)
<1>1. ASSUME NEW i \in 1 .. Len(q)
      PROVE  /\ i <= q[i] /\ q[i] <= later
             /\ more[q[i]].kind = kind /\ more[q[i]].priority = p
  <2>1. q[i] \in Nat /\ i <= q[i] /\ q[i] <= first
    BY ElementOfSeq DEF Ordered
  <2>2. more[q[i]] = made[q[i]]
    BY <2>1
  <2> QED BY <2>1, <2>2 DEF Ordered
<1> QED BY <1>1 DEF Ordered

\* The request taken next comes behind the others of its queue.
LEMMA OrderedWithNext ==
  ASSUME NEW q \in Seq(Nat), NEW made, NEW n \in Nat \ {0},
         Ordered(q, made[n].kind, made[n].priority, made, n - 1)
  PROVE  Ordered(Append(q, n), made[n].kind, made[n].priority, made, n)
<1> DEFINE longer == Append(q, n)
           last == Len(q) + 1
<1>1. /\ Len(q) \in Nat /\ Len(longer) = last /\ longer[last] = n
      /\ \A i \in 1 .. Len(q) : longer[i] = q[i]
  BY AppendProperties
<1>2. \A i \in 1 .. Len(q) : q[i] \in Nat /\ i <= q[i] /\ q[i] < n
  BY ElementOfSeq DEF Ordered
<1>3. last <= n
  <2>1. CASE Len(q) = 0
    BY <2>1
  <2>2. CASE Len(q) # 0
    <3>1. Len(q) \in 1 .. Len(q)
      BY <1>1, <2>2
    <3>2. Len(q) <= q[Len(q)] /\ q[Len(q)] < n /\ q[Len(q)] \in Nat
      BY <1>2, <3>1
    <3> QED BY <1>1, <3>2
  <2> QED BY <2>1, <2>2
<1> HIDE DEF longer
<1>4. ASSUME NEW i \in 1 .. last
      PROVE  /\ i <= longer[i] /\ longer[i] <= n
             /\ made[longer[i]].kind = made[n].kind /\ made[longer[i]].priority = made[n].priority
  <2>1. CASE i = last
    BY <1>1, <1>3, <2>1
  <2>2. CASE i # last
    <3>1. i \in 1 .. Len(q) /\ longer[i] = q[i]
      BY <1>1, <2>2
    <3> QED BY <1>2, <3>1 DEF Ordered
  <2> QED BY <2>1, <2>2
<1>5. ASSUME NEW i \in 1 .. last, NEW j \in 1 .. last, i < j PROVE longer[i] < longer[j]
  <2>1. i \in 1 .. Len(q) /\ longer[i] = q[i]
    BY <1>1, <1>5
  <2>2. CASE j = last
    BY <1>1, <1>2, <2>1, <2>2
  <2>3. CASE j # last
    <3>1. j \in 1 .. Len(q) /\ longer[j] = q[j]
      BY <1>1, <2>3
    <3> QED BY <1>5, <2>1, <3>1 DEF Ordered
  <2> QED BY <2>2, <2>3
<1>6. Ordered(longer, made[n].kind, made[n].priority, made, n)
  BY <1>1, <1>4, <1>5 DEF Ordered
<1> QED BY <1>6 DEF longer

\* A request that is made comes behind those on their way.
LEMMA RequestKeeps == ASSUME BatcherInv, Request PROVE BatcherInv'
<1>1. PICK kind \in Kinds, p \in Priorities :
        asked' = Append(asked, [kind |-> kind, priority |-> p])
  BY DEF Request
<1>2. /\ commands' = Append(commands, Len(asked) + 1)
      /\ queues' = queues /\ sent' = sent /\ Len(asked) < MaxAsked
  BY DEF Request
<1>3. /\ Made' /\ Len(asked) \in Nat /\ Len(asked') = Len(asked) + 1
      /\ \A n \in 1 .. Len(asked) : asked'[n] = asked[n]
  <2> DEFINE one == [kind |-> kind, priority |-> p]
             Requests == [kind : Kinds, priority : Priorities]
  <2>1. one \in Requests /\ asked \in Seq(Requests)
    BY DEF BatcherInv, Made
  <2> HIDE DEF one, Requests
  <2>2. /\ Append(asked, one) \in Seq(Requests) /\ Len(Append(asked, one)) = Len(asked) + 1
        /\ \A n \in 1 .. Len(asked) : Append(asked, one)[n] = asked[n]
        /\ Len(asked) \in Nat
    BY <2>1, AppendProperties, LenProperties
  <2>3. Len(asked) + 1 <= MaxAsked
    BY <1>2, <2>2, MaxIsNat
  <2> QED BY <1>1, <2>2, <2>3 DEF Made, one, Requests
<1>4. /\ commands' \in Seq(Nat) /\ Len(commands') = Len(commands) + 1
      /\ Len(commands) \in 0 .. Len(asked) /\ Taken' = Taken
      /\ commands'[Len(commands')] = Len(asked) + 1
      /\ \A i \in 1 .. Len(commands) : commands'[i] = commands[i]
  BY <1>2, <1>3 DEF BatcherInv, Coming, Taken
<1>5. Coming'
  <2>1. ASSUME NEW i \in 1 .. Len(commands') PROVE commands'[i] = Taken + i
    <3>1. CASE i = Len(commands')
      BY <1>4, <3>1 DEF Taken
    <3>2. CASE i # Len(commands')
      <4>1. i \in 1 .. Len(commands) /\ commands'[i] = commands[i]
        BY <1>3, <1>4, <3>2
      <4> QED BY <4>1 DEF BatcherInv, Coming
    <3> QED BY <3>1, <3>2
  <2> QED BY <1>3, <1>4, <2>1 DEF Coming
<1>6. Taken \in 0 .. Len(asked)
  BY <1>3, <1>4 DEF Taken
<1>7. Queued'
  <2>1. ASSUME NEW k \in Kinds, NEW r \in Priorities PROVE InOrder(k, r)'
    <3>1. \A m \in 1 .. Taken : asked'[m] = asked[m]
      BY <1>3, <1>6
    <3>2. Ordered(queues[k][r], k, r, asked', Taken)
      <4>1. /\ queues[k][r] \in Seq(Nat) /\ Taken \in Nat /\ Taken <= Taken
            /\ Ordered(queues[k][r], k, r, asked, Taken)
        BY OfAQueue
      <4> QED BY <3>1, <4>1, OrderedLater
    <3>3. Ordered(queues'[k][r], k, r, asked', Taken')
      BY <1>2, <1>4, <3>2
    <3> QED BY <3>3 DEF InOrder
  <2> QED BY <1>2, <2>1 DEF BatcherInv, Queued
<1>8. SentAhead' /\ Kept'
  <2>1. \A n \in 1 .. Taken : asked'[n] = asked[n]
    BY <1>3, <1>6
  <2>2. \A n \in 1 .. Taken : QueueOf(n)' = QueueOf(n)
    BY <1>2, <2>1 DEF QueueOf
  <2> QED BY <1>2, <1>4, <2>2 DEF BatcherInv, SentAhead, Kept
<1> QED BY <1>3, <1>5, <1>7, <1>8 DEF BatcherInv

\* A request that is taken is the youngest of its queue.
LEMMA TakeKeeps == ASSUME BatcherInv, TakeRequest PROVE BatcherInv'
<1> DEFINE n == Head(commands)
           kind == asked[n].kind
           p == asked[n].priority
<1>1. /\ asked' = asked /\ sent' = sent /\ commands # <<>> /\ commands' = Tail(commands)
      /\ queues' = [queues EXCEPT ![kind][p] = Append(@, n)]
  BY DEF TakeRequest
<1>2. /\ commands' \in Seq(Nat) /\ Len(commands') = Len(commands) - 1
      /\ \A i \in 1 .. Len(commands') : commands'[i] = commands[i + 1]
      /\ Len(commands) \in 1 .. Len(asked) /\ Len(asked) \in Nat
      /\ n = commands[1] /\ commands[1] = Taken + 1
  <2>1. asked \in Seq([kind : Kinds, priority : Priorities]) /\ commands \in Seq(Nat)
    BY DEF BatcherInv, Made, Coming
  <2>2. Len(asked) \in Nat /\ Len(commands) \in Nat /\ Len(commands) <= Len(asked)
    BY <2>1, LenProperties DEF BatcherInv, Coming
  <2>3. Len(commands) # 0
    BY <1>1, <2>1, EmptySeq
  <2>4. /\ commands' \in Seq(Nat) /\ Len(commands') = Len(commands) - 1
        /\ \A i \in 1 .. Len(commands') : commands'[i] = commands[i + 1]
    BY <1>1, <2>1, HeadTailProperties
  <2>5. n = commands[1] /\ commands[1] = Taken + 1
    BY <2>1, <2>2, <2>3 DEF BatcherInv, Coming
  <2> QED BY <2>2, <2>3, <2>4, <2>5
<1>3. /\ n = Taken + 1 /\ n \in 1 .. Len(asked)
      /\ Taken \in Nat /\ Taken' = n
  BY <1>1, <1>2 DEF Taken
<1>4. Made' /\ Coming'
  <2>1. ASSUME NEW i \in 1 .. Len(commands') PROVE commands'[i] = n + i
    BY <1>2, <1>3 DEF BatcherInv, Coming
  <2> QED BY <1>1, <1>2, <1>3, <2>1 DEF BatcherInv, Made, Coming
<1>5. /\ kind \in Kinds /\ p \in Priorities /\ QueueOf(n) = queues[kind][p]
      /\ QueueOf(n) \in Seq(Nat) /\ Ordered(QueueOf(n), kind, p, asked, Taken)
  BY <1>3, OfARequest, OfAQueue DEF QueueOf
<1> DEFINE q == Append(QueueOf(n), n)
<1>6. /\ q \in Seq(Nat) /\ Len(QueueOf(n)) \in Nat /\ Len(q) = Len(QueueOf(n)) + 1
      /\ \A i \in 1 .. Len(QueueOf(n)) : q[i] = QueueOf(n)[i]
      /\ q[Len(q)] = n
  BY <1>3, <1>5
<1>7. /\ queues' \in [Kinds -> [Priorities -> Seq(Nat)]]
      /\ \A k \in Kinds, r \in Priorities :
           queues'[k][r] = IF k = kind /\ r = p THEN q ELSE queues[k][r]
  BY <1>1, <1>5, <1>6 DEF BatcherInv, Queued
<1> HIDE DEF n, q
<1>8. Ordered(q, kind, p, asked, n)
  <2>1. n \in Nat \ {0} /\ Taken = n - 1
    BY <1>3
  <2> QED BY <1>5, <2>1, OrderedWithNext DEF q
<1>9. Queued'
  <2>1. ASSUME NEW k \in Kinds, NEW r \in Priorities PROVE InOrder(k, r)'
    <3>1. CASE k = kind /\ r = p
      BY <1>1, <1>3, <1>7, <1>8, <3>1 DEF InOrder
    <3>2. CASE ~(k = kind /\ r = p)
      <4>1. Ordered(queues[k][r], k, r, asked, n)
        BY <1>3, OfAQueue, OrderedLater
      <4> QED BY <1>1, <1>3, <1>7, <3>2, <4>1 DEF InOrder
    <3> QED BY <3>1, <3>2
  <2> QED BY <1>7, <2>1 DEF Queued
<1>10. \A m \in 1 .. n : QueueOf(m)' = IF asked[m].kind = kind /\ asked[m].priority = p
                                         THEN q ELSE QueueOf(m)
  <2> SUFFICES ASSUME NEW m \in 1 .. n
               PROVE QueueOf(m)' = IF asked[m].kind = kind /\ asked[m].priority = p
                                     THEN q ELSE QueueOf(m)
      OBVIOUS
  <2>1. asked[m].kind \in Kinds /\ asked[m].priority \in Priorities
    BY <1>2, <1>3, OfARequest
  <2> QED BY <1>1, <1>7, <2>1 DEF QueueOf
<1>11. SentAhead'
  <2>1. \A m \in sent : m \in 1 .. Taken /\ m < n
    BY <1>3 DEF BatcherInv, SentAhead
  <2>2. ASSUME NEW m \in sent, NEW i \in 1 .. Len(QueueOf(m)') PROVE m < QueueOf(m)'[i]
    <3>1. CASE asked[m].kind = kind /\ asked[m].priority = p
      <4>1. QueueOf(m) = QueueOf(n) /\ QueueOf(m)' = q
        BY <1>3, <1>10, <2>1, <3>1 DEF QueueOf
      <4>2. CASE i = Len(q)
        BY <1>6, <2>1, <4>1, <4>2
      <4>3. CASE i # Len(q)
        <5>1. i \in 1 .. Len(QueueOf(m)) /\ q[i] = QueueOf(m)[i]
          BY <1>6, <4>1, <4>3
        <5> QED BY <4>1, <5>1 DEF BatcherInv, SentAhead
      <4> QED BY <4>2, <4>3
    <3>2. CASE ~(asked[m].kind = kind /\ asked[m].priority = p)
      BY <1>3, <1>10, <2>1, <3>2 DEF BatcherInv, SentAhead
    <3> QED BY <3>1, <3>2
  <2> QED BY <1>1, <1>3, <2>1, <2>2 DEF SentAhead
<1>12. Kept'
  <2>1. ASSUME NEW m \in 1 .. n, m \notin sent
        PROVE  \E i \in 1 .. Len(QueueOf(m)') : QueueOf(m)'[i] = m
    <3>1. CASE m = n
      BY <1>3, <1>6, <1>10, <3>1
    <3>2. CASE m # n
      <4>1. PICK i \in 1 .. Len(QueueOf(m)) : QueueOf(m)[i] = m
        BY <1>3, <2>1, <3>2 DEF BatcherInv, Kept
      <4>2. CASE asked[m].kind = kind /\ asked[m].priority = p
        <5>1. QueueOf(m) = QueueOf(n) /\ QueueOf(m)' = q
          BY <1>3, <1>10, <4>2 DEF QueueOf
        <5> QED BY <1>6, <4>1, <5>1
      <4>3. CASE ~(asked[m].kind = kind /\ asked[m].priority = p)
        BY <1>10, <4>1, <4>3
      <4> QED BY <4>2, <4>3
    <3> QED BY <3>1, <3>2
  <2> QED BY <1>1, <1>3, <2>1 DEF Kept
<1> QED BY <1>4, <1>9, <1>11, <1>12 DEF BatcherInv

\* What a batch and its rest make of a queue.
LEMMA BatchAndRest ==
  ASSUME NEW q \in Seq(Nat), NEW limit \in Nat \ {0}
  PROVE  \E b \in 0 .. Len(q) :
           /\ b <= limit
           /\ BatchOf(q, limit) \in Seq(Nat) /\ Len(BatchOf(q, limit)) = b
           /\ \A i \in 1 .. b : BatchOf(q, limit)[i] = q[i]
           /\ RestOf(q, limit) \in Seq(Nat) /\ Len(RestOf(q, limit)) = Len(q) - b
           /\ \A i \in 1 .. Len(q) - b : RestOf(q, limit)[i] = q[b + i]
<1> DEFINE b == IF limit < Len(q) THEN limit ELSE Len(q)
<1>1. Len(q) \in Nat /\ b \in 0 .. Len(q) /\ b <= limit
  BY LenProperties
<1>2. \A i \in 1 .. Len(q) : q[i] \in Nat
  BY ElementOfSeq
<1>3. BatchOf(q, limit) = SubSeq(q, 1, b) /\ RestOf(q, limit) = SubSeq(q, 1 + b, Len(q))
  BY DEF BatchOf, RestOf
<1> HIDE DEF b
<1>4. /\ SubSeq(q, 1, b) \in Seq(Nat) /\ Len(SubSeq(q, 1, b)) = b
      /\ \A i \in 1 .. b : SubSeq(q, 1, b)[i] = q[i]
  <2>1. \A i \in 1 .. b : q[i] \in Nat
    BY <1>1, <1>2
  <2>2. /\ SubSeq(q, 1, b) \in Seq(Nat)
        /\ Len(SubSeq(q, 1, b)) = IF 1 <= b THEN b - 1 + 1 ELSE 0
        /\ \A i \in 1 .. b - 1 + 1 : SubSeq(q, 1, b)[i] = q[1 + i - 1]
    BY <1>1, <2>1, SubSeqProperties
  <2> QED BY <1>1, <2>2
<1>5. /\ SubSeq(q, 1 + b, Len(q)) \in Seq(Nat) /\ Len(SubSeq(q, 1 + b, Len(q))) = Len(q) - b
      /\ \A i \in 1 .. Len(q) - b : SubSeq(q, 1 + b, Len(q))[i] = q[b + i]
  <2> DEFINE from == 1 + b
             rest == SubSeq(q, from, Len(q))
  <2>1. from \in Nat /\ \A i \in from .. Len(q) : q[i] \in Nat
    BY <1>1, <1>2
  <2> HIDE DEF from
  <2>2. /\ rest \in Seq(Nat)
        /\ Len(rest) = IF from <= Len(q) THEN Len(q) - from + 1 ELSE 0
        /\ \A i \in 1 .. Len(q) - from + 1 : rest[i] = q[from + i - 1]
    BY <1>1, <2>1, SubSeqProperties
  <2> HIDE DEF rest
  <2>3. /\ rest \in Seq(Nat) /\ Len(rest) = Len(q) - b
        /\ \A i \in 1 .. Len(q) - b : rest[i] = q[b + i]
    BY <1>1, <2>2 DEF from
  <2> QED BY <2>3 DEF rest, from
<1> QED BY <1>1, <1>3, <1>4, <1>5

\* What is left of a queue in order is in order.
LEMMA OrderedRest ==
  ASSUME NEW q \in Seq(Nat), NEW kind, NEW p, NEW made, NEW first,
         Ordered(q, kind, p, made, first), NEW b \in 0 .. Len(q), NEW rest,
         Len(rest) = Len(q) - b, \A i \in 1 .. Len(q) - b : rest[i] = q[b + i]
  PROVE  Ordered(rest, kind, p, made, first)
<1>1. Len(q) \in Nat
  BY LenProperties
<1>2. ASSUME NEW i \in 1 .. Len(rest)
      PROVE  /\ b + i \in 1 .. Len(q) /\ rest[i] = q[b + i] /\ i <= rest[i]
  <2>1. i \in 1 .. Len(q) - b
    OBVIOUS
  <2>2. b + i \in 1 .. Len(q) /\ rest[i] = q[b + i]
    BY <1>1, <2>1
  <2>3. b + i <= q[b + i] /\ q[b + i] \in Nat
    BY <2>2, ElementOfSeq DEF Ordered
  <2> QED BY <2>2, <2>3
<1>3. ASSUME NEW i \in 1 .. Len(rest), NEW j \in 1 .. Len(rest), i < j PROVE rest[i] < rest[j]
  <2>1. b + i < b + j
    BY <1>1, <1>3
  <2>2. /\ b + i \in 1 .. Len(q) /\ b + j \in 1 .. Len(q)
        /\ rest[i] = q[b + i] /\ rest[j] = q[b + j]
    BY <1>2
  <2> QED BY <2>1, <2>2 DEF Ordered
<1>4. ASSUME NEW i \in 1 .. Len(rest)
      PROVE  rest[i] <= first /\ made[rest[i]].kind = kind /\ made[rest[i]].priority = p
  BY <1>2 DEF Ordered
<1> QED BY <1>2, <1>3, <1>4 DEF Ordered

\* A request is sent out of the front of the most urgent queue of its kind.
LEMMA WhatFlushTakes ==
  ASSUME BatcherInv, Flush
  PROVE  /\ FlushKind \in Kinds /\ Urgent \in Priorities
         /\ \A r \in Waiting(queues, FlushKind) : r <= Urgent
<1>1. FlushKind \in Kinds
  BY DEF FlushKind, Kinds
<1>2. Waiting(queues, FlushKind) # {}
  BY DEF Flush, FlushDue, HasPending, FlushKind, Kinds
<1>3. \E p \in Waiting(queues, FlushKind) : \A r \in Waiting(queues, FlushKind) : r <= p
  <2> DEFINE W == Waiting(queues, FlushKind)
  <2>1. W \subseteq {0, 1, 2}
    BY DEF Waiting, Priorities
  <2>2. 2 \in W \/ (1 \in W /\ 2 \notin W) \/ W = {0}
    BY <1>2, <2>1
  <2> HIDE DEF W
  <2>3. \E p \in W : \A r \in W : r <= p
    BY <2>1, <2>2
  <2> QED BY <2>3 DEF W
<1> QED BY <1>1, <1>3 DEF Urgent, Waiting

\* A batch takes at least one request.
LEMMA LimitIsPositive == ASSUME NEW kind PROVE Limit(kind) \in Nat \ {0}
<1>1. BatchSize(ServerReadNodes, SessionReadNodes) \in Nat
  BY BatcherAssumption DEF BatchSize, NodeLimit, BatcherAssumption
<1>2. BatchSize(ServerWriteNodes, SessionWriteNodes) \in Nat
  BY BatcherAssumption DEF BatchSize, NodeLimit, BatcherAssumption
<1>3. BatchSize(ServerReadNodes, SessionReadNodes) \div 2 \in Nat
  BY <1>1
<1>4. NodesPerItem["read"] = 2
  BY DEF NodesPerItem, Kinds
<1> QED BY <1>2, <1>3, <1>4 DEF Limit, ReadLimit, WriteLimit, AtLeastOne

\* A batch that is sent leaves what is younger in its queue.
LEMMA FlushKeeps ==
  ASSUME BatcherInv, Flush
  PROVE  /\ BatcherInv'
         /\ \A n \in sent' \ sent :
              /\ n \in 1 .. Len(asked) /\ asked' = asked
              /\ asked[n].kind = FlushKind /\ asked[n].priority = Urgent
              /\ Waiting(queues', FlushKind) \subseteq Waiting(queues, FlushKind)
<1> DEFINE kind == FlushKind
           p == Urgent
           q == queues[kind][p]
           batch == BatchOf(q, Limit(kind))
           rest == RestOf(q, Limit(kind))
<1>1. /\ asked' = asked /\ commands' = commands /\ Taken' = Taken
      /\ queues' = [queues EXCEPT ![kind][p] = rest]
      /\ sent' = sent \cup ToSet(batch)
  BY DEF Flush, Taken
<1>2. kind \in Kinds /\ p \in Priorities
  BY WhatFlushTakes
<1>3. /\ q \in Seq(Nat) /\ Taken \in Nat /\ Taken <= Len(asked) /\ Len(asked) \in Nat
      /\ Ordered(q, kind, p, asked, Taken)
  BY <1>2, OfAQueue DEF BatcherInv, Made, Coming, Taken
<1>4. Limit(kind) \in Nat \ {0}
  BY LimitIsPositive
<1>5. PICK b \in 0 .. Len(q) :
        /\ batch \in Seq(Nat) /\ Len(batch) = b
        /\ \A i \in 1 .. b : batch[i] = q[i]
        /\ rest \in Seq(Nat) /\ Len(rest) = Len(q) - b
        /\ \A i \in 1 .. Len(q) - b : rest[i] = q[b + i]
  BY <1>3, <1>4, BatchAndRest
<1>6. ToSet(batch) = {q[i] : i \in 1 .. b}
  <2> HIDE DEF batch, q, rest
  <2>1. batch \in Seq(Nat) /\ Len(batch) = b /\ \A i \in 1 .. b : batch[i] = q[i]
    BY <1>5
  <2>2. DOMAIN batch = 1 .. b
    BY <2>1, LenProperties
  <2> QED BY <2>1, <2>2 DEF ToSet
<1>7. /\ queues' \in [Kinds -> [Priorities -> Seq(Nat)]]
      /\ \A k \in Kinds, r \in Priorities :
           queues'[k][r] = IF k = kind /\ r = p THEN rest ELSE queues[k][r]
  BY <1>1, <1>2, <1>5 DEF BatcherInv, Queued
<1> HIDE DEF kind, p, q, batch, rest
<1>8. Len(q) \in Nat /\ \A i \in 1 .. Len(q) :
        /\ q[i] \in 1 .. Taken /\ asked[q[i]].kind = kind /\ asked[q[i]].priority = p
        /\ QueueOf(q[i]) = q
  <2>1. ASSUME NEW i \in 1 .. Len(q)
        PROVE  q[i] \in 1 .. Taken /\ asked[q[i]].kind = kind /\ asked[q[i]].priority = p
    BY <1>3, ElementOfSeq DEF Ordered
  <2> QED BY <1>3, <2>1, LenProperties DEF QueueOf, q
<1>9. 1 .. b \subseteq 1 .. Len(q)
  BY <1>8
<1>10. Made' /\ Coming'
  BY <1>1 DEF BatcherInv, Made, Coming
<1>11. Queued'
  <2>1. Ordered(rest, kind, p, asked, Taken)
    BY <1>3, <1>5, OrderedRest
  <2>2. ASSUME NEW k \in Kinds, NEW r \in Priorities PROVE InOrder(k, r)'
    <3>1. Ordered(queues'[k][r], k, r, asked, Taken)
      <4>1. CASE k = kind /\ r = p
        BY <1>7, <2>1, <4>1
      <4>2. CASE ~(k = kind /\ r = p)
        BY <1>7, <4>2, OfAQueue
      <4> QED BY <4>1, <4>2
    <3> QED BY <1>1, <3>1 DEF InOrder
  <2> QED BY <1>7, <2>2 DEF Queued
<1>12. \A m \in 1 .. Taken : /\ QueueOf(m)' = IF asked[m].kind = kind /\ asked[m].priority = p
                                                  THEN rest ELSE QueueOf(m)
                             /\ asked[m].kind = kind /\ asked[m].priority = p => QueueOf(m) = q
  <2> SUFFICES ASSUME NEW m \in 1 .. Taken
               PROVE /\ QueueOf(m)' = IF asked[m].kind = kind /\ asked[m].priority = p
                                         THEN rest ELSE QueueOf(m)
                     /\ asked[m].kind = kind /\ asked[m].priority = p => QueueOf(m) = q
      OBVIOUS
  <2>1. asked[m].kind \in Kinds /\ asked[m].priority \in Priorities
    BY <1>3, OfARequest
  <2> QED BY <1>1, <1>7, <2>1 DEF QueueOf, q
<1>13. SentAhead'
  <2>1. ASSUME NEW n \in sent, NEW i \in 1 .. Len(QueueOf(n)') PROVE n < QueueOf(n)'[i]
    <3>1. n \in 1 .. Taken /\ \A j \in 1 .. Len(QueueOf(n)) : n < QueueOf(n)[j]
      BY DEF BatcherInv, SentAhead
    <3>2. CASE asked[n].kind = kind /\ asked[n].priority = p
      <4>1. QueueOf(n)' = rest /\ QueueOf(n) = q
        BY <1>12, <3>1, <3>2
      <4>2. b + i \in 1 .. Len(q) /\ rest[i] = q[b + i]
        BY <1>5, <1>8, <4>1
      <4> QED BY <3>1, <4>1, <4>2
    <3>3. CASE ~(asked[n].kind = kind /\ asked[n].priority = p)
      BY <1>12, <3>1, <3>3
    <3> QED BY <3>2, <3>3
  <2>2. ASSUME NEW j \in 1 .. b, NEW n, n = q[j], NEW i \in 1 .. Len(QueueOf(n)')
        PROVE  n < QueueOf(n)'[i]
    <3>1. j \in 1 .. Len(q) /\ n \in 1 .. Taken
      BY <1>8, <1>9, <2>2
    <3>2. QueueOf(n)' = rest
      BY <1>8, <1>12, <2>2, <3>1
    <3>3. b + i \in 1 .. Len(q) /\ rest[i] = q[b + i] /\ j < b + i
      BY <1>5, <1>8, <3>2
    <3> QED BY <1>3, <2>2, <3>1, <3>2, <3>3 DEF Ordered
  <2>3. \A n \in sent' : n \in 1 .. Taken
    BY <1>1, <1>6, <1>8, <1>9 DEF BatcherInv, SentAhead
  <2> QED BY <1>1, <1>6, <2>1, <2>2, <2>3 DEF SentAhead
<1>14. Kept'
  <2>1. ASSUME NEW m \in 1 .. Taken, m \notin sent'
        PROVE  \E i \in 1 .. Len(QueueOf(m)') : QueueOf(m)'[i] = m
    <3>1. PICK j \in 1 .. Len(QueueOf(m)) : QueueOf(m)[j] = m
      BY <1>1, <2>1 DEF BatcherInv, Kept
    <3>2. CASE asked[m].kind = kind /\ asked[m].priority = p
      <4>1. QueueOf(m)' = rest /\ QueueOf(m) = q
        BY <1>12, <3>2
      <4>2. j \notin 1 .. b
        BY <1>1, <1>6, <2>1, <3>1, <4>1
      <4>3. j - b \in 1 .. Len(q) - b /\ j = b + (j - b)
        BY <1>8, <3>1, <4>1, <4>2
      <4>4. rest[j - b] = m
        BY <1>5, <3>1, <4>1, <4>3
      <4> QED BY <1>5, <4>1, <4>3, <4>4
    <3>3. CASE ~(asked[m].kind = kind /\ asked[m].priority = p)
      BY <1>12, <3>1, <3>3
    <3> QED BY <3>2, <3>3
  <2> QED BY <1>1, <2>1 DEF Kept
<1>15. Waiting(queues', kind) \subseteq Waiting(queues, kind)
  <2>1. rest # <<>> => q # <<>>
    BY <1>3, <1>5, <1>8, EmptySeq
  <2> QED BY <1>2, <1>7, <2>1 DEF Waiting, q
<1>16. \A n \in sent' \ sent : /\ n \in 1 .. Len(asked)
                              /\ asked[n].kind = kind /\ asked[n].priority = p
  BY <1>1, <1>3, <1>6, <1>8, <1>9
<1> QED BY <1>1, <1>10, <1>11, <1>13, <1>14, <1>15, <1>16 DEF BatcherInv, kind, p

--------------------------------------------------------------------------------
\* Every step keeps the invariant.
LEMMA BatcherStep == BatcherInv /\ [Next]_bvars => BatcherInv'
<1> SUFFICES ASSUME BatcherInv, [Next]_bvars PROVE BatcherInv'
    OBVIOUS
<1>1. CASE CheckBegins \/ CheckEnds \/ Answered \/ Tick \/ UNCHANGED bvars
  <2>1. UNCHANGED <<asked, commands, queues, sent>>
    BY <1>1 DEF CheckBegins, CheckEnds, Answered, Tick, bvars
  <2> QED BY <2>1 DEF BatcherInv, Made, Coming, Queued, InOrder, SentAhead, Kept, Taken, QueueOf
<1> QED BY <1>1, RequestKeeps, TakeKeeps, FlushKeeps DEF Next, Batching

\* The invariant holds of every behaviour.
LEMMA BatcherSafe == Spec => []BatcherInv
BY BatcherInit, BatcherStep, PTL DEF Spec

\* No request is lost or queued twice (`take_batch` splits a queue, nothing else
\* takes from it), for any limits and number of requests.
THEOREM NoRequestLost == Spec => []NoneLost
<1>1. ASSUME BatcherInv, NEW n \in DOMAIN asked
      PROVE  Cardinality(Places(n)) + Cardinality({k \in DOMAIN commands : commands[k] = n})
               = IF n \in sent THEN 0 ELSE 1
  <2> DEFINE coming == {k \in DOMAIN commands : commands[k] = n}
             kind == asked[n].kind
             p == asked[n].priority
  <2>1. /\ DOMAIN asked = 1 .. Len(asked) /\ DOMAIN commands = 1 .. Len(commands)
        /\ Len(asked) \in Nat /\ Len(asked) <= MaxAsked /\ Len(commands) \in Nat
        /\ Taken \in Nat /\ Taken = Len(asked) - Len(commands)
        /\ \A k \in DOMAIN commands : commands[k] = Taken + k
    <3>1. asked \in Seq([kind : Kinds, priority : Priorities]) /\ commands \in Seq(Nat)
      BY <1>1 DEF BatcherInv, Made, Coming
    <3>2. /\ DOMAIN asked = 1 .. Len(asked) /\ Len(asked) \in Nat
          /\ DOMAIN commands = 1 .. Len(commands) /\ Len(commands) \in Nat
      BY <3>1, LenProperties
    <3> QED BY <1>1, <3>2 DEF BatcherInv, Made, Coming, Taken
  <2>2. kind \in Kinds /\ p \in Priorities
    BY <1>1, <2>1, OfARequest
  <2>3. \A at \in Places(n) : /\ n \in 1 .. Taken /\ at = <<kind, p, at[3]>>
                              /\ at[3] \in 1 .. Len(QueueOf(n)) /\ QueueOf(n)[at[3]] = n
    <3> SUFFICES ASSUME NEW at \in Places(n)
                 PROVE  /\ n \in 1 .. Taken /\ at = <<kind, p, at[3]>>
                        /\ at[3] \in 1 .. Len(QueueOf(n)) /\ QueueOf(n)[at[3]] = n
        OBVIOUS
    <3>1. /\ at[1] \in Kinds /\ at[2] \in Priorities /\ at = <<at[1], at[2], at[3]>>
          /\ at[3] \in DOMAIN queues[at[1]][at[2]] /\ queues[at[1]][at[2]][at[3]] = n
      BY DEF Places
    <3>2. /\ queues[at[1]][at[2]] \in Seq(Nat)
          /\ Ordered(queues[at[1]][at[2]], at[1], at[2], asked, Taken)
      BY <1>1, <3>1, OfAQueue
    <3> DEFINE q == queues[at[1]][at[2]]
    <3>3. DOMAIN q = 1 .. Len(q)
      BY <3>2, LenProperties
    <3>4. /\ at[3] \in 1 .. Len(q) /\ q[at[3]] = n
      BY <3>1, <3>3
    <3>5. at[1] = kind /\ at[2] = p /\ n <= Taken
      BY <3>2, <3>4 DEF Ordered
    <3>6. n \in 1 .. Taken /\ q = QueueOf(n)
      BY <1>1, <2>1, <3>5 DEF QueueOf
    <3> QED BY <3>1, <3>4, <3>5, <3>6
  <2>4. Cardinality({}) = 0 /\ \A x : Cardinality({x}) = 1
    BY FS_EmptySet, FS_Singleton
  <2>5. CASE n \notin 1 .. Taken
    <3>1. Places(n) = {} /\ n \notin sent
      BY <1>1, <2>3, <2>5 DEF BatcherInv, SentAhead
    <3>2. coming = {n - Taken}
      <4>1. n - Taken \in 1 .. Len(commands)
        BY <1>1, <2>1, <2>5
      <4>2. \A k \in 1 .. Len(commands) : commands[k] = n <=> k = n - Taken
        BY <1>1, <2>1
      <4> QED BY <2>1, <4>1, <4>2
    <3>3. Cardinality(Places(n)) = 0
      BY <2>4, <3>1
    <3>4. Cardinality(coming) = 1
      BY <2>4, <3>2
    <3> QED BY <3>1, <3>3, <3>4
  <2>6. CASE n \in 1 .. Taken
    <3>1. coming = {}
      BY <2>1, <2>6
    <3>2. CASE n \in sent
      <4>1. Places(n) = {}
        BY <1>1, <2>3, <3>2 DEF BatcherInv, SentAhead
      <4> QED BY <2>4, <3>1, <3>2, <4>1
    <3>3. CASE n \notin sent
      <4>1. PICK i \in 1 .. Len(QueueOf(n)) : QueueOf(n)[i] = n
        BY <1>1, <2>6, <3>3 DEF BatcherInv, Kept
      <4>2. QueueOf(n) \in Seq(Nat) /\ Ordered(QueueOf(n), kind, p, asked, Taken)
        BY <1>1, <2>2, OfAQueue DEF QueueOf
      <4>3. i \in RequestNumbers
        <5>1. i <= QueueOf(n)[i] /\ Len(QueueOf(n)) \in Nat
          BY <4>1, <4>2, LenProperties DEF Ordered
        <5> QED BY <1>1, <2>1, <4>1, <5>1, MaxIsNat DEF RequestNumbers
      <4>4. <<kind, p, i>> \in Places(n)
        <5>1. DOMAIN QueueOf(n) = 1 .. Len(QueueOf(n))
          BY <4>2, LenProperties
        <5> QED BY <2>2, <4>1, <4>3, <5>1 DEF Places, QueueOf
      <4>5. ASSUME NEW at \in Places(n) PROVE at = <<kind, p, i>>
        <5>1. /\ at = <<kind, p, at[3]>> /\ at[3] \in 1 .. Len(QueueOf(n))
              /\ QueueOf(n)[at[3]] = n
          BY <2>3
        <5>2. Len(QueueOf(n)) \in Nat /\ n \in Nat
          BY <1>1, <2>1, <4>2, LenProperties
        <5>3. at[3] = i
          <6>1. at[3] \in Int /\ i \in Int /\ ~(at[3] < i) /\ ~(i < at[3])
            BY <4>1, <4>2, <5>1, <5>2 DEF Ordered
          <6> QED BY <6>1
        <5> QED BY <5>1, <5>3
      <4>6. Places(n) = {<<kind, p, i>>}
        BY <4>4, <4>5
      <4>7. Cardinality(Places(n)) = 1
        BY <2>4, <4>6
      <4>8. Cardinality(coming) = 0
        BY <2>4, <3>1
      <4> QED BY <3>3, <4>7, <4>8
    <3> QED BY <3>2, <3>3
  <2> QED BY <2>5, <2>6
<1>2. BatcherInv => NoneLost
  BY <1>1 DEF NoneLost
<1> QED BY <1>2, BatcherSafe, PTL

\* Requests of one queue are sent in the order they were made (`take_batch` takes
\* the front and leaves the rest), for any limits and number of requests.
THEOREM QueuesSentInOrder == Spec => []SentInOrder
<1>1. BatcherInv => SentInOrder
  <2> SUFFICES ASSUME BatcherInv, NEW n \in sent, NEW m \in 1 .. n - 1,
                      asked[m].kind = asked[n].kind, asked[m].priority = asked[n].priority
               PROVE  m \in sent
      BY DEF SentInOrder
  <2>1. /\ n \in 1 .. Taken /\ QueueOf(m) = QueueOf(n)
        /\ \A i \in 1 .. Len(QueueOf(n)) : n < QueueOf(n)[i]
    BY DEF BatcherInv, SentAhead, QueueOf
  <2>2. m \in 1 .. Taken /\ m < n /\ Taken \in Nat
    BY <2>1 DEF BatcherInv, Made, Coming, Taken
  <2>3. ASSUME NEW i \in 1 .. Len(QueueOf(m)), QueueOf(m)[i] = m PROVE FALSE
    BY <2>1, <2>2, <2>3
  <2> QED BY <2>2, <2>3 DEF BatcherInv, Kept
<1> QED BY <1>1, BatcherSafe, PTL

\* A service call goes ahead of no request of its kind that is more urgent and that
\* the worker has (`flush` looks through the queues from the most urgent on).
THEOREM UrgentAlwaysFirst == Spec => UrgentFirst
<1>1. BatcherInv /\ [Next]_bvars =>
        [\A n \in sent' \ sent : \A p \in Waiting(queues', asked[n].kind) :
           p <= asked[n].priority]_bvars
  <2> SUFFICES ASSUME BatcherInv, [Next]_bvars, NEW n \in sent' \ sent,
                      NEW p \in Waiting(queues', asked[n].kind)
               PROVE  p <= asked[n].priority
      OBVIOUS
  <2>1. Flush
    BY DEF Next, Batching, Request, TakeRequest, CheckBegins, CheckEnds, Answered, Tick, bvars
  <2>2. /\ asked[n].kind = FlushKind /\ asked[n].priority = Urgent
        /\ Waiting(queues', FlushKind) \subseteq Waiting(queues, FlushKind)
    BY <2>1, FlushKeeps
  <2> QED BY <2>1, <2>2, WhatFlushTakes
<1> QED BY <1>1, BatcherSafe, PTL DEF Spec, UrgentFirst

\* No service call carries more nodes than the server or the options allow
\* (`read_limit`, `write_limit`), unless a read is allowed one node only: the
\* smallest read, of one item, takes two.
THEOREM CallsWithinLimit ==
  ASSUME NodesAllowed("read") # 1
  PROVE  Spec => []WithinLimit
<1> DEFINE Short == calling.kind \in Kinds /\ Len(calling.requests) \in 0 .. Limit(calling.kind)
<1>1. \A kind : Limit(kind) \in Nat \ {0}
  BY LimitIsPositive
<1>2. Init => Short
  BY <1>1 DEF Init, NoCall, Kinds
<1>3. BatcherInv /\ Short /\ [Next]_bvars => Short'
  <2> SUFFICES ASSUME BatcherInv, Short, [Next]_bvars PROVE Short'
      OBVIOUS
  <2>1. CASE Flush
    <3> DEFINE q == queues[FlushKind][Urgent]
               batch == BatchOf(q, Limit(FlushKind))
    <3>1. FlushKind \in Kinds /\ q \in Seq(Nat)
      BY <2>1, WhatFlushTakes, OfAQueue
    <3>2. Len(batch) \in 0 .. Limit(FlushKind)
      <4>1. PICK b \in 0 .. Len(q) : b <= Limit(FlushKind) /\ Len(batch) = b
        <5>1. Limit(FlushKind) \in Nat \ {0}
          BY <1>1
        <5> QED BY <3>1, <5>1, BatchAndRest
      <4>2. Len(q) \in Nat
        BY <3>1, LenProperties
      <4> QED BY <1>1, <4>1, <4>2
    <3>3. calling'.kind = FlushKind /\ calling'.requests = batch
      BY <2>1 DEF Flush
    <3> HIDE DEF batch
    <3> QED BY <3>1, <3>2, <3>3 DEF Limit, ReadLimit, WriteLimit
  <2>2. CASE Answered
    BY <1>1, <2>2 DEF Answered, NoCall, Kinds
  <2>3. CASE ~Flush /\ ~Answered
    BY <2>3 DEF Next, Batching, Request, TakeRequest, CheckBegins, CheckEnds, Tick, bvars
  <2> QED BY <2>1, <2>2, <2>3
<1>4. Short => WithinLimit
  <2> SUFFICES ASSUME Short, NodesAllowed(calling.kind) # 0
               PROVE  Len(calling.requests) * NodesPerItem[calling.kind]
                        <= NodesAllowed(calling.kind)
      BY DEF WithinLimit
  <2>1. CASE calling.kind = "read"
    <3>1. NodesAllowed("read") \in Nat /\ NodesAllowed("read") > 1
      BY <2>1, BatcherAssumption DEF NodesAllowed, NodeLimit, BatcherAssumption
    <3>2. Limit("read") = NodesAllowed("read") \div 2
      BY <2>1, <3>1 DEF Limit, ReadLimit, AtLeastOne, BatchSize, NodesAllowed, NodesPerItem, Kinds
    <3>3. NodesPerItem["read"] = 2
      BY DEF NodesPerItem, Kinds
    <3> QED BY <2>1, <3>1, <3>2, <3>3
  <2>2. CASE calling.kind = "write"
    <3>1. NodesAllowed("write") \in Nat \ {0}
      BY <2>2, BatcherAssumption DEF NodesAllowed, NodeLimit, BatcherAssumption
    <3>2. Limit("write") = NodesAllowed("write")
      BY <2>2, <3>1 DEF Limit, WriteLimit, AtLeastOne, BatchSize, NodesAllowed
    <3>3. NodesPerItem["write"] = 1
      BY DEF NodesPerItem, Kinds
    <3> QED BY <2>2, <3>1, <3>2, <3>3
  <2> QED BY <2>1, <2>2 DEF Kinds
<1> HIDE DEF Short
<1> QED BY <1>2, <1>3, <1>4, BatcherSafe, PTL DEF Spec

--------------------------------------------------------------------------------
\* A part of a span is no more than the span.
LEMMA ShareOfSpan ==
  ASSUME NEW d \in Nat, NEW s \in Nat, NEW b \in Nat \ {0}, s <= b
  PROVE  (d * s) \div b \in 0 .. d
<1> DEFINE n == d * s
           q == n \div b
<1>1. n \in Nat /\ n <= d * b
  <2>1. d * b = d * s + d * (b - s) /\ b - s \in Nat
    OBVIOUS
  <2>2. d * (b - s) \in Nat /\ d * s \in Nat
    BY <2>1
  <2> QED BY <2>1, <2>2
<1> HIDE DEF n
<1>2. q \in Nat /\ b * q <= n
  BY <1>1
<1>3. b * q <= b * d
  BY <1>1, <1>2
<1> HIDE DEF q
<1>4. q <= d
  <2> SUFFICES ASSUME d + 1 <= q PROVE FALSE
      BY <1>2
  <2>1. b * q = b * d + b * (q - d) /\ q - d \in Nat \ {0}
    BY <1>2
  <2>2. b * (q - d) > 0
    BY <2>1
  <2> QED BY <2>1, <2>2, <1>3, <1>2
<1> QED BY <1>2, <1>4 DEF n, q

\* The hold-off is no longer than the longest, whatever is pending.
LEMMA HoldOffIsBounded ==
  ASSUME NEW qs \in [Kinds -> [Priorities -> Seq(Nat)]]
  PROVE  HoldOff(qs) \in 0 .. FullHoldOff
<1>1. Pending(qs) \in Nat
  <2>1. ASSUME NEW kind \in Kinds, NEW p \in Priorities
        PROVE  Len(qs[kind][p]) \in Nat
    <3>1. qs[kind][p] \in Seq(Nat)
      OBVIOUS
    <3> QED BY ONLY <3>1, LenProperties
  <2>2. "read" \in Kinds /\ "write" \in Kinds
    BY DEF Kinds
  <2>3. 0 \in Priorities /\ 1 \in Priorities /\ 2 \in Priorities
    BY DEF Priorities
  <2> DEFINE len(kind, p) == Len(qs[kind][p])
             waiting(kind) == len(kind, 0) + len(kind, 1) + len(kind, 2)
  <2>4. Pending(qs) = waiting("read") + waiting("write")
    BY DEF Pending
  <2>5. \A kind \in Kinds : len(kind, 0) \in Nat /\ len(kind, 1) \in Nat /\ len(kind, 2) \in Nat
    BY <2>1, <2>3
  <2> HIDE DEF len
  <2>6. waiting("read") \in Nat /\ waiting("write") \in Nat
    BY <2>2, <2>5
  <2> HIDE DEF waiting
  <2> QED BY <2>4, <2>6
<1>2. ReadLimit \in Nat \ {0}
  BY LimitIsPositive DEF Limit
<1>3. MinHoldOff \in Nat /\ MaxHoldOff \in Nat
  BY BatcherAssumption DEF BatcherAssumption
<1> DEFINE pending == Pending(qs)
           batch == IF ReadLimit < AtLeastOne(pending) THEN ReadLimit ELSE AtLeastOne(pending)
           share == IF pending < batch THEN pending ELSE batch
           d == MaxHoldOff - MinHoldOff
<1>4. batch \in Nat \ {0} /\ share \in Nat /\ share <= batch
  BY <1>1, <1>2 DEF AtLeastOne
<1>5. CASE MaxHoldOff > MinHoldOff
  <2>1. HoldOff(qs) = MinHoldOff + (d * share) \div batch
    BY <1>5 DEF HoldOff
  <2>2. d \in Nat /\ MinHoldOff + d = MaxHoldOff
    BY <1>3, <1>5
  <2> HIDE DEF batch, share, d
  <2>3. (d * share) \div batch \in 0 .. d
    BY <1>4, <2>2, ShareOfSpan
  <2> QED BY <1>3, <1>5, <2>1, <2>2, <2>3 DEF FullHoldOff
<1>6. CASE ~(MaxHoldOff > MinHoldOff)
  BY <1>3, <1>6 DEF HoldOff, FullHoldOff
<1> QED BY <1>5, <1>6

\* The queues, the call and the two clocks keep their types: a request has its
\* number, and the hold-off of `next_flush` is never longer than the larger of
\* its options, whatever is pending and however often it starts anew.
THEOREM BatcherTypeCorrect == Spec => []TypeOK
<1> DEFINE Called == calling \in [kind : Kinds, requests : Seq(RequestNumbers)]
           Clocked == timer \in 0 .. FullHoldOff /\ check \in 0 .. CheckInterval
           Flagged == checking \in BOOLEAN
<1>1. Init => Flagged
  BY DEF Init
<1>2. Flagged /\ [Next]_bvars => Flagged'
  BY DEF Next, Batching, Request, TakeRequest, CheckBegins, CheckEnds, Flush, Answered, Tick,
     bvars
<1>3. Flagged <=> checking \in BOOLEAN
  OBVIOUS
<1> HIDE DEF Flagged
<1>4. FullHoldOff \in Nat /\ CheckInterval \in Nat
  BY BatcherAssumption DEF BatcherAssumption, FullHoldOff
<1>5. BatcherInv => queues \in [Kinds -> [Priorities -> Seq(Nat)]]
  BY DEF BatcherInv, Queued
<1>6. BatcherInv => TypeOK \/ ~Called \/ ~Clocked \/ ~Flagged
  <2> SUFFICES ASSUME BatcherInv, Called, Clocked, Flagged PROVE TypeOK
      OBVIOUS
  <2>1. Len(asked) \in Nat /\ Len(commands) \in Nat /\ Len(asked) <= MaxAsked
    BY LenProperties DEF BatcherInv, Made, Coming
  <2>2. Taken \in Nat /\ Taken <= MaxAsked
    BY <2>1, MaxIsNat DEF BatcherInv, Coming, Taken
  <2>3. commands \in Seq(RequestNumbers)
    <3>1. \A i \in 1 .. Len(commands) : commands[i] \in RequestNumbers
      BY <2>1, <2>2, MaxIsNat DEF BatcherInv, Coming, Taken, RequestNumbers
    <3> QED BY <2>1, <3>1, SeqDef DEF BatcherInv, Coming
  <2>4. ASSUME NEW kind \in Kinds, NEW p \in Priorities
        PROVE  queues[kind][p] \in Seq(RequestNumbers)
    <3>1. queues[kind][p] \in Seq(Nat)
      BY DEF BatcherInv, Queued
    <3>2. \A i \in 1 .. Len(queues[kind][p]) : queues[kind][p][i] \in RequestNumbers
      <4> SUFFICES ASSUME NEW i \in 1 .. Len(queues[kind][p])
                   PROVE  queues[kind][p][i] \in RequestNumbers
          OBVIOUS
      <4>1. queues[kind][p][i] \in Nat /\ Len(queues[kind][p]) \in Nat
        BY <3>1, ElementOfSeq, LenProperties
      <4>2. i <= queues[kind][p][i] /\ queues[kind][p][i] <= Taken
        BY DEF BatcherInv, Queued, InOrder, Ordered
      <4> QED BY <2>2, <4>1, <4>2, MaxIsNat DEF RequestNumbers
    <3>3. ASSUME NEW q \in Seq(Nat), \A i \in 1 .. Len(q) : q[i] \in RequestNumbers
          PROVE  q \in Seq(RequestNumbers)
      BY <3>3, SeqDef
    <3> QED BY <3>1, <3>2, <3>3
  <2>5. queues \in [Kinds -> [Priorities -> Seq(RequestNumbers)]]
    BY <1>5, <2>4
  <2>6. sent \subseteq RequestNumbers
    BY <2>2, MaxIsNat DEF BatcherInv, SentAhead, RequestNumbers
  <2> QED BY <1>3, <2>1, <2>3, <2>5, <2>6 DEF TypeOK, BatcherInv, Made
<1>7. Init => Called /\ Clocked
  <2> SUFFICES ASSUME Init PROVE Called /\ Clocked
      OBVIOUS
  <2>1. Called
    BY DEF Init, NoCall, Kinds
  <2>2. HoldOff(queues) \in 0 .. FullHoldOff
    BY BatcherInit, <1>5, HoldOffIsBounded
  <2> QED BY <1>4, <2>1, <2>2 DEF Init
<1>8. BatcherInv /\ BatcherInv' /\ Flagged /\ Called /\ Clocked /\ [Next]_bvars
        => Called' /\ Clocked'
  <2> SUFFICES ASSUME BatcherInv, BatcherInv', Flagged, Called, Clocked, [Next]_bvars
               PROVE  Called' /\ Clocked'
      OBVIOUS
  <2>1. Called'
    <3>1. CASE Flush
      <4> DEFINE q == queues[FlushKind][Urgent]
                 batch == BatchOf(q, Limit(FlushKind))
      <4>1. FlushKind \in Kinds /\ Urgent \in Priorities
        BY <3>1, WhatFlushTakes
      <4>2. q \in Seq(Nat) /\ Limit(FlushKind) \in Nat \ {0}
        BY <4>1, <1>5, LimitIsPositive
      <4>3. PICK b \in 0 .. Len(q) : /\ batch \in Seq(Nat) /\ Len(batch) = b
                                     /\ \A i \in 1 .. b : batch[i] = q[i]
        BY <4>2, BatchAndRest
      <4>4. \A i \in 1 .. Len(q) : q[i] \in RequestNumbers
        <5>1. TypeOK
          BY <1>6
        <5>2. q \in Seq(RequestNumbers)
          BY <4>1, <5>1 DEF TypeOK
        <5> HIDE DEF q
        <5> QED BY <5>2, ElementOfSeq
      <4>5. batch \in Seq(RequestNumbers)
        <5>1. Len(q) \in Nat
          BY <4>2, LenProperties
        <5> HIDE DEF batch, q
        <5> QED BY <4>3, <4>4, <5>1, SeqDef, LenProperties
      <4> HIDE DEF batch, q
      <4>6. calling' = [kind |-> FlushKind, requests |-> batch]
        BY <3>1 DEF Flush, batch, q
      <4> QED BY <4>1, <4>5, <4>6
    <3>2. CASE Answered
      BY <3>2 DEF Answered, NoCall, Kinds
    <3>3. CASE ~Flush /\ ~Answered
      BY <3>3 DEF Next, Batching, Request, TakeRequest, CheckBegins, CheckEnds, Tick, bvars
    <3> QED BY <3>1, <3>2, <3>3
  <2>2. HoldOff(queues) \in 0 .. FullHoldOff /\ HoldOff(queues') \in 0 .. FullHoldOff
    BY <1>5, HoldOffIsBounded DEF BatcherInv, Queued
  <2>3. Clocked'
    <3>1. CASE TakeRequest \/ CheckBegins \/ CheckEnds \/ Answered
      BY <1>4, <2>2, <3>1 DEF TakeRequest, CheckBegins, CheckEnds, Answered, LoopAgain
    <3>2. CASE Request \/ Flush \/ UNCHANGED bvars
      BY <3>2 DEF Request, Flush, bvars
    <3>3. CASE Tick
      BY <1>4, <3>3 DEF Tick
    <3> QED BY <3>1, <3>2, <3>3 DEF Next, Batching
  <2> QED BY <2>1, <2>3
<1> HIDE DEF Called, Clocked
<1> QED
  BY <1>6, <1>7, <1>8, <1>1, <1>2, BatcherSafe, PTL DEF Spec
================================================================================
