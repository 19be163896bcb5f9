------------------------- MODULE OpcuaUpdateQueueProofs -------------------------
(***************************************************************************)
(* Proofs about the update queue, for every capacity, both discard         *)
(* policies and any number of pushes: its invariants, and that it is a     *)
(* lossy mailbox.                                                          *)
(***************************************************************************)
EXTENDS OpcuaUpdateQueue, SequenceTheorems, FunctionTheorems, FiniteSetTheorems, TLAPS

\* The capacity is never 0, so an overrun always finds an update to give up.
LEMMA CapacityPositive == Capacity \in Nat /\ Capacity > 0
  BY QueueAssumption DEF Capacity

\* Both ways of counting a loss keep a well-formed update.
LEMMA LossCounted ==
  ASSUME NEW u \in UpdateRecords, NEW v \in UpdateRecords
  PROVE  /\ AbsorbLost(u, v.overrides) \in UpdateRecords
         /\ AbsorbLost(u, v.overrides).content = u.content
         /\ AbsorbLost(u, v.overrides).overrides = u.overrides + v.overrides + 1
         /\ TakeOverFrom(u, v) \in UpdateRecords
         /\ TakeOverFrom(u, v).content = v.content
         /\ TakeOverFrom(u, v).overrides = u.overrides + v.overrides + 1
  BY DEF AbsorbLost, TakeOverFrom, UpdateRecords

\* With room left a push only appends.
LEMMA PushWithRoom ==
  ASSUME NEW q \in Seq(UpdateRecords), NEW u \in UpdateRecords, Len(q) < Capacity
  PROVE  LET r == PushUpdate(q, u) IN
         /\ r \in Seq(UpdateRecords)
         /\ Len(r) = Len(q) + 1
         /\ \A i \in 1 .. Len(q) : r[i] = q[i]
         /\ r[Len(q) + 1] = u
  BY AppendProperties DEF PushUpdate

\* r is q with every update but the first moved a place forward, u behind them,
\* and the loss of the first counted by the one that takes its place.
Shifted(q, u, r) ==
  LET moved(i) == IF i = Len(q) THEN u ELSE q[i + 1]
  IN  /\ Len(r) = Len(q)
      /\ \A i \in 1 .. Len(q) :
           r[i] = IF i = 1 THEN AbsorbLost(moved(i), q[1].overrides) ELSE moved(i)

\* A full queue that discards its oldest update moves every other one a place
\* forward, and the one that becomes the first counts the loss.
LEMMA PushDiscardingOldest ==
  ASSUME NEW q \in Seq(UpdateRecords), NEW u \in UpdateRecords,
         Len(q) = Capacity, DiscardOldest
  PROVE  PushUpdate(q, u) \in Seq(UpdateRecords) /\ Shifted(q, u, PushUpdate(q, u))
<1>1. q[1] \in UpdateRecords /\ Len(q) \in Nat \ {0} /\ q # <<>>
  <2>1. Len(q) \in Nat \ {0}
    BY CapacityPositive
  <2>2. 1 \in 1 .. Len(q)
    BY <2>1
  <2>3. QED BY <2>1, <2>2, ElementOfSeq, EmptySeq
<1>2. CASE Len(q) = 1
  <2>1. PushUpdate(q, u) = <<AbsorbLost(u, q[1].overrides)>>
    BY <1>1, <1>2 DEF PushUpdate, PushFull
  <2>2. AbsorbLost(u, q[1].overrides) \in UpdateRecords
    BY <1>1, LossCounted
  <2>3. QED BY <1>2, <2>1, <2>2 DEF Shifted
<1>3. CASE Len(q) > 1
  <2> DEFINE t == Tail(q)
             h == AbsorbLost(t[1], q[1].overrides)
             s == [t EXCEPT ![1] = h]
  <2>1. /\ t \in Seq(UpdateRecords)
        /\ Len(t) = Len(q) - 1
        /\ \A i \in 1 .. Len(t) : t[i] = q[i + 1]
    BY <1>1, HeadTailProperties
  <2>2. 1 \in 1 .. Len(t) /\ t[1] \in UpdateRecords
    BY <1>3, <2>1, ElementOfSeq
  <2>3. h \in UpdateRecords
    BY <1>1, <2>2, LossCounted
  <2>4. /\ s \in Seq(UpdateRecords)
        /\ Len(s) = Len(t)
        /\ \A i \in 1 .. Len(t) : s[i] = IF i = 1 THEN h ELSE t[i]
    <3> HIDE DEF t, h
    <3> QED BY <2>1, <2>2, <2>3, ExceptSeq
  <2>5. PushUpdate(q, u) = Append(s, u)
    BY <1>1, <1>3 DEF PushUpdate, PushFull
  <2>6. /\ Append(s, u) \in Seq(UpdateRecords)
        /\ Len(Append(s, u)) = Len(s) + 1
        /\ \A i \in 1 .. Len(s) : Append(s, u)[i] = s[i]
        /\ Append(s, u)[Len(s) + 1] = u
    <3> HIDE DEF s
    <3> QED BY <2>4, AppendProperties
  <2>7. \A i \in 1 .. Len(q) : i \in 1 .. Len(s) \/ i = Len(s) + 1
    BY <2>1, <2>4, <1>1
  <2>8. t[1] = q[2]
    BY <2>1, <2>2
  <2>9. Len(s) + 1 = Len(q)
    BY <2>1, <2>4, <1>1
  <2>10. \A i \in 1 .. Len(q) :
           Append(s, u)[i] = IF i = Len(q) THEN u
                             ELSE IF i = 1 THEN AbsorbLost(q[2], q[1].overrides)
                             ELSE q[i + 1]
    <3> HIDE DEF t, s, AbsorbLost
    <3> QED BY <2>1, <2>4, <2>6, <2>7, <2>8, <2>9 DEF h
  <2>11. QED
    <3> HIDE DEF t, s, h, AbsorbLost
    <3>1. Len(Append(s, u)) = Len(q) /\ Append(s, u) \in Seq(UpdateRecords)
      BY <2>6, <2>9
    <3>2. 1 # Len(q)
      BY <1>3
    <3>3. Shifted(q, u, Append(s, u))
      BY <2>10, <3>1, <3>2 DEF Shifted
    <3>4. QED BY <2>5, <3>1, <3>3
<1>4. QED BY <1>1, <1>2, <1>3

\* A full queue that discards its newest update changes its last place only.
LEMMA PushDiscardingNewest ==
  ASSUME NEW q \in Seq(UpdateRecords), NEW u \in UpdateRecords,
         Len(q) = Capacity, ~DiscardOldest
  PROVE  LET r == PushUpdate(q, u)
         IN  /\ r \in Seq(UpdateRecords)
             /\ Len(r) = Len(q)
             /\ \A i \in 1 .. Len(q) :
                  r[i] = IF i = Len(q) THEN TakeOverFrom(q[i], u) ELSE q[i]
<1> DEFINE n == Len(q)
<1>1. n \in Nat \ {0} /\ n \in 1 .. Len(q) /\ q[n] \in UpdateRecords
  BY CapacityPositive, ElementOfSeq, LenProperties
<1>2. TakeOverFrom(q[n], u) \in UpdateRecords
  BY <1>1, LossCounted
<1>3. PushUpdate(q, u) = [q EXCEPT ![n] = TakeOverFrom(q[n], u)]
  BY <1>1, CapacityPositive DEF PushUpdate, PushFull
<1>4. QED
  <2> HIDE DEF n
  <2> QED BY <1>1, <1>2, <1>3, ExceptSeq DEF n

--------------------------------------------------------------------------------
QueueInv == TypeOK /\ GapsAccounted /\ OldestFirst /\ NewestSurvives

\* All updates waiting are newer than the one the record took last.
LEMMA WaitingNewer ==
  QueueInv => \A i \in 1 .. Len(queue) :
                /\ queue[i] \in UpdateRecords
                /\ delivered.content < queue[i].content
                /\ queue[i].content <= pushed
<1> SUFFICES ASSUME QueueInv, NEW i \in 1 .. Len(queue)
             PROVE  /\ queue[i] \in UpdateRecords
                    /\ delivered.content < queue[i].content
                    /\ queue[i].content <= pushed
  OBVIOUS
<1> USE DEF QueueInv, TypeOK
<1>1. /\ Len(queue) \in Nat
      /\ \A k \in 1 .. Len(queue) : queue[k] \in UpdateRecords
  BY ElementOfSeq, LenProperties
<1>2. 1 \in 1 .. Len(queue) /\ Len(queue) \in 1 .. Len(queue) /\ queue # <<>>
  BY <1>1, EmptySeq
<1>3. /\ queue[1].content \in Nat /\ queue[i].content \in Nat
      /\ queue[Len(queue)].content \in Nat /\ queue[1].overrides \in Nat
      /\ delivered.content \in Nat
  BY <1>1, <1>2 DEF UpdateRecords
<1>4. delivered.content < queue[1].content
  BY <1>2, <1>3 DEF GapsAccounted, Before
<1>5. i = 1 \/ queue[1].content < queue[i].content
  BY <1>1, <1>2 DEF OldestFirst
<1>6. i = Len(queue) \/ queue[i].content < queue[Len(queue)].content
  BY <1>1, <1>2 DEF OldestFirst
<1>7. pushed = queue[Len(queue)].content
  BY <1>2 DEF NewestSurvives
<1>8. QED BY <1>1, <1>3, <1>4, <1>5, <1>6, <1>7
\* A push keeps the accounting, whether it finds room or not.
LEMMA PushKeepsInv == QueueInv /\ Push => QueueInv'
<1> SUFFICES ASSUME QueueInv, Push PROVE QueueInv'
  OBVIOUS
<1> DEFINE u == NewUpdate(pushed + 1)
           n == Len(queue)
<1>1. /\ queue \in Seq(UpdateRecords) /\ n \in Nat /\ n <= Capacity
      /\ pushed \in Nat /\ delivered \in UpdateRecords
      /\ delivered.content \in Nat
  BY DEF QueueInv, TypeOK, UpdateRecords
<1>2. u \in UpdateRecords /\ u.content = pushed + 1 /\ u.overrides = 0
  BY <1>1 DEF NewUpdate, UpdateRecords
<1>3. queue' = PushUpdate(queue, u) /\ pushed' = pushed + 1 /\ delivered' = delivered
  BY DEF Push
<1>4. \A i \in 1 .. n : /\ queue[i] \in UpdateRecords
                        /\ queue[i].content \in Nat
                        /\ queue[i].overrides \in Nat
                        /\ delivered.content < queue[i].content
                        /\ queue[i].content <= pushed
  BY WaitingNewer DEF UpdateRecords
<1>5. Capacity \in Nat /\ Capacity > 0
  BY CapacityPositive
<1>6. CASE n < Capacity
  <2>1. /\ queue' \in Seq(UpdateRecords)
        /\ Len(queue') = n + 1
        /\ \A i \in 1 .. n : queue'[i] = queue[i]
        /\ queue'[n + 1] = u
    BY <1>1, <1>2, <1>3, <1>6, PushWithRoom
  <2>2. TypeOK'
    <3>1. pushed' \in Nat /\ Len(queue') <= Capacity
      BY <1>1, <1>3, <1>5, <1>6, <2>1
    <3> HIDE DEF u, n
    <3>2. QED BY <1>1, <1>3, <2>1, <3>1 DEF TypeOK
  <2>3. OldestFirst'
    <3> SUFFICES ASSUME NEW i \in 1 .. n + 1, NEW j \in 1 .. n + 1, i < j
                 PROVE  queue'[i].content < queue'[j].content
      BY <2>1 DEF OldestFirst
    <3>1. i \in 1 .. n /\ (j \in 1 .. n \/ j = n + 1)
      BY <1>1
    <3>2. CASE j \in 1 .. n
      <4>1. queue[i].content < queue[j].content
        BY <3>1, <3>2 DEF QueueInv, OldestFirst
      <4>2. QED BY <2>1, <3>1, <3>2, <4>1
    <3>3. CASE j = n + 1
      BY <1>2, <1>4, <2>1, <3>1, <3>3, <1>1
    <3>4. QED BY <3>1, <3>2, <3>3
  <2>4. pushed = IF n = 0 THEN delivered.content ELSE queue[n].content
    BY <1>1, EmptySeq DEF QueueInv, NewestSurvives
  <2>5. GapsAccounted'
    <3> SUFFICES ASSUME NEW i \in 1 .. n + 1
                 PROVE  queue'[i].content = Before(i)'.content + queue'[i].overrides + 1
      BY <2>1 DEF GapsAccounted
    <3>1. CASE i = n + 1
      BY <3>1, <1>1, <1>2, <1>3, <2>1, <2>4 DEF Before
    <3>2. CASE i \in 1 .. n
      <4>1. i = 1 \/ i - 1 \in 1 .. n
        BY <1>1, <3>2
      <4>2. Before(i)' = Before(i)
        BY <1>3, <2>1, <3>2, <4>1 DEF Before
      <4>3. QED BY <2>1, <3>2, <4>2 DEF QueueInv, GapsAccounted
    <3>3. QED BY <1>1, <3>1, <3>2
  <2>6. NewestSurvives'
    BY <1>1, <1>2, <1>3, <2>1, EmptySeq DEF NewestSurvives
  <2>7. QED BY <2>2, <2>3, <2>5, <2>6 DEF QueueInv
<1>7. CASE n = Capacity /\ DiscardOldest
  <2> DEFINE shifted(i) == IF i = n THEN u ELSE queue[i + 1]
  <2>1. /\ queue' \in Seq(UpdateRecords)
        /\ Len(queue') = n
        /\ \A i \in 1 .. n :
             queue'[i] = IF i = 1 THEN AbsorbLost(shifted(i), queue[1].overrides)
                                  ELSE shifted(i)
    <3>1. queue' \in Seq(UpdateRecords) /\ Shifted(queue, u, queue')
      BY <1>1, <1>2, <1>3, <1>7, PushDiscardingOldest
    <3>2. QED BY <3>1 DEF Shifted
  <2>2. n \in Nat \ {0} /\ 1 \in 1 .. n /\ n \in 1 .. n /\ queue' # <<>> /\ queue # <<>>
    BY <1>1, <1>5, <1>7, <2>1, EmptySeq
  <2>3. \A i \in 1 .. n : /\ shifted(i) \in UpdateRecords
                          /\ shifted(i).content \in Nat
                          /\ shifted(i).overrides \in Nat
    <3> SUFFICES ASSUME NEW i \in 1 .. n
                 PROVE  shifted(i) \in UpdateRecords
      BY DEF UpdateRecords
    <3>1. i = n \/ i + 1 \in 1 .. n
      BY <2>2
    <3> QED BY <1>2, <1>4, <3>1
  <2>4. \A i \in 1 .. n :
          queue'[i].content = IF i = n THEN pushed + 1 ELSE queue[i + 1].content
    <3> SUFFICES ASSUME NEW i \in 1 .. n
                 PROVE  queue'[i].content = shifted(i).content
      BY <1>2
    <3>1. AbsorbLost(shifted(i), queue[1].overrides).content = shifted(i).content
      BY <2>3, <1>4, <2>2, LossCounted
    <3> QED BY <2>1, <3>1
  <2>5. /\ queue'[1].overrides = shifted(1).overrides + queue[1].overrides + 1
        /\ \A i \in 1 .. n : i # 1 => queue'[i].overrides = shifted(i).overrides
    <3>1. AbsorbLost(shifted(1), queue[1].overrides).overrides
            = shifted(1).overrides + queue[1].overrides + 1
      BY <2>3, <1>4, <2>2, LossCounted
    <3> HIDE DEF shifted
    <3> QED BY <2>1, <2>2, <3>1
  <2>6. TypeOK'
    BY <1>1, <1>3, <1>7, <2>1 DEF TypeOK
  <2>7. OldestFirst'
    <3> SUFFICES ASSUME NEW i \in 1 .. n, NEW j \in 1 .. n, i < j
                 PROVE  queue'[i].content < queue'[j].content
      BY <2>1 DEF OldestFirst
    <3>1. i # n /\ i + 1 \in 1 .. n /\ (j = n \/ j + 1 \in 1 .. n)
      BY <2>2
    <3>2. queue[i + 1].content < pushed + 1
      BY <1>1, <1>4, <3>1
    <3>3. j # n => queue[i + 1].content < queue[j + 1].content
      BY <2>2, <3>1 DEF QueueInv, OldestFirst
    <3> QED BY <2>4, <3>1, <3>2, <3>3
  <2>8. GapsAccounted'
    <3> SUFFICES ASSUME NEW i \in 1 .. n
                 PROVE  queue'[i].content = Before(i)'.content + queue'[i].overrides + 1
      BY <2>1 DEF GapsAccounted
    <3>1. pushed = queue[n].content
      BY <2>2 DEF QueueInv, NewestSurvives
    <3>2. \A k \in 1 .. n : queue[k].content = Before(k).content + queue[k].overrides + 1
      BY DEF QueueInv, GapsAccounted
    <3>3. CASE i = 1
      <4>1. queue[1].content = delivered.content + queue[1].overrides + 1
        BY <2>2, <3>2 DEF Before
      <4>2. Before(i)' = delivered
        BY <1>3, <3>3 DEF Before
      <4>3. CASE n = 1
        BY <1>1, <1>2, <1>4, <2>2, <2>4, <2>5, <3>1, <3>3, <4>1, <4>2, <4>3
      <4>4. CASE n # 1
        <5>1. 2 \in 1 .. n
          <6> HIDE DEF n
          <6> QED BY <2>2, <4>4
        <5>2. queue[2].content = queue[1].content + queue[2].overrides + 1
          BY <3>2, <5>1 DEF Before
        <5>3. /\ queue'[1].content = queue[2].content
              /\ queue'[1].overrides = queue[2].overrides + queue[1].overrides + 1
          BY <2>2, <2>4, <2>5, <4>4
        <5>4. QED BY <1>1, <1>4, <2>2, <3>3, <4>1, <4>2, <5>1, <5>2, <5>3
      <4>5. QED BY <4>3, <4>4
    <3>4. CASE i # 1
      <4>1. i - 1 \in 1 .. n /\ i - 1 # n /\ (i - 1) + 1 = i
        BY <2>2, <3>4
      <4>2. Before(i)'.content = queue[i].content
        BY <2>4, <3>4, <4>1 DEF Before
      <4>3. CASE i = n
        BY <1>1, <1>2, <1>4, <2>4, <2>5, <3>1, <3>4, <4>2, <4>3
      <4>4. CASE i # n
        <5>1. i + 1 \in 1 .. n /\ i + 1 # 1 /\ (i + 1) - 1 = i
          BY <2>2, <4>4
        <5>2. queue[i + 1].content = queue[i].content + queue[i + 1].overrides + 1
          BY <3>2, <5>1 DEF Before
        <5>3. QED BY <2>4, <2>5, <3>4, <4>2, <4>4, <5>2
      <4>5. QED BY <4>3, <4>4
    <3>5. QED BY <3>3, <3>4
  <2>9. NewestSurvives'
    BY <1>3, <2>1, <2>2, <2>4 DEF NewestSurvives
  <2>10. QED BY <2>6, <2>7, <2>8, <2>9 DEF QueueInv
<1>8. CASE n = Capacity /\ ~DiscardOldest
  <2>1. /\ queue' \in Seq(UpdateRecords)
        /\ Len(queue') = n
        /\ \A i \in 1 .. n :
             queue'[i] = IF i = n THEN TakeOverFrom(queue[i], u) ELSE queue[i]
    BY <1>1, <1>2, <1>3, <1>8, PushDiscardingNewest
  <2>2. n \in Nat \ {0} /\ n \in 1 .. n /\ queue' # <<>> /\ queue # <<>>
    BY <1>1, <1>5, <1>8, <2>1, EmptySeq
  <2>3. /\ queue'[n].content = pushed + 1
        /\ queue'[n].overrides = queue[n].overrides + 1
    <3>1. /\ TakeOverFrom(queue[n], u).content = u.content
          /\ TakeOverFrom(queue[n], u).overrides = queue[n].overrides + u.overrides + 1
      BY <1>2, <1>4, <2>2, LossCounted
    <3>2. queue'[n] = TakeOverFrom(queue[n], u)
      BY <2>1, <2>2
    <3>3. QED BY <1>2, <1>4, <2>2, <3>1, <3>2
  <2>4. TypeOK'
    BY <1>1, <1>3, <1>8, <2>1 DEF TypeOK
  <2>5. OldestFirst'
    <3> SUFFICES ASSUME NEW i \in 1 .. n, NEW j \in 1 .. n, i < j
                 PROVE  queue'[i].content < queue'[j].content
      BY <2>1 DEF OldestFirst
    <3>1. queue'[i] = queue[i] /\ queue[i].content < pushed + 1
      BY <1>1, <1>4, <2>1, <2>2
    <3>2. CASE j = n
      BY <2>3, <3>1, <3>2
    <3>3. CASE j # n
      BY <2>1, <3>1, <3>3 DEF QueueInv, OldestFirst
    <3> QED BY <3>2, <3>3
  <2>6. GapsAccounted'
    <3> SUFFICES ASSUME NEW i \in 1 .. n
                 PROVE  queue'[i].content = Before(i)'.content + queue'[i].overrides + 1
      BY <2>1 DEF GapsAccounted
    <3>1. Before(i)' = Before(i)
      <4>1. i = 1 \/ (i - 1 \in 1 .. n /\ i - 1 # n)
        BY <2>2
      <4>2. QED BY <1>3, <2>1, <4>1 DEF Before
    <3>2. queue[i].content = Before(i).content + queue[i].overrides + 1
      BY DEF QueueInv, GapsAccounted
    <3>3. pushed = queue[n].content
      BY <2>2 DEF QueueInv, NewestSurvives
    <3>4. Before(i).content \in Nat
      <4>1. i = 1 \/ i - 1 \in 1 .. n
        BY <2>2
      <4>2. QED BY <1>1, <1>4, <4>1 DEF Before
    <3>5. CASE i = n
      BY <1>4, <2>2, <2>3, <3>1, <3>2, <3>3, <3>4, <3>5
    <3>6. CASE i # n
      BY <2>1, <3>1, <3>2, <3>6
    <3>7. QED BY <3>5, <3>6
  <2>7. NewestSurvives'
    BY <1>3, <2>1, <2>2, <2>3 DEF NewestSurvives
  <2>8. QED BY <2>4, <2>5, <2>6, <2>7 DEF QueueInv
<1>9. QED BY <1>1, <1>5, <1>6, <1>7, <1>8
\* A pop takes the oldest update, whose count then covers every number between
\* it and the update taken before.
LEMMA PopKeepsInv == QueueInv /\ Pop => QueueInv'
<1> SUFFICES ASSUME QueueInv, Pop PROVE QueueInv'
  OBVIOUS
<1> DEFINE n == Len(queue)
<1>1. /\ queue \in Seq(UpdateRecords) /\ queue # <<>> /\ n \in Nat \ {0} /\ n <= Capacity
      /\ pushed \in Nat
  BY EmptySeq DEF QueueInv, TypeOK, Pop
<1>2. /\ queue' \in Seq(UpdateRecords)
      /\ Len(queue') = n - 1
      /\ \A i \in 1 .. n - 1 : queue'[i] = queue[i + 1]
  BY <1>1, HeadTailProperties DEF Pop
<1>3. delivered' = queue[1] /\ delivered' \in UpdateRecords /\ pushed' = pushed
  BY <1>1, HeadTailProperties DEF Pop
<1>4. TypeOK'
  BY <1>1, <1>2, <1>3, CapacityPositive DEF TypeOK
<1>5. OldestFirst'
  <2> SUFFICES ASSUME NEW i \in 1 .. n - 1, NEW j \in 1 .. n - 1, i < j
               PROVE  queue'[i].content < queue'[j].content
    BY <1>2 DEF OldestFirst
  <2>1. i + 1 \in 1 .. n /\ j + 1 \in 1 .. n /\ i + 1 < j + 1
    BY <1>1
  <2> QED BY <1>2, <2>1 DEF QueueInv, OldestFirst
<1>6. GapsAccounted'
  <2> SUFFICES ASSUME NEW i \in 1 .. n - 1
               PROVE  queue'[i].content = Before(i)'.content + queue'[i].overrides + 1
    BY <1>2 DEF GapsAccounted
  <2>1. i + 1 \in 1 .. n /\ i + 1 # 1 /\ (i + 1) - 1 = i
    BY <1>1
  <2>2. Before(i)' = queue[i]
    <3>1. i = 1 \/ (i - 1 \in 1 .. n - 1 /\ (i - 1) + 1 = i)
      BY <1>1
    <3>2. QED BY <1>2, <1>3, <3>1 DEF Before
  <2>3. queue[i + 1].content = queue[i].content + queue[i + 1].overrides + 1
    BY <2>1 DEF QueueInv, GapsAccounted, Before
  <2>4. QED BY <1>2, <2>2, <2>3
<1>7. NewestSurvives'
  <2>1. pushed = queue[n].content
    BY <1>1 DEF QueueInv, NewestSurvives
  <2>2. CASE n = 1
    BY <1>2, <1>3, <2>1, <2>2, EmptySeq DEF NewestSurvives
  <2>3. CASE n # 1
    <3>1. queue' # <<>> /\ n - 1 \in 1 .. n - 1
      BY <1>1, <1>2, <2>3, EmptySeq
    <3>2. queue'[n - 1] = queue[n]
      BY <1>1, <1>2, <3>1
    <3>3. QED BY <1>2, <1>3, <2>1, <3>1, <3>2 DEF NewestSurvives
  <2>4. QED BY <2>2, <2>3
<1>8. QED BY <1>4, <1>5, <1>6, <1>7 DEF QueueInv

\* A new queue has nothing to account for (`UpdateQueue::new`).
LEMMA InitHasInv == Init => QueueInv
  BY CapacityPositive, EmptySeq
     DEF Init, NewUpdate, QueueInv, TypeOK, UpdateRecords, GapsAccounted, OldestFirst, NewestSurvives

\* Pushes and pops keep the accounting, and so does doing nothing.
LEMMA StepKeepsInv == QueueInv /\ [Next]_qvars => QueueInv'
<1>1. QueueInv /\ UNCHANGED qvars => QueueInv'
  BY DEF qvars, QueueInv, TypeOK, GapsAccounted, Before, OldestFirst, NewestSurvives
<1>2. QED BY <1>1, PushKeepsInv, PopKeepsInv DEF Next

\* The conjunction the invariants are proved by.
THEOREM QueueInvariant == Spec => []QueueInv
  BY InitHasInv, StepKeepsInv, PTL DEF Spec

\* Type correctness of `UpdateQueue`, capacity included: `push` never grows the
\* queue past it and never finds the full queue empty.
THEOREM TypeCorrect == Spec => []TypeOK
  BY QueueInvariant, PTL DEF QueueInv

\* For every capacity and either discard policy the losses are exactly counted:
\* what `overrides` says is what is missing before the update.
THEOREM LossesCounted == Spec => []GapsAccounted
  BY QueueInvariant, PTL DEF QueueInv

\* For every capacity and either discard policy an overrun leaves the newest
\* update queued, and the queue in the order of the pushes.
THEOREM NewestIsQueued == Spec => [](NewestSurvives /\ OldestFirst)
  BY QueueInvariant, PTL DEF QueueInv
--------------------------------------------------------------------------------
Waiting == {queue[i].content : i \in 1 .. Len(queue)}

\* Updates waiting are pairwise different, so the mailbox holds as many as the
\* queue.
LEMMA WaitingCardinality ==
  ASSUME QueueInv
  PROVE  IsFiniteSet(Waiting) /\ Cardinality(Waiting) = Len(queue)
<1> DEFINE n == Len(queue)
           f == [i \in 1 .. n |-> queue[i].content]
<1>1. n \in Nat /\ \A i \in 1 .. n : queue[i].content \in Nat
  BY WaitingNewer, LenProperties DEF QueueInv, TypeOK, UpdateRecords
<1>2. \A i, j \in 1 .. n : i # j => f[i] # f[j]
  <2> SUFFICES ASSUME NEW i \in 1 .. n, NEW j \in 1 .. n, i # j PROVE f[i] # f[j]
    OBVIOUS
  <2>1. i < j \/ j < i
    BY <1>1
  <2>2. queue[i].content < queue[j].content \/ queue[j].content < queue[i].content
    BY <2>1 DEF QueueInv, OldestFirst
  <2>3. QED BY <1>1, <2>2
<1>3. f \in Bijection(1 .. n, Waiting)
  <2>1. f \in [1 .. n -> Waiting]
    BY DEF Waiting
  <2>2. \A m \in Waiting : \E i \in 1 .. n : f[i] = m
    BY DEF Waiting
  <2>3. QED
    <3> HIDE DEF f, n
    <3> QED BY <1>2, <2>1, <2>2, Fun_IsBij
<1>4. IsFiniteSet(1 .. n) /\ Cardinality(1 .. n) = n
  <2> HIDE DEF n
  <2>1. 1 \in Int /\ n \in Int
    BY <1>1
  <2>2. /\ IsFiniteSet(1 .. n)
        /\ Cardinality(1 .. n) = IF 1 > n THEN 0 ELSE n - 1 + 1
    BY <2>1, FS_Interval
  <2>3. (IF 1 > n THEN 0 ELSE n - 1 + 1) = n
    BY <1>1
  <2>4. QED BY <2>2, <2>3
<1>5. ExistsBijection(1 .. n, Waiting)
  BY <1>3 DEF ExistsBijection
<1>6. QED
  <2> HIDE DEF f
  <2> QED BY <1>4, <1>5, FS_Bijection

\* The mailbox counts its survivors with the cardinality of its own instance.
LEMMA MailboxCardinality == \A S : Mailbox!Cardinality(S) = Cardinality(S)
  BY DEF Mailbox!Cardinality, Cardinality

\* A push with room stores, and one without displaces the update its policy gives up.
LEMMA PushIsMailboxPush == QueueInv /\ QueueInv' /\ Push => Mailbox!Push
<1> SUFFICES ASSUME QueueInv, QueueInv', Push PROVE Mailbox!Push
  OBVIOUS
<1> DEFINE u == NewUpdate(pushed + 1)
           n == Len(queue)
<1>1. /\ queue \in Seq(UpdateRecords) /\ n \in Nat /\ n <= Capacity /\ pushed \in Nat
      /\ u \in UpdateRecords /\ u.content = pushed + 1
  BY DEF QueueInv, TypeOK, UpdateRecords, NewUpdate
<1>2. \A i \in 1 .. n : /\ queue[i] \in UpdateRecords
                        /\ queue[i].content \in Nat
                        /\ queue[i].content <= pushed
  BY WaitingNewer DEF UpdateRecords
<1>3. Mailbox!Cardinality(Waiting) = n /\ Capacity \in Nat /\ Capacity > 0
  BY WaitingCardinality, MailboxCardinality, CapacityPositive
<1>4. queue' = PushUpdate(queue, u)
  BY DEF Push
<1>5. CASE n < Capacity
  <2>1. /\ Len(queue') = n + 1
        /\ \A i \in 1 .. n : queue'[i] = queue[i]
        /\ queue'[n + 1] = u
    BY <1>1, <1>4, <1>5, PushWithRoom
  <2>2. Waiting' = Waiting \cup {pushed + 1}
    <3>1. 1 .. n + 1 = (1 .. n) \cup {n + 1}
      BY <1>1
    <3>2. QED BY <1>1, <2>1, <3>1 DEF Waiting
  <2>3. Mailbox!Store
    BY <1>3, <1>5, <2>2 DEF Mailbox!Store, Waiting
  <2>4. QED BY <2>3 DEF Push, Mailbox!Push
<1>6. CASE n = Capacity /\ DiscardOldest
  <2>1. /\ Len(queue') = n
        /\ \A i \in 1 .. n :
             queue'[i] = IF i = 1
                           THEN AbsorbLost(IF i = n THEN u ELSE queue[i + 1], queue[1].overrides)
                           ELSE IF i = n THEN u ELSE queue[i + 1]
    <3>1. Shifted(queue, u, queue')
      BY <1>1, <1>4, <1>6, PushDiscardingOldest
    <3>2. QED BY <3>1 DEF Shifted
  <2>2. n \in Nat \ {0} /\ 1 \in 1 .. n
    BY <1>1, <1>3, <1>6
  <2>3. \A i \in 1 .. n :
          queue'[i].content = IF i = n THEN pushed + 1 ELSE queue[i + 1].content
    <3> SUFFICES ASSUME NEW i \in 1 .. n
                 PROVE  queue'[i].content = IF i = n THEN pushed + 1 ELSE queue[i + 1].content
      OBVIOUS
    <3>1. i = n \/ i + 1 \in 1 .. n
      BY <2>2
    <3>2. (IF i = n THEN u ELSE queue[i + 1]) \in UpdateRecords /\ queue[1] \in UpdateRecords
      BY <1>1, <1>2, <2>2, <3>1
    <3>3. queue'[i].content = (IF i = n THEN u ELSE queue[i + 1]).content
      <4> DEFINE w == IF i = n THEN u ELSE queue[i + 1]
      <4>1. AbsorbLost(w, queue[1].overrides).content = w.content
        <5> HIDE DEF w
        <5> QED BY <3>2, LossCounted DEF w
      <4>2. queue'[i] = IF i = 1 THEN AbsorbLost(w, queue[1].overrides) ELSE w
        BY <2>1
      <4> HIDE DEF w
      <4> QED BY <4>1, <4>2 DEF w
    <3>4. QED BY <1>1, <3>3
  <2>4. \A i \in 1 .. n : i # 1 => queue[i].content # queue[1].content
    BY <1>2, <2>2 DEF QueueInv, OldestFirst
  <2>5. Waiting' = (Waiting \ {queue[1].content}) \cup {pushed + 1}
    <3>1. ASSUME NEW m \in Waiting' PROVE m \in (Waiting \ {queue[1].content}) \cup {pushed + 1}
      <4>1. PICK i \in 1 .. n : m = queue'[i].content
        BY <2>1 DEF Waiting
      <4>2. i = n \/ (i + 1 \in 1 .. n /\ i + 1 # 1)
        BY <2>2
      <4>3. QED BY <2>3, <2>4, <4>1, <4>2 DEF Waiting
    <3>2. ASSUME NEW m \in (Waiting \ {queue[1].content}) \cup {pushed + 1} PROVE m \in Waiting'
      <4>1. CASE m = pushed + 1
        <5>1. n \in 1 .. n
          BY <2>2
        <5>2. queue'[n].content = pushed + 1
          BY <2>3, <5>1
        <5>3. QED BY <2>1, <4>1, <5>1, <5>2 DEF Waiting
      <4>2. CASE m \in Waiting /\ m # queue[1].content
        <5>1. PICK i \in 1 .. n : m = queue[i].content
          BY <4>2 DEF Waiting
        <5>2. i - 1 \in 1 .. n /\ i - 1 # n /\ (i - 1) + 1 = i
          BY <2>2, <4>2, <5>1
        <5>3. queue'[i - 1].content = m
          BY <2>3, <5>1, <5>2
        <5>4. QED BY <2>1, <5>2, <5>3 DEF Waiting
      <4>3. QED BY <3>2, <4>1, <4>2
    <3>3. QED BY <3>1, <3>2
  <2>6. queue[1].content \in Waiting
    BY <2>2 DEF Waiting
  <2>7. Mailbox!Displace
    BY <1>3, <1>6, <2>5, <2>6 DEF Mailbox!Displace, Waiting
  <2>8. QED BY <2>7 DEF Push, Mailbox!Push
<1>7. CASE n = Capacity /\ ~DiscardOldest
  <2>1. /\ Len(queue') = n
        /\ \A i \in 1 .. n :
             queue'[i] = IF i = n THEN TakeOverFrom(queue[i], u) ELSE queue[i]
    BY <1>1, <1>4, <1>7, PushDiscardingNewest
  <2>2. n \in Nat \ {0} /\ n \in 1 .. n
    BY <1>1, <1>3, <1>7
  <2>3. queue'[n].content = pushed + 1
    BY <1>1, <1>2, <2>1, <2>2, LossCounted
  <2>4. \A i \in 1 .. n : i # n => queue[i].content # queue[n].content
    BY <1>2, <2>2 DEF QueueInv, OldestFirst
  <2>5. Waiting' = (Waiting \ {queue[n].content}) \cup {pushed + 1}
    <3>1. ASSUME NEW m \in Waiting' PROVE m \in (Waiting \ {queue[n].content}) \cup {pushed + 1}
      BY <2>1, <2>3, <2>4 DEF Waiting
    <3>2. ASSUME NEW m \in (Waiting \ {queue[n].content}) \cup {pushed + 1} PROVE m \in Waiting'
      BY <2>1, <2>2, <2>3 DEF Waiting
    <3>3. QED BY <3>1, <3>2
  <2>6. queue[n].content \in Waiting
    BY <2>2 DEF Waiting
  <2>7. Mailbox!Displace
    BY <1>3, <1>7, <2>5, <2>6 DEF Mailbox!Displace, Waiting
  <2>8. QED BY <2>7 DEF Push, Mailbox!Push
<1>8. QED BY <1>1, <1>3, <1>5, <1>6, <1>7

\* A pop takes the oldest survivor and reports what was missed before it.
LEMMA PopIsMailboxTake == QueueInv /\ Pop => Mailbox!Take
<1> SUFFICES ASSUME QueueInv, Pop PROVE Mailbox!Take
  OBVIOUS
<1> DEFINE n == Len(queue)
<1>1. /\ queue \in Seq(UpdateRecords) /\ queue # <<>> /\ n \in Nat \ {0} /\ 1 \in 1 .. n
  BY EmptySeq DEF QueueInv, TypeOK, Pop
<1>2. /\ Len(queue') = n - 1
      /\ \A i \in 1 .. n - 1 : queue'[i] = queue[i + 1]
  BY <1>1, HeadTailProperties DEF Pop
<1>3. delivered' = queue[1] /\ pushed' = pushed
  BY <1>1, HeadTailProperties DEF Pop
<1>4. \A i \in 1 .. n : queue[i] \in UpdateRecords /\ queue[i].content \in Nat
  BY WaitingNewer DEF UpdateRecords
<1>5. \A i \in 1 .. n : i # 1 => queue[1].content < queue[i].content
  BY <1>1 DEF QueueInv, OldestFirst
<1>6. Waiting' = Waiting \ {queue[1].content}
  <2>1. ASSUME NEW m \in Waiting' PROVE m \in Waiting \ {queue[1].content}
    <3>1. PICK i \in 1 .. n - 1 : m = queue[i + 1].content
      BY <1>2, <2>1 DEF Waiting
    <3>2. i + 1 \in 1 .. n /\ i + 1 # 1
      BY <1>1
    <3>3. QED BY <1>1, <1>4, <1>5, <3>1, <3>2 DEF Waiting
  <2>2. ASSUME NEW m \in Waiting \ {queue[1].content} PROVE m \in Waiting'
    <3>1. PICK i \in 1 .. n : m = queue[i].content
      BY DEF Waiting
    <3>2. i - 1 \in 1 .. n - 1 /\ (i - 1) + 1 = i
      BY <1>1, <3>1
    <3>3. QED BY <1>2, <3>1, <3>2 DEF Waiting
  <2>3. QED BY <2>1, <2>2
<1>7. queue[1].content = delivered.content + queue[1].overrides + 1
  BY <1>1 DEF QueueInv, GapsAccounted, Before
<1>8. delivered' = [content |-> queue[1].content,
                    overrides |-> queue[1].content - delivered.content - 1]
  <2>1. queue[1].overrides = queue[1].content - delivered.content - 1
    BY <1>1, <1>4, <1>7 DEF QueueInv, TypeOK, UpdateRecords
  <2>2. QED BY <1>1, <1>3, <1>4, <2>1 DEF UpdateRecords
<1>9. queue[1].content \in Waiting /\ \A m \in Waiting : queue[1].content <= m
  BY <1>1, <1>4, <1>5 DEF Waiting
<1>10. QED BY <1>3, <1>6, <1>8, <1>9 DEF Mailbox!Take, Waiting

\* The queue keeps the promise the mailbox states: whichever policy the link
\* names, a record sees an increasing selection of the updates pushed for it,
\* loses one only to a newer one when the queue is full, and learns how many.
THEOREM QueueIsMailbox == Spec => MailboxSpec
<1>1. Init => Mailbox!Init
  BY EmptySeq DEF Init, Mailbox!Init, NewUpdate
<1>2. QueueInv /\ QueueInv' /\ [Next]_qvars => [Mailbox!Next]_Mailbox!mvars
  BY PushIsMailboxPush, PopIsMailboxTake DEF Next, qvars, Mailbox!Next, Mailbox!mvars
<1>3. QED BY <1>1, <1>2, QueueInvariant, PTL DEF Spec, MailboxSpec, Mailbox!Spec

================================================================================
