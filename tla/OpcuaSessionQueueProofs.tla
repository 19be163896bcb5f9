------------------------ MODULE OpcuaSessionQueueProofs ------------------------
(***************************************************************************)
(* The queues of a session: updates on their way to records and requests   *)
(* on their way to the server, for any number of items and any options.    *)
(* The types of all variables; that a record learns of the loss of its     *)
(* connection after all that came over it; that a value sent on this       *)
(* connection has a request that will write it.                            *)
(***************************************************************************)
EXTENDS OpcuaSessionProofs, SequenceTheorems, FiniteSetTheorems

\* An update as it is queued, and as a push makes it before its losses are forgotten.
Update == [content : Reasons, overrides : {0}]
Counted == [content : Reasons, overrides : Nat]

\* A leaf whose queue keeps to its capacity (`Leaf`'s fields).
BoundedLeaf(l) == l \in Leaves /\ Len(l.updates) <= Capacity

WorkerTypes == /\ wpc \in WorkerStates
               /\ call \in {"none", "initialRead", "read", "write"}
               /\ batch \in Seq(Items) /\ todo \in Seq(Items)
               /\ answer \in {"ok", "failed", "lost"}
               /\ unmonitored \subseteq Monitored
LinkTypes == /\ conn \in Conns /\ closed \in BOOLEAN
             /\ watched \subseteq Monitored
             /\ published \subseteq [conn : Conns, item : Items]
             /\ status \in {"Down", "InitialRead", "Up"}
OrderTypes == /\ control \in Seq({"connect", "disconnect"}) /\ ordersLeft \in 0 .. MaxOrders
              /\ held \in BOOLEAN /\ exit \in BOOLEAN
RequestTypes == /\ commands \in Seq(Requests)
                /\ reads \in Seq(Requests) /\ writes \in Seq(Requests)
                /\ asking \in [Items -> Conns]
LeafTypes == /\ leaf = [i \in Items |-> leaf[i]]
             /\ \A i \in Items : BoundedLeaf(leaf[i])

Types == WorkerTypes /\ LinkTypes /\ OrderTypes /\ RequestTypes /\ LeafTypes

\* The parts are the type invariant.
LEMMA TypesAreTypeOK == Types <=> TypeOK
  BY DEF Types, WorkerTypes, WorkerStates, LinkTypes, OrderTypes, RequestTypes, LeafTypes,
         BoundedLeaf, TypeOK

--------------------------------------------------------------------------------
(***************************************************************************)
(* What a push makes of a record's queue.                                  *)
(***************************************************************************)
\* A queue holds at least one update (`UpdateQueue::new`).
LEMMA RoomForOne == Capacity \in Nat \ {0}
  BY QueueAssumption DEF Capacity

\* Counting a loss changes no content but that of the update taken over.
LEMMA CountedKeeps ==
  ASSUME NEW u \in Counted, NEW v \in Counted, NEW n \in Nat
  PROVE  /\ AbsorbLost(u, n) \in Counted /\ AbsorbLost(u, n).content = u.content
         /\ TakeOverFrom(u, v) \in Counted /\ TakeOverFrom(u, v).content = v.content
  BY DEF AbsorbLost, TakeOverFrom, Counted

\* Whatever the policy gives up, the queue keeps to its capacity and ends with
\* what was pushed (`UpdateQueue::push`).
LEMMA PushEndsWithNew ==
  ASSUME NEW q \in Seq(Counted), Len(q) <= Capacity, NEW u \in Counted
  PROVE  LET r == PushUpdate(q, u)
         IN  /\ r \in Seq(Counted) /\ Len(r) \in 1 .. Capacity
             /\ r[Len(r)].content = u.content
<1> DEFINE r == PushUpdate(q, u)
<1>0. Len(q) \in Nat /\ Capacity \in Nat \ {0}
  BY RoomForOne
<1>1. CASE Len(q) < Capacity
  <2>1. r = Append(q, u)
    BY <1>1 DEF PushUpdate
  <2>2. /\ r \in Seq(Counted) /\ Len(r) = Len(q) + 1 /\ r[Len(q) + 1] = u
    <3> HIDE DEF r
    <3> QED BY <2>1, AppendProperties
  <2> HIDE DEF r
  <2>3. r[Len(r)].content = u.content /\ Len(r) \in 1 .. Capacity
    BY <1>0, <1>1, <2>2
  <2> QED BY <2>2, <2>3 DEF r
<1>2. CASE Len(q) = Capacity /\ ~DiscardOldest
  <2> DEFINE n == Len(q)
             e == TakeOverFrom(q[n], u)
  <2>1. n \in 1 .. Len(q) /\ q[n] \in Counted
    BY <1>0, <1>2, ElementOfSeq
  <2>2. e \in Counted /\ e.content = u.content
    BY <2>1, CountedKeeps
  <2>3. r = [q EXCEPT ![n] = e]
    BY <1>0, <1>2 DEF PushUpdate, PushFull
  <2> HIDE DEF n, e, r
  <2>4. r \in Seq(Counted) /\ Len(r) = Len(q) /\ r[n] = e
    BY <2>1, <2>2, <2>3, ExceptSeq
  <2>5. Len(r) = Len(q) /\ Len(q) = n
    BY <2>4 DEF n
  <2>6. Len(r) \in 1 .. Capacity
    BY <1>0, <1>2, <2>5
  <2>7. r[Len(r)].content = u.content
    BY <2>2, <2>4, <2>5
  <2> QED BY <2>4, <2>6, <2>7 DEF r
<1>3. CASE Len(q) = Capacity /\ DiscardOldest
  <2> DEFINE lost == q[1].overrides
  <2>1. q[1] \in Counted /\ lost \in Nat
    <3>1. 1 \in 1 .. Len(q)
      BY <1>0, <1>3
    <3>2. q[1] \in Counted
      BY <3>1, ElementOfSeq
    <3> QED BY <3>2 DEF Counted
  <2>2. CASE Len(q) = 1
    <3>1. r = <<AbsorbLost(u, lost)>>
      BY <1>0, <1>3, <2>2 DEF PushUpdate, PushFull
    <3>2. AbsorbLost(u, lost) \in Counted /\ AbsorbLost(u, lost).content = u.content
      BY <2>1, CountedKeeps
    <3> HIDE DEF r, lost
    <3> QED BY <1>0, <3>1, <3>2 DEF r
  <2>3. CASE Len(q) > 1
    <3> DEFINE t == Tail(q)
               e == AbsorbLost(t[1], lost)
               s == [t EXCEPT ![1] = e]
    <3>1. t \in Seq(Counted) /\ Len(t) = Len(q) - 1 /\ 1 \in 1 .. Len(t)
      BY <1>0, <2>3, HeadTailProperties, EmptySeq
    <3>2. t[1] \in Counted /\ e \in Counted
      <4>1. t[1] \in Counted
        BY <3>1, ElementOfSeq
      <4> QED BY <2>1, <4>1, CountedKeeps
    <3>3. r = Append(s, u)
      BY <1>0, <1>3, <2>3 DEF PushUpdate, PushFull
    <3> HIDE DEF t, e
    <3>4. s \in Seq(Counted) /\ Len(s) = Len(t)
      BY <3>1, <3>2, ExceptSeq
    <3> HIDE DEF s, r
    <3>5. r \in Seq(Counted) /\ Len(r) = Len(s) + 1 /\ r[Len(s) + 1] = u
      BY <3>3, <3>4, AppendProperties
    <3>6. Len(r) = Len(q)
      BY <1>0, <3>1, <3>4, <3>5
    <3>7. Len(r) \in 1 .. Capacity /\ r[Len(r)] = u
      BY <1>0, <1>3, <3>5, <3>6
    <3> QED BY <3>5, <3>7 DEF r
  <2>4. Len(q) = 1 \/ Len(q) > 1
    BY <1>0, <1>3
  <2> HIDE DEF r
  <2> QED BY <2>2, <2>3, <2>4
<1> QED BY <1>0, <1>1, <1>2, <1>3

\* What is queued ends with the new reason, within the capacity (`Leaf::push`).
LEMMA QueuedEndsWithNew ==
  ASSUME NEW l, BoundedLeaf(l), NEW reason \in Reasons
  PROVE  /\ BoundedLeaf(Queued(l, reason))
         /\ Queued(l, reason).updates # <<>>
         /\ Last(Queued(l, reason).updates).content = reason
<1> DEFINE q == l.updates
           r == PushUpdate(q, NewUpdate(reason))
           f == Forget(r)
<1>1. q \in Seq(Counted) /\ Len(q) <= Capacity /\ l \in Leaves
  <2>1. q \in Seq(Update) /\ Update \subseteq Counted
    BY DEF BoundedLeaf, Leaves, Update, Counted
  <2> QED BY <2>1, SeqMonotonic DEF BoundedLeaf
<1>2. NewUpdate(reason) \in Counted /\ NewUpdate(reason).content = reason
  BY DEF NewUpdate, Counted
<1>3. r \in Seq(Counted) /\ Len(r) \in 1 .. Capacity /\ r[Len(r)].content = reason
  BY <1>1, <1>2, PushEndsWithNew
<1>4. f \in Seq(Update) /\ Len(f) = Len(r) /\ f[Len(r)].content = reason
  <2> HIDE DEF r
  <2>1. Len(r) \in Nat /\ DOMAIN r = 1 .. Len(r) /\ Len(r) \in 1 .. Len(r)
    BY <1>3
  <2>2. \A k \in 1 .. Len(r) : NewUpdate(r[k].content) \in Update
    <3>1. \A k \in 1 .. Len(r) : r[k] \in Counted
      BY <1>3, ElementOfSeq
    <3> QED BY <3>1 DEF NewUpdate, Counted, Update
  <2>3. f = [k \in 1 .. Len(r) |-> NewUpdate(r[k].content)]
    BY <2>1 DEF Forget
  <2>4. f \in [1 .. Len(r) -> Update] /\ f[Len(r)] = NewUpdate(r[Len(r)].content)
    BY <2>1, <2>2, <2>3
  <2>5. f \in Seq(Update)
    BY <2>1, <2>4, SeqDef
  <2>6. Len(f) = Len(r)
    BY <2>1, <2>4, <2>5, LenProperties
  <2>7. f[Len(r)].content = reason
    BY <1>3, <2>4 DEF NewUpdate
  <2> HIDE DEF f
  <2> QED BY <2>5, <2>6, <2>7
<1>5. Queued(l, reason) = [l EXCEPT !.updates = f]
  BY DEF Queued
<1> HIDE DEF f, r
<1>6. Queued(l, reason) \in Leaves /\ Queued(l, reason).updates = f
  BY <1>1, <1>4, <1>5 DEF Leaves, Update
<1>7. Len(f) \in Nat \ {0} /\ f # <<>>
  BY <1>3, <1>4
<1>8. Last(f).content = reason
  BY <1>3, <1>4 DEF Last
<1>9. Len(f) <= Capacity
  BY <1>3, <1>4
<1> QED BY <1>6, <1>7, <1>8, <1>9 DEF BoundedLeaf

\* A field that is set keeps the leaf's type.
LEMMA FieldKeepsLeaf ==
  ASSUME NEW l, BoundedLeaf(l)
  PROVE  /\ \A s \in {"Down", "InitialRead", "InitialWrite", "Up"} :
              BoundedLeaf([l EXCEPT !.state = s])
         /\ \A t \in BOOLEAN : BoundedLeaf([l EXCEPT !.typed = t])
         /\ \A d \in Conns : BoundedLeaf([l EXCEPT !.dirty = d])
  BY DEF BoundedLeaf, Leaves

\* `Item::set_incoming_data` keeps the leaf's type.
LEMMA DataKeepsType ==
  ASSUME NEW i \in Items, NEW l, BoundedLeaf(l)
  PROVE  BoundedLeaf(IncomingData(i, l))
<1> DEFINE typed == [l EXCEPT !.typed = TRUE]
           up == [typed EXCEPT !.state = "Up"]
           writing == [typed EXCEPT !.state = "InitialWrite"]
<1>1. BoundedLeaf(typed)
  BY FieldKeepsLeaf
<1>2. BoundedLeaf(up) /\ BoundedLeaf(writing)
  BY <1>1, FieldKeepsLeaf
<1>3. IncomingData(i, l) \in {Queued(typed, "data"), Queued(up, "data"), up,
                              Queued(writing, "writeRequest")}
  <2>1. Bini[i] \in {"read", "ignore", "write"}
    BY SessionAssumption
  <2> QED BY <2>1 DEF IncomingData
<1> HIDE DEF typed, up, writing
<1>4. "data" \in Reasons /\ "writeRequest" \in Reasons
  BY DEF Reasons
<1>5. /\ BoundedLeaf(Queued(typed, "data")) /\ BoundedLeaf(Queued(up, "data"))
      /\ BoundedLeaf(Queued(writing, "writeRequest"))
  BY <1>1, <1>2, <1>4, QueuedEndsWithNew
<1> QED BY <1>2, <1>3, <1>5

\* `Item::set_incoming_event` keeps the leaf's type, and its reason comes last.
LEMMA EventKeepsType ==
  ASSUME NEW l, BoundedLeaf(l), NEW reason \in Reasons
  PROVE  /\ BoundedLeaf(IncomingEvent(l, reason))
         /\ IncomingEvent(l, reason).updates # <<>>
         /\ Last(IncomingEvent(l, reason).updates).content = reason
<1> DEFINE down == [l EXCEPT !.state = "Down"]
           lost == [down EXCEPT !.typed = FALSE]
<1>1. BoundedLeaf(down)
  BY FieldKeepsLeaf
<1>2. BoundedLeaf(lost)
  BY <1>1, FieldKeepsLeaf
<1>3. IncomingEvent(l, reason) = Queued(IF reason = "loss" THEN lost ELSE l, reason)
  BY DEF IncomingEvent
<1> HIDE DEF lost
<1> QED BY <1>2, <1>3, QueuedEndsWithNew
--------------------------------------------------------------------------------
(***************************************************************************)
(* Types.                                                                  *)
(***************************************************************************)
\* The bounds are numbers and the options of the items what they may be.
LEMMA Constants ==
  /\ ItemCount \in Nat \ {0} /\ ReadLimit \in Nat \ {0} /\ WriteLimit \in Nat \ {0}
  /\ MaxConnections \in Nat /\ MaxOrders \in Nat
  /\ Monitored \subseteq Items
  BY SessionAssumption DEF SessionAssumption

\* What a service call takes from a queue and what it leaves, in order
\* (`take_batch`).
LEMMA TakenAndLeft ==
  ASSUME NEW S, NEW q \in Seq(S), NEW limit \in Nat \ {0}
  PROVE  /\ Taken(q, limit) \in Seq(S) /\ Left(q, limit) \in Seq(S)
         /\ \A k \in 1 .. Len(q) :
              \/ \E j \in 1 .. Len(Taken(q, limit)) : Taken(q, limit)[j] = q[k]
              \/ \E j \in 1 .. Len(Left(q, limit)) : Left(q, limit)[j] = q[k]
<1> DEFINE n == IF limit < Len(q) THEN limit ELSE Len(q)
<1>1. n \in 0 .. Len(q) /\ Len(q) \in Nat
  OBVIOUS
<1>2. Taken(q, limit) = SubSeq(q, 1, n)
  BY DEF Taken
<1> HIDE DEF n
<1>3. /\ SubSeq(q, 1, n) \in Seq(S) /\ Len(SubSeq(q, 1, n)) = n
      /\ \A j \in 1 .. n : SubSeq(q, 1, n)[j] = q[j]
  <2>1. \A j \in 1 .. n : q[j] \in S
    BY <1>1, ElementOfSeq
  <2> QED BY <1>1, <2>1
<1>4. Left(q, limit) = SubSeq(q, n + 1, Len(q))
  BY <1>2, <1>3 DEF Left
<1>5. /\ SubSeq(q, n + 1, Len(q)) \in Seq(S)
      /\ Len(SubSeq(q, n + 1, Len(q))) = Len(q) - n
      /\ \A j \in 1 .. Len(q) - n : SubSeq(q, n + 1, Len(q))[j] = q[n + j]
  <2>1. \A j \in n + 1 .. Len(q) : q[j] \in S
    BY <1>1, ElementOfSeq
  <2> QED BY <1>1, <2>1
<1>6. ASSUME NEW k \in 1 .. Len(q)
      PROVE  \/ \E j \in 1 .. n : SubSeq(q, 1, n)[j] = q[k]
             \/ \E j \in 1 .. Len(q) - n : SubSeq(q, n + 1, Len(q))[j] = q[k]
  <2>1. CASE k <= n
    BY <1>1, <1>3, <2>1
  <2>2. CASE ~(k <= n)
    <3>1. k - n \in 1 .. Len(q) - n /\ n + (k - n) = k
      BY <1>1, <2>2
    <3> QED BY <1>5, <3>1
  <2> QED BY <2>1, <2>2
<1> QED BY <1>2, <1>3, <1>4, <1>5, <1>6

\* Items written together make a batch.
LEMMA BatchOfSet ==
  ASSUME NEW S \in SUBSET Items
  PROVE  SetToSeq(S) \in Seq(Items)
<1>1. IsFiniteSet(S)
  <2>1. IsFiniteSet(Items)
    BY Constants, FS_Interval DEF Items
  <2> QED BY <2>1, FS_Subset
<1> DEFINE n == Cardinality(S)
<1>2. n \in Nat /\ ExistsBijection(1 .. n, S)
  BY <1>1, FS_CardinalityType
<1>3. \E f \in [1 .. n -> S] : IsInjective(f)
  BY <1>2 DEF ExistsBijection, Bijection, Injection
<1>4. SetToSeq(S) \in [1 .. n -> S]
  BY <1>3 DEF SetToSeq
<1> HIDE DEF n
<1>5. SetToSeq(S) \in [1 .. n -> Items]
  BY <1>4
<1> QED BY <1>2, <1>5, SeqDef

\* The items of requests.
LEMMA ItemsOfRequests ==
  ASSUME NEW q \in Seq(Requests)
  PROVE  ItemsOf(q) \in Seq(Items)
<1>1. \A k \in 1 .. Len(q) : q[k].item \in Items
  <2>1. \A k \in 1 .. Len(q) : q[k] \in Requests
    BY ElementOfSeq
  <2> QED BY <2>1 DEF Requests
<1>2. ItemsOf(q) \in [1 .. Len(q) -> Items] /\ Len(q) \in Nat
  BY <1>1, LenProperties DEF ItemsOf
<1> QED BY <1>2, SeqDef

\* A session starts well-typed.
LEMMA InitTypes == Init => Types
<1> SUFFICES ASSUME Init PROVE Types
  OBVIOUS
<1>1. <<>> \in Seq(Items) /\ <<>> \in Seq(Requests)
  OBVIOUS
<1>2. WorkerTypes
  BY <1>1 DEF Init, WorkerTypes, WorkerStates, Unconnected
<1>3. LinkTypes /\ RequestTypes
  <2>1. 0 \in Conns
    BY Constants DEF Conns
  <2> QED BY <1>1, <2>1 DEF Init, LinkTypes, RequestTypes
<1>5. OrderTypes
  <2>1. control \in Seq({"connect", "disconnect"})
    <3>1. <<>> \in Seq({"connect", "disconnect"})
      OBVIOUS
    <3>2. <<"connect">> \in Seq({"connect", "disconnect"})
      OBVIOUS
    <3>3. control = <<>> \/ control = <<"connect">>
      BY DEF Init
    <3> QED BY <3>1, <3>2, <3>3
  <2>2. MaxOrders \in 0 .. MaxOrders
    BY Constants
  <2> QED BY <2>1, <2>2 DEF Init, OrderTypes
<1>4. LeafTypes
  <2>1. <<NewUpdate("loss")>> \in Seq(Update) /\ Len(<<NewUpdate("loss")>>) = 1
    BY DEF NewUpdate, Update, Reasons
  <2>2. BoundedLeaf([state |-> "Down", updates |-> <<NewUpdate("loss")>>, dirty |-> 0,
                     typed |-> FALSE])
    BY <2>1, Constants, RoomForOne DEF BoundedLeaf, Leaves, Update, Conns
  <2> QED BY <2>2 DEF Init, LeafTypes
<1> QED BY <1>2, <1>3, <1>4, <1>5 DEF Types

\* One leaf is replaced by another.
LEMMA OneLeafTyped ==
  ASSUME LeafTypes, NEW i, NEW l, i \in Items => BoundedLeaf(l), leaf' = [leaf EXCEPT ![i] = l]
  PROVE  LeafTypes'
<1>1. leaf' = [j \in Items |-> IF j = i THEN l ELSE leaf[j]]
  BY DEF LeafTypes
<1> QED BY <1>1 DEF LeafTypes

--------------------------------------------------------------------------------
\* The steps that leave the leaves alone keep the types.
LEMMA StillStepTypes == ASSUME Types, StillStep PROVE Types'
<1> USE DEF Types, WorkerTypes, WorkerStates, Unconnected, Closing, LinkTypes, OrderTypes,
            RequestTypes, worker, link, orders, queues, records
<1>0. LeafTypes' /\ \A S : <<>> \in Seq(S)
  BY EmptySeq DEF StillStep, LeafTypes, OrderWhileDown, ExitWhileDown, RetryTimer, SecuritySetUp,
     AttemptFails, Connected, InitialReadGoesOn, ConnectReturns, ServeExit, ServeOrder, ServeClosed,
     ServeRequest, FlushReads, CallAnswered, ServedCall, ServerInactive, Publish,
     ConnectionCloses, GiveOrder, Exit
<1>1. CASE OrderWhileDown \/ ServeOrder
  <2>1. control' \in Seq({"connect", "disconnect"})
    BY <1>1, HeadTailProperties DEF OrderWhileDown, ServeOrder
  <2> QED BY <1>0, <1>1, <2>1 DEF OrderWhileDown, ServeOrder
<1>2. CASE ExitWhileDown
  BY <1>0, <1>2 DEF ExitWhileDown, Return
<1>3. CASE RetryTimer \/ SecuritySetUp \/ AttemptFails \/ ConnectReturns
  BY <1>0, <1>3 DEF RetryTimer, SecuritySetUp, AttemptFails, ConnectReturns
<1>4. CASE Connected
  <2>1. conn' \in Conns
    BY <1>4, Constants DEF Connected, Conns
  <2> QED BY <1>0, <1>4, <2>1 DEF Connected
<1>5. CASE InitialReadGoesOn
  <2>1. batch' \in Seq(Items) /\ todo' \in Seq(Items)
    BY <1>5, Constants, TakenAndLeft DEF InitialReadGoesOn, ReadNextOf
  <2> QED BY <1>0, <1>5, <2>1 DEF InitialReadGoesOn, ReadNextOf
<1>6. CASE ServeExit \/ ServeClosed \/ ServerInactive \/ ServedCall \/ CallAnswered
  BY <1>0, <1>6 DEF ServeExit, ServeClosed, ServerInactive, ServedCall, CallAnswered
<1>7. CASE ServeRequest
  <2>1. commands # <<>> /\ Head(commands) \in Requests /\ Tail(commands) \in Seq(Requests)
    BY <1>7, HeadTailProperties DEF ServeRequest
  <2>2. /\ Append(reads, Head(commands)) \in Seq(Requests)
        /\ Append(writes, Head(commands)) \in Seq(Requests)
    BY <2>1, AppendProperties
  <2>3. commands' \in Seq(Requests) /\ reads' \in Seq(Requests) /\ writes' \in Seq(Requests)
    BY <1>7, <2>1, <2>2 DEF ServeRequest
  <2> QED BY <1>0, <1>7, <2>3 DEF ServeRequest
<1>8. CASE FlushReads
  <2>1. Taken(reads, ReadLimit) \in Seq(Requests) /\ Left(reads, ReadLimit) \in Seq(Requests)
    BY Constants, TakenAndLeft
  <2>2. ItemsOf(Taken(reads, ReadLimit)) \in Seq(Items)
    BY <2>1, ItemsOfRequests
  <2>3. batch' \in Seq(Items) /\ reads' \in Seq(Requests)
    BY <1>8, <2>1, <2>2 DEF FlushReads
  <2> QED BY <1>0, <1>8, <2>3 DEF FlushReads
<1>9. CASE Publish
  <2>1. published' \subseteq [conn : Conns, item : Items]
    BY <1>9, Constants DEF Publish
  <2> QED BY <1>0, <1>9, <2>1 DEF Publish
<1>10. CASE ConnectionCloses \/ Exit
  BY <1>0, <1>10 DEF ConnectionCloses, Exit
<1>11. CASE GiveOrder
  <2>1. ordersLeft' \in 0 .. MaxOrders
    BY <1>11, Constants DEF GiveOrder
  <2>2. control' \in Seq({"connect", "disconnect"})
    BY <1>11, AppendProperties DEF GiveOrder
  <2> QED BY <1>0, <1>11, <2>1, <2>2 DEF GiveOrder
<1> QED BY <1>1, <1>2, <1>3, <1>4, <1>5, <1>6, <1>7, <1>8, <1>9, <1>10, <1>11 DEF StillStep

--------------------------------------------------------------------------------
\* The service call's result of one item keeps the types.
LEMMA DeliverResultTypes == ASSUME Types, DeliverResult PROVE Types'
<1>1. /\ batch # <<>> /\ Head(batch) \in Items /\ Tail(batch) \in Seq(Items)
  BY HeadTailProperties DEF Types, WorkerTypes, DeliverResult
<1> DEFINE i == Head(batch)
           success == IF call = "write" THEN IncomingEvent(leaf[i], "written")
                                        ELSE IncomingData(i, leaf[i])
<1>2. \/ leaf' = [leaf EXCEPT ![i] = success]
      \/ leaf' = [leaf EXCEPT ![i] = IncomingEvent(leaf[i], "failure")]
  BY DEF DeliverResult
<1>3. BoundedLeaf(leaf[i])
  BY <1>1 DEF Types, LeafTypes
<1>4. BoundedLeaf(success) /\ BoundedLeaf(IncomingEvent(leaf[i], "failure"))
  <2>1. "written" \in Reasons /\ "failure" \in Reasons
    BY DEF Reasons
  <2> HIDE DEF i
  <2>2. i \in Items
    BY <1>1 DEF i
  <2> QED BY <1>3, <2>1, <2>2, DataKeepsType, EventKeepsType
<1> HIDE DEF i, success
<1>5. LeafTypes'
  BY <1>2, <1>4, OneLeafTyped DEF Types
<1> QED BY <1>1, <1>5 DEF Types, DeliverResult, WorkerTypes, LinkTypes, OrderTypes, RequestTypes,
                          link, orders, queues

\* Writing what records gave keeps the types.
LEMMA FlushWritesTypes == ASSUME Types, FlushWrites PROVE Types'
<1> DEFINE taken == ToSet(ItemsOf(Taken(writes, WriteLimit)))
           written == {i \in taken : leaf[i].dirty # 0}
<1>1. /\ Taken(writes, WriteLimit) \in Seq(Requests)
      /\ Left(writes, WriteLimit) \in Seq(Requests)
  BY Constants, TakenAndLeft DEF Types, RequestTypes
<1>2. written \in SUBSET Items
  <2>1. ItemsOf(Taken(writes, WriteLimit)) \in Seq(Items)
    BY <1>1, ItemsOfRequests
  <2>2. taken \subseteq Items
    BY <2>1, ElementOfSeq DEF ToSet
  <2> QED BY <2>2
<1>3. SetToSeq(written) \in Seq(Items)
  BY <1>2, BatchOfSet
<1>4. /\ leaf' = [i \in Items |-> IF i \in taken THEN [leaf[i] EXCEPT !.dirty = 0] ELSE leaf[i]]
      /\ \/ UNCHANGED <<wpc, call, batch>>
         \/ wpc' = "calling" /\ call' = "write" /\ batch' = SetToSeq(written)
      /\ writes' = Left(writes, WriteLimit)
  BY DEF FlushWrites
<1> HIDE DEF taken, written
<1>5. LeafTypes'
  <2>1. 0 \in Conns
    BY Constants DEF Conns
  <2>2. \A i \in Items : BoundedLeaf([leaf[i] EXCEPT !.dirty = 0])
    BY <2>1, FieldKeepsLeaf DEF Types, LeafTypes
  <2>3. \A i \in Items : BoundedLeaf(leaf'[i])
    BY <1>4, <2>2 DEF Types, LeafTypes
  <2> QED BY <1>4, <2>3 DEF LeafTypes
<1>6. WorkerTypes'
  BY <1>3, <1>4 DEF Types, WorkerTypes, WorkerStates, FlushWrites
<1> QED BY <1>1, <1>4, <1>5, <1>6 DEF Types, FlushWrites, LinkTypes, OrderTypes, RequestTypes,
                                     link, orders

\* A record's pass keeps the types.
LEMMA RecordTypes == ASSUME Types, Record PROVE Types'
<1>1. PICK i \in Items : Process(i) \/ TakeUpdate(i) \/ Ask(i)
  BY DEF Record
<1>2. BoundedLeaf(leaf[i]) /\ conn \in Conns /\ 0 \in Conns /\ asking \in [Items -> Conns]
  BY Constants DEF Types, LeafTypes, LinkTypes, RequestTypes, Conns
<1>3. asking' \in [Items -> Conns]
  BY <1>1, <1>2 DEF Process, TakeUpdate, Ask
<1>4. commands' \in Seq(Requests) /\ reads' \in Seq(Requests) /\ writes' \in Seq(Requests)
  <2>1. ASSUME NEW k \in {"read", "write"}
        PROVE  Append(commands, [item |-> i, kind |-> k, conn |-> asking[i]]) \in Seq(Requests)
    BY <1>2, AppendProperties DEF Types, RequestTypes, Requests
  <2> QED BY <1>1, <2>1 DEF Types, RequestTypes, Process, TakeUpdate, Ask, queues
<1>5. LeafTypes'
  <2>1. CASE Process(i)
    BY <2>1 DEF Process, Types, LeafTypes
  <2>2. CASE TakeUpdate(i)
    <3> DEFINE l == [leaf[i] EXCEPT !.updates = Tail(leaf[i].updates)]
    <3>1. leaf' = [leaf EXCEPT ![i] = l] /\ leaf[i].updates # <<>>
      BY <2>2 DEF TakeUpdate
    <3>2. leaf[i].updates \in Seq(Update) /\ Len(leaf[i].updates) <= Capacity
      BY <1>2 DEF BoundedLeaf, Leaves, Update
    <3>3. Tail(leaf[i].updates) \in Seq(Update) /\ Len(Tail(leaf[i].updates)) <= Capacity
      BY <3>1, <3>2, RoomForOne, HeadTailProperties, EmptySeq
    <3>4. BoundedLeaf(l)
      BY <1>2, <3>3 DEF BoundedLeaf, Leaves, Update
    <3> HIDE DEF l
    <3> QED BY <3>1, <3>4, OneLeafTyped DEF Types
  <2>3. CASE Ask(i)
    <3>1. BoundedLeaf([leaf[i] EXCEPT !.dirty = asking[i]])
      BY <1>2, FieldKeepsLeaf
    <3>2. \/ leaf' = leaf
          \/ leaf' = [leaf EXCEPT ![i] = [leaf[i] EXCEPT !.dirty = asking[i]]]
      BY <2>3 DEF Ask
    <3>3. CASE leaf' = leaf
      BY <3>3 DEF Types, LeafTypes
    <3>4. CASE leaf' = [leaf EXCEPT ![i] = [leaf[i] EXCEPT !.dirty = asking[i]]]
      BY <3>1, <3>4, OneLeafTyped DEF Types
    <3> QED BY <3>2, <3>3, <3>4
  <2> QED BY <1>1, <2>1, <2>2, <2>3
<1>6. UNCHANGED <<worker, link, orders>> /\ status' = status
  BY <1>1 DEF Process, TakeUpdate, Ask
<1> QED BY <1>3, <1>4, <1>5, <1>6 DEF Types, WorkerTypes, LinkTypes, OrderTypes, RequestTypes,
                                     worker, link, orders

\* A delivered notification keeps the types.
LEMMA DispatchTypes == ASSUME Types, Dispatch PROVE Types'
<1>1. PICK n \in published :
        /\ published' = published \ {n}
        /\ leaf' = [leaf EXCEPT ![n.item] = IncomingData(n.item, leaf[n.item])]
  BY DEF Dispatch
<1>2. n.item \in Items
  BY DEF Types, LinkTypes
<1>3. BoundedLeaf(IncomingData(n.item, leaf[n.item]))
  BY <1>2, DataKeepsType DEF Types, LeafTypes
<1>4. LeafTypes'
  BY <1>1, <1>3, OneLeafTyped DEF Types
<1> QED BY <1>1, <1>4 DEF Types, Dispatch, WorkerTypes, LinkTypes, OrderTypes, RequestTypes,
                          worker, orders, queues

--------------------------------------------------------------------------------
\* The steps that take a session into a phase keep the types (`connect`, `disconnect`).
LEMMA PhaseStepTypes ==
  ASSUME Types, StartInitialRead \/ InitialReadEnds \/ MonitorItem \/ Disconnected
  PROVE  Types'
<1>0. \A i \in Items : BoundedLeaf(leaf[i])
  BY DEF Types, LeafTypes
<1>1. CASE StartInitialRead
  <2>1. LeafTypes'
    <3>1. leaf' = [i \in Items |-> [leaf[i] EXCEPT !.state = "InitialRead"]]
      BY <1>1 DEF StartInitialRead, InState
    <3>2. \A i \in Items : BoundedLeaf([leaf[i] EXCEPT !.state = "InitialRead"])
      BY <1>0, FieldKeepsLeaf
    <3> QED BY <3>1, <3>2 DEF LeafTypes
  <2>2. [k \in Items |-> k] \in Seq(Items)
    <3>1. [k \in Items |-> k] \in [1 .. ItemCount -> Items] /\ ItemCount \in Nat
      BY Constants DEF Items
    <3> QED BY <3>1, SeqDef
  <2>3. batch' \in Seq(Items) /\ todo' \in Seq(Items)
    <3>1. /\ Taken([k \in Items |-> k], ReadLimit) \in Seq(Items)
          /\ Left([k \in Items |-> k], ReadLimit) \in Seq(Items)
      BY <2>2, Constants, TakenAndLeft
    <3> QED BY <1>1, <3>1 DEF StartInitialRead, ReadNextOf
  <2>4. wpc' = "calling" /\ call' = "initialRead" /\ status' = "InitialRead"
    BY <1>1 DEF StartInitialRead, ReadNextOf
  <2>5. UNCHANGED <<answer, unmonitored, link, orders, queues, asking>>
    BY <1>1 DEF StartInitialRead
  <2> QED BY <2>1, <2>3, <2>4, <2>5 DEF Types, WorkerTypes, WorkerStates, LinkTypes, OrderTypes,
                                       RequestTypes, link, orders, queues
<1>2. CASE InitialReadEnds
  <2>1. LeafTypes'
    <3>1. leaf' = [i \in Items |-> [leaf[i] EXCEPT !.state = "Up"]]
      BY <1>2 DEF InitialReadEnds, InState
    <3>2. \A i \in Items : BoundedLeaf([leaf[i] EXCEPT !.state = "Up"])
      BY <1>0, FieldKeepsLeaf
    <3> QED BY <3>1, <3>2 DEF LeafTypes
  <2> QED BY <1>2, <2>1 DEF Types, InitialReadEnds, WorkerTypes, WorkerStates, LinkTypes, OrderTypes,
                            RequestTypes, link, orders, queues
<1>3. CASE MonitorItem
  <2>1. PICK i \in unmonitored :
          /\ unmonitored' = unmonitored \ {i}
          /\ \/ watched' = watched \cup {i} /\ UNCHANGED leaf
             \/ leaf' = [leaf EXCEPT ![i] = IncomingEvent(leaf[i], "loss")] /\ UNCHANGED watched
    BY <1>3 DEF MonitorItem
  <2>2. i \in Monitored /\ i \in Items /\ "loss" \in Reasons
    BY Constants DEF Types, WorkerTypes, Reasons
  <2>3. BoundedLeaf(IncomingEvent(leaf[i], "loss"))
    BY <1>0, <2>2, EventKeepsType
  <2>4. LeafTypes'
    <3>1. CASE UNCHANGED leaf
      BY <3>1 DEF Types, LeafTypes
    <3>2. CASE leaf' = [leaf EXCEPT ![i] = IncomingEvent(leaf[i], "loss")]
      BY <2>3, <3>2, OneLeafTyped DEF Types
    <3> QED BY <2>1, <3>1, <3>2
  <2>5. unmonitored' \subseteq Monitored /\ watched' \subseteq Monitored
    BY <2>1, <2>2 DEF Types, WorkerTypes, LinkTypes
  <2> QED BY <1>3, <2>4, <2>5 DEF Types, MonitorItem, WorkerTypes, LinkTypes, OrderTypes,
                                  RequestTypes, orders, queues
<1>4. CASE Disconnected
  <2>1. LeafTypes'
    <3>1. leaf' = [i \in Items |-> IncomingEvent(leaf[i], "loss")] /\ "loss" \in Reasons
      BY <1>4 DEF Disconnected, MarkConnectionLoss, Reasons
    <3>2. \A i \in Items : BoundedLeaf(IncomingEvent(leaf[i], "loss"))
      BY <1>0, <3>1, EventKeepsType
    <3> QED BY <3>1, <3>2 DEF LeafTypes
  <2>2. /\ reads' = <<>> /\ writes' = <<>> /\ commands' \in {<<>>, commands}
        /\ control' \in {<<>>, control}
    BY <1>4 DEF Disconnected, MarkConnectionLoss, Return
  <2>3. <<>> \in Seq(Requests) /\ <<>> \in Seq({"connect", "disconnect"})
    OBVIOUS
  <2>4. RequestTypes'
    BY <1>4, <2>2, <2>3 DEF Types, RequestTypes, Disconnected
  <2>5. OrderTypes'
    BY <1>4, <2>2, <2>3 DEF Types, OrderTypes, Disconnected, Return
  <2>6. WorkerTypes' /\ LinkTypes'
    BY <1>4 DEF Types, WorkerTypes, WorkerStates, Unconnected, LinkTypes, Disconnected, Return
  <2> QED BY <2>1, <2>4, <2>5, <2>6 DEF Types
<1> QED BY <1>1, <1>2, <1>3, <1>4

\* No step takes a variable out of its type.
LEMMA NextTypes == Types /\ [Next]_vars => Types'
<1> SUFFICES ASSUME Types, [Next]_vars PROVE Types'
  OBVIOUS
<1>1. CASE StillStep
  BY <1>1, StillStepTypes
<1>2. CASE LeafStep
  BY <1>2, FlushWritesTypes, DeliverResultTypes, RecordTypes, DispatchTypes DEF LeafStep
<1>3. CASE StartInitialRead \/ InitialReadEnds \/ MonitorItem \/ Disconnected
  BY <1>3, PhaseStepTypes
<1>4. CASE UNCHANGED vars
  BY <1>4 DEF vars, worker, link, orders, queues, records, Types, WorkerTypes, LinkTypes,
              OrderTypes, RequestTypes, LeafTypes
<1> QED BY <1>1, <1>2, <1>3, <1>4, StepCases

\* Whatever happens to a session its fields have their types, and no record's
\* queue goes beyond its capacity (`session.rs`, `item.rs`).
LEMMA AlwaysTyped == Spec => []Types
  BY InitTypes, NextTypes, PTL DEF Spec

\* Every variable has its type in every state of a session, for any number of
\* items, options and limits.
THEOREM SessionTypeCorrect == Spec => []TypeOK
<1>1. Types => TypeOK
  BY TypesAreTypeOK
<1> QED BY <1>1, AlwaysTyped, PTL
--------------------------------------------------------------------------------
(***************************************************************************)
(* The last a record hears of a connection is its loss.                    *)
(***************************************************************************)
\* Only items with a monitored item have values published for them.
PublishedAreMonitored == \A n \in published : n.item \in Monitored

LossInv == PublishedAreMonitored /\ LossEndsConnection

\* What a session is known to do: the phases, the types.
Known == SessionInv /\ Types

\* A call is under way, and a session served, only while it is not Down.
LEMMA CallsAreUp ==
  ASSUME SessionInv, wpc \in {"delivering", "serve", "monitor"}
  PROVE  status # "Down"
  BY DEF SessionInv, ReadingInv, UpInv, IsReading, IsUp

\* A new session has told its records of the loss of the last connection.
LEMMA InitLoss == Init => LossInv
<1> SUFFICES ASSUME Init PROVE LossInv
  OBVIOUS
<1>1. Last(<<NewUpdate("loss")>>).content = "loss"
  BY DEF Last, NewUpdate
<1>2. \A i \in Items : leaf[i].updates = <<NewUpdate("loss")>>
  BY DEF Init
<1> QED BY <1>1, <1>2 DEF Init, LossInv, PublishedAreMonitored, LossEndsConnection, LossIsLastFor

\* What is behind the update a record takes stays last (`UpdateQueue::pop`).
LEMMA TailKeepsLast ==
  ASSUME NEW q \in Seq(Update), q # <<>>, Tail(q) # <<>>
  PROVE  Last(Tail(q)) = Last(q)
<1>1. Len(q) \in Nat \ {0} /\ Len(Tail(q)) = Len(q) - 1 /\ Tail(q) \in Seq(Update)
  BY HeadTailProperties, EmptySeq
<1>2. Len(Tail(q)) \in Nat \ {0}
  BY <1>1, EmptySeq
<1>3. Tail(q)[Len(q) - 1] = q[Len(q)]
  BY <1>1, <1>2
<1> QED BY <1>1, <1>3 DEF Last

\* No step puts anything behind the loss of a connection that is down.
LEMMA NextLoss == Known /\ LossInv /\ [Next]_vars => LossInv'
<1> SUFFICES ASSUME Known, LossInv, [Next]_vars PROVE LossInv'
  OBVIOUS
<1>0. /\ Monitored \subseteq Items /\ watched \subseteq Monitored
      /\ \A i \in Items : BoundedLeaf(leaf[i])
      /\ leaf = [i \in Items |-> leaf[i]]
  BY Constants DEF Known, Types, LinkTypes, LeafTypes
<1>1. PublishedAreMonitored'
  <2>1. published' \subseteq published
          \/ \E i \in watched : published' = published \cup {[conn |-> conn, item |-> i]}
    BY StepCases DEF StillStep, LeafStep, vars, OrderWhileDown, ExitWhileDown, RetryTimer,
       SecuritySetUp, AttemptFails, Connected, InitialReadGoesOn, ConnectReturns, ServeExit,
       ServeOrder, ServeClosed, ServeRequest, FlushReads, CallAnswered, ServedCall,
       ServerInactive, Publish, ConnectionCloses, GiveOrder, Exit, FlushWrites, DeliverResult,
       Record, Process, TakeUpdate, Ask, Dispatch, StartInitialRead, InitialReadEnds,
       MonitorItem, Disconnected, link, orders, worker, queues, records
  <2> QED BY <1>0, <2>1 DEF LossInv, PublishedAreMonitored
<1>2. LossEndsConnection'
  <2>1. CASE StillStep \/ UNCHANGED vars
    <3>1. UNCHANGED <<leaf, status>>
      BY <2>1, StillStepSamePhase DEF Known, SamePhase, vars, records
    <3> QED BY <3>1 DEF LossInv, LossEndsConnection, LossIsLastFor
  <2>2. CASE FlushWrites \/ DeliverResult \/ MonitorItem
    <3>1. status' = status /\ status # "Down"
      BY <2>2, CallsAreUp DEF Known, FlushWrites, RequestsTaken, NothingOrdered, DeliverResult,
                              MonitorItem
    <3> QED BY <3>1 DEF LossEndsConnection
  <2>3. CASE StartInitialRead \/ InitialReadEnds
    BY <2>3 DEF StartInitialRead, InitialReadEnds, LossEndsConnection
  <2>4. CASE Disconnected
    <3>1. leaf' = [i \in Items |-> IncomingEvent(leaf[i], "loss")] /\ "loss" \in Reasons
      BY <2>4 DEF Disconnected, MarkConnectionLoss, Reasons
    <3>2. \A i \in Items : Last(IncomingEvent(leaf[i], "loss").updates).content = "loss"
      BY <1>0, <3>1, EventKeepsType
    <3> QED BY <3>1, <3>2 DEF LossEndsConnection, LossIsLastFor
  <2>5. CASE Dispatch
    <3>1. PICK n \in published : leaf' = [leaf EXCEPT ![n.item] = IncomingData(n.item, leaf[n.item])]
      BY <2>5 DEF Dispatch
    <3>2. n.item \in Monitored /\ status' = status
      BY <2>5 DEF LossInv, PublishedAreMonitored, Dispatch
    <3>3. \A i \in Items \ Monitored : leaf'[i] = leaf[i]
      BY <1>0, <3>1, <3>2
    <3> QED BY <3>2, <3>3 DEF LossInv, LossEndsConnection, LossIsLastFor
  <2>6. CASE Record
    <3>1. PICK i \in Items : Process(i) \/ TakeUpdate(i) \/ Ask(i)
      BY <2>6 DEF Record
    <3>2. status' = status
      BY <3>1 DEF Process, TakeUpdate, Ask
    <3>3. ASSUME NEW j \in Items, LossIsLastFor(j) PROVE LossIsLastFor(j)'
      <4>1. CASE Process(i)
        BY <3>3, <4>1 DEF Process, LossIsLastFor
      <4>2. CASE Ask(i)
        <5>1. leaf'[j].updates = leaf[j].updates
          <6>1. \/ leaf' = leaf
                \/ leaf' = [leaf EXCEPT ![i] = [leaf[i] EXCEPT !.dirty = asking[i]]]
            BY <4>2 DEF Ask
          <6>2. leaf[i] \in Leaves
            BY <1>0 DEF BoundedLeaf
          <6>3. [leaf[i] EXCEPT !.dirty = asking[i]].updates = leaf[i].updates
            BY <6>2 DEF Leaves
          <6> QED BY <1>0, <6>1, <6>3
        <5> QED BY <3>3, <5>1 DEF LossIsLastFor
      <4>3. CASE TakeUpdate(i)
        <5> DEFINE q == leaf[i].updates
        <5>1. q \in Seq(Update) /\ q # <<>> /\ leaf[i] \in Leaves
          BY <1>0, <4>3 DEF TakeUpdate, BoundedLeaf, Leaves, Update
        <5>2. leaf'[j].updates = IF j = i THEN Tail(q) ELSE leaf[j].updates
          <6>1. leaf' = [leaf EXCEPT ![i] = [leaf[i] EXCEPT !.updates = Tail(q)]]
            BY <4>3 DEF TakeUpdate
          <6>2. [leaf[i] EXCEPT !.updates = Tail(q)].updates = Tail(q)
            BY <5>1 DEF Leaves
          <6> QED BY <1>0, <6>1, <6>2
        <5>3. j = i /\ Tail(q) # <<>> => Last(Tail(q)) = Last(q)
          BY <5>1, TailKeepsLast
        <5> QED BY <3>3, <5>1, <5>2, <5>3 DEF LossIsLastFor
      <4> QED BY <3>1, <4>1, <4>2, <4>3
    <3> QED BY <3>2, <3>3 DEF LossInv, LossEndsConnection
  <2> QED BY <2>1, <2>2, <2>3, <2>4, <2>5, <2>6, StepCases DEF LeafStep
<1> QED BY <1>1, <1>2 DEF LossInv

\* A record whose item is not monitored learns of the loss of its connection after
\* all that came over it, whatever was queued for it and whichever update the
\* policy gave up (`disconnect`, `mark_connection_loss`, `UpdateQueue::push`).
THEOREM LossComesLast == Spec => []LossEndsConnection
<1>1. LossInv => LossEndsConnection
  BY DEF LossInv
<1>2. Spec => []Known
  BY Phases, AlwaysTyped, PTL DEF Known
<1> QED BY InitLoss, NextLoss, <1>1, <1>2, PTL DEF Spec
--------------------------------------------------------------------------------
(***************************************************************************)
(* A value sent on this connection has a request that will write it.       *)
(***************************************************************************)
\* A write request of the item is queued.
WriteAskedIn(q, i) == \E k \in 1 .. Len(q) : q[k].item = i /\ q[k].kind = "write"
WriteAsked(i) == WriteAskedIn(commands, i) \/ WriteAskedIn(writes, i)

\* What is to be written, and what a record is about to ask, is of this
\* connection or of one before.
NoneOfLater == \A i \in Items : leaf[i].dirty <= conn /\ asking[i] <= conn

AskedFor == wpc \notin Unconnected =>
              \A i \in Items : (leaf[i].dirty = conn /\ conn # 0) => WriteAsked(i)

DirtyInv == NoneOfLater /\ AskedFor

\* What is in the worker's queues.
LEMMA AskedIsQueued == AskedFor <=> DirtyHasRequest
<1>1. \A i : WriteAsked(i) <=> \E r \in ToSet(commands) \cup ToSet(writes) : r.item = i /\ r.kind = "write"
  BY DEF WriteAsked, WriteAskedIn, ToSet
<1> QED BY <1>1 DEF AskedFor, DirtyHasRequest

\* No update changes what a leaf has to write.
LEMMA UpdateKeepsDirty ==
  ASSUME NEW i \in Items, NEW l, BoundedLeaf(l), NEW reason
  PROVE  /\ IncomingData(i, l).dirty = l.dirty
         /\ IncomingEvent(l, reason).dirty = l.dirty
<1> DEFINE typed == [l EXCEPT !.typed = TRUE]
           up == [typed EXCEPT !.state = "Up"]
           writing == [typed EXCEPT !.state = "InitialWrite"]
           lost == [[l EXCEPT !.state = "Down"] EXCEPT !.typed = FALSE]
<1>1. \A m, r : IsLeaf(m) => IsLeaf(Queued(m, r)) /\ Queued(m, r).dirty = m.dirty
  BY LeafExcept DEF Queued, IsLeaf
<1>2. ASSUME NEW m, IsLeaf(m), NEW x
      PROVE  /\ IsLeaf([m EXCEPT !.typed = x]) /\ [m EXCEPT !.typed = x].dirty = m.dirty
             /\ IsLeaf([m EXCEPT !.state = x]) /\ [m EXCEPT !.state = x].dirty = m.dirty
  <2>1. IsLeaf([m EXCEPT !.typed = x]) /\ IsLeaf([m EXCEPT !.state = x])
    BY <1>2, LeafExcept
  <2> QED BY <1>2, <2>1 DEF IsLeaf
<1>3. /\ IsLeaf(l) /\ IsLeaf(typed) /\ typed.dirty = l.dirty /\ IsLeaf(up) /\ up.dirty = l.dirty
      /\ IsLeaf(writing) /\ writing.dirty = l.dirty /\ IsLeaf(lost) /\ lost.dirty = l.dirty
  <2>1. IsLeaf(l)
    BY DEF BoundedLeaf, Leaves, IsLeaf
  <2>2. IsLeaf(typed) /\ typed.dirty = l.dirty
    BY <1>2, <2>1
  <2>3. IsLeaf([l EXCEPT !.state = "Down"]) /\ [l EXCEPT !.state = "Down"].dirty = l.dirty
    BY <1>2, <2>1
  <2>4. IsLeaf(lost) /\ lost.dirty = l.dirty
    BY <1>2, <2>3
  <2> HIDE DEF typed
  <2> QED BY <1>2, <2>1, <2>2, <2>4
<1>4. IncomingData(i, l) \in {Queued(typed, "data"), Queued(up, "data"), up,
                              Queued(writing, "writeRequest")}
  <2>1. Bini[i] \in {"read", "ignore", "write"}
    BY SessionAssumption
  <2> QED BY <2>1 DEF IncomingData
<1>5. IncomingEvent(l, reason) = Queued(lost, reason) \/ IncomingEvent(l, reason) = Queued(l, reason)
  BY DEF IncomingEvent
<1> HIDE DEF typed, up, writing, lost
<1> QED BY <1>1, <1>2, <1>3, <1>4, <1>5

\* Most steps change nothing that a leaf has to write.
SameDirty == \A i \in Items : leaf'[i].dirty = leaf[i].dirty

\* A step that keeps what there is to write and takes no request, and does not
\* make a connection, keeps the invariant.
LEMMA SameDirtyKeepsInv ==
  ASSUME DirtyInv, SameDirty, UNCHANGED <<conn, asking>>,
         wpc' \notin Unconnected => wpc \notin Unconnected,
         \A i \in Items : wpc' \notin Unconnected /\ WriteAsked(i) => WriteAsked(i)'
  PROVE  DirtyInv'
  BY DEF DirtyInv, NoneOfLater, AskedFor, SameDirty

\* A request that is moved to the worker's own queues is still queued (`serve`).
LEMMA MovedIsAsked ==
  ASSUME Types, ServeRequest, NEW i \in Items, WriteAsked(i)
  PROVE  WriteAsked(i)'
<1> DEFINE r == Head(commands)
<1>1. /\ commands # <<>> /\ commands \in Seq(Requests) /\ writes \in Seq(Requests)
      /\ commands' = Tail(commands)
      /\ IF r.kind = "read" THEN writes' = writes ELSE writes' = Append(writes, r)
  BY DEF ServeRequest, Types, RequestTypes
<1>2. /\ Len(commands) \in Nat \ {0} /\ r = commands[1] /\ Tail(commands) \in Seq(Requests)
      /\ Len(Tail(commands)) = Len(commands) - 1
      /\ \A k \in 1 .. Len(Tail(commands)) : Tail(commands)[k] = commands[k + 1]
  BY <1>1, HeadTailProperties, EmptySeq
<1>3. CASE WriteAskedIn(writes, i)
  <2>1. PICK k \in 1 .. Len(writes) : writes[k].item = i /\ writes[k].kind = "write"
    BY <1>3 DEF WriteAskedIn
  <2>2. k \in 1 .. Len(writes') /\ writes'[k] = writes[k]
    <3> HIDE DEF r
    <3>1. CASE writes' = writes
      BY <2>1, <3>1
    <3>2. CASE writes' = Append(writes, r)
      <4>1. r \in Requests
        BY <1>1, <1>2, ElementOfSeq
      <4>2. Len(writes') = Len(writes) + 1 /\ Append(writes, r)[k] = writes[k]
        BY <1>1, <2>1, <3>2, <4>1, AppendProperties
      <4> QED BY <1>1, <2>1, <3>2, <4>2, LenProperties
    <3> QED BY <1>1, <3>1, <3>2
  <2> QED BY <2>1, <2>2 DEF WriteAsked, WriteAskedIn
<1>4. CASE WriteAskedIn(commands, i)
  <2>1. PICK k \in 1 .. Len(commands) : commands[k].item = i /\ commands[k].kind = "write"
    BY <1>4 DEF WriteAskedIn
  <2>2. CASE k = 1
    <3>1. r.item = i /\ r.kind = "write"
      BY <1>2, <2>1, <2>2
    <3> HIDE DEF r
    <3>2. writes' = Append(writes, r)
      BY <1>1, <3>1
    <3>3. Len(writes') = Len(writes) + 1 /\ writes'[Len(writes) + 1] = r
      <4>1. r \in Requests
        BY <1>1, <1>2, ElementOfSeq
      <4> QED BY <1>1, <3>2, <4>1, AppendProperties
    <3>4. Len(writes') \in 1 .. Len(writes')
      BY <1>1, <3>3, LenProperties
    <3> QED BY <3>1, <3>3, <3>4 DEF WriteAsked, WriteAskedIn
  <2>3. CASE k # 1
    <3>1. k - 1 \in 1 .. Len(Tail(commands)) /\ (k - 1) + 1 = k
      BY <1>2, <2>1, <2>3
    <3>2. Tail(commands)[k - 1] = commands[k]
      BY <1>2, <3>1
    <3> QED BY <1>1, <2>1, <3>1, <3>2 DEF WriteAsked, WriteAskedIn
  <2> QED BY <2>2, <2>3
<1> QED BY <1>3, <1>4 DEF WriteAsked

\* The steps that leave the leaves alone.
LEMMA StillStepDirty == ASSUME Known, DirtyInv, StillStep PROVE DirtyInv'
<1>0. UNCHANGED leaf
  BY StillStepSamePhase DEF Known
<1>1. SameDirty
  BY <1>0 DEF SameDirty
<1>2. CASE Connected
  <2>1. conn' = conn + 1 /\ conn \in Nat /\ UNCHANGED asking
    BY <1>2, Constants DEF Connected, records, Known, Types, LinkTypes, Conns
  <2>2. \A i \in Items : leaf[i].dirty \in Nat /\ asking[i] \in Nat
    BY Constants DEF Known, Types, LeafTypes, RequestTypes, BoundedLeaf, Leaves, Conns
  <2>3. \A i \in Items : leaf[i].dirty <= conn /\ asking[i] <= conn
    BY DEF DirtyInv, NoneOfLater
  <2>4. \A i \in Items : leaf[i].dirty < conn' /\ asking[i] <= conn'
    BY <2>1, <2>2, <2>3
  <2>5. \A i \in Items : leaf[i].dirty <= conn' /\ leaf[i].dirty # conn'
    BY <2>1, <2>2, <2>4
  <2> QED BY <1>0, <2>1, <2>4, <2>5 DEF DirtyInv, NoneOfLater, AskedFor
<1>3. CASE ServeRequest
  <2>1. UNCHANGED <<conn, asking, wpc>>
    BY <1>3 DEF ServeRequest, link, records, worker
  <2> QED BY <1>1, <1>3, <2>1, MovedIsAsked, SameDirtyKeepsInv DEF Known
<1>4. CASE ExitWhileDown
  <2>1. UNCHANGED <<conn, asking>> /\ wpc' \in Unconnected
    BY <1>4 DEF ExitWhileDown, Return, link, records, Unconnected
  <2> QED BY <1>1, <2>1, SameDirtyKeepsInv
<1>5. CASE StillStep /\ ~(Connected \/ ServeRequest \/ ExitWhileDown)
  <2>1. UNCHANGED <<conn, asking, commands, writes>>
    BY <1>5 DEF StillStep, OrderWhileDown, RetryTimer, SecuritySetUp, AttemptFails,
       InitialReadGoesOn, ConnectReturns, ServeExit, ServeOrder, ServeClosed, FlushReads,
       CallAnswered, ServedCall, ServerInactive, Publish, ConnectionCloses, GiveOrder, Exit,
       link, records, queues
  <2>2. wpc' \notin Unconnected => wpc \notin Unconnected
    BY <1>5 DEF StillStep, OrderWhileDown, RetryTimer, SecuritySetUp, AttemptFails,
       InitialReadGoesOn, ReadNextOf, ConnectReturns, ServeExit, ServeOrder, ServeClosed,
       FlushReads, CallAnswered, ServedCall, ServerInactive, Publish, ConnectionCloses, GiveOrder,
       Exit, RequestsTaken, NothingOrdered, worker, Unconnected
  <2>3. \A i : WriteAsked(i)' <=> WriteAsked(i)
    BY <2>1 DEF WriteAsked, WriteAskedIn
  <2> QED BY <1>1, <2>1, <2>2, <2>3, SameDirtyKeepsInv
<1> QED BY <1>2, <1>3, <1>4, <1>5

\* What is written together takes its requests with it; a value whose request is
\* left waits with it (`write_chunk`, `take_outgoing`).
LEMMA FlushWritesDirty == ASSUME Known, DirtyInv, FlushWrites PROVE DirtyInv'
<1> DEFINE front == Taken(writes, WriteLimit)
           back == Left(writes, WriteLimit)
           taken == ToSet(ItemsOf(front))
<1>1. /\ front \in Seq(Requests)
      /\ \A k \in 1 .. Len(writes) : \/ \E j \in 1 .. Len(front) : front[j] = writes[k]
                                     \/ \E j \in 1 .. Len(back) : back[j] = writes[k]
  BY Constants, TakenAndLeft DEF Known, Types, RequestTypes
<1>2. /\ leaf' = [i \in Items |-> IF i \in taken THEN [leaf[i] EXCEPT !.dirty = 0] ELSE leaf[i]]
      /\ writes' = back /\ UNCHANGED <<conn, asking, commands>> /\ wpc = "serve"
  BY DEF FlushWrites, link, RequestsTaken, NothingOrdered
<1>3. \A j \in 1 .. Len(front) : front[j].item \in taken
  <2>1. Len(ItemsOf(front)) = Len(front) /\ \A j \in 1 .. Len(front) : ItemsOf(front)[j] = front[j].item
    <3>1. DOMAIN front = 1 .. Len(front) /\ Len(front) \in Nat
      BY <1>1, LenProperties
    <3>2. ItemsOf(front) = [k \in 1 .. Len(front) |-> front[k].item]
      BY <3>1 DEF ItemsOf
    <3>3. ItemsOf(front) \in Seq(Items)
      BY <1>1, ItemsOfRequests
    <3> HIDE DEF front
    <3> QED BY <3>1, <3>2, <3>3, LenProperties
  <2>2. ItemsOf(front) \in Seq(Items)
    BY <1>1, ItemsOfRequests
  <2> HIDE DEF front
  <2> QED BY <1>1, <2>1, <2>2, LenProperties DEF ToSet
<1> HIDE DEF front, back, taken
<1>4. \A i \in Items : leaf'[i].dirty = IF i \in taken THEN 0 ELSE leaf[i].dirty
  <2>1. \A i \in Items : leaf[i] \in Leaves
    BY DEF Known, Types, LeafTypes, BoundedLeaf
  <2>2. \A i \in Items : [leaf[i] EXCEPT !.dirty = 0].dirty = 0
    BY <2>1 DEF Leaves
  <2> QED BY <1>2, <2>2
<1>5. conn \in Nat
  BY Constants DEF Known, Types, LinkTypes, Conns
<1>6. NoneOfLater'
  <2>1. 0 <= conn
    BY <1>5
  <2> QED BY <1>2, <1>4, <2>1 DEF DirtyInv, NoneOfLater
<1>7. ASSUME NEW i \in Items, leaf'[i].dirty = conn', conn' # 0 PROVE WriteAsked(i)'
  <2>1. i \notin taken /\ leaf[i].dirty = conn /\ conn # 0
    BY <1>2, <1>4, <1>7
  <2>2. WriteAsked(i)
    BY <1>2, <2>1 DEF DirtyInv, AskedFor, Unconnected
  <2>3. CASE WriteAskedIn(commands, i)
    BY <1>2, <2>3 DEF WriteAsked, WriteAskedIn
  <2>4. CASE WriteAskedIn(writes, i)
    <3>1. PICK k \in 1 .. Len(writes) : writes[k].item = i /\ writes[k].kind = "write"
      BY <2>4 DEF WriteAskedIn
    <3>2. PICK j \in 1 .. Len(back) : back[j] = writes[k]
      BY <1>1, <1>3, <2>1, <3>1
    <3> QED BY <1>2, <3>1, <3>2 DEF WriteAsked, WriteAskedIn
  <2> QED BY <2>2, <2>3, <2>4 DEF WriteAsked
<1> QED BY <1>6, <1>7 DEF DirtyInv, AskedFor

\* A record asks for what it gives to be written.
LEMMA RecordDirty == ASSUME Known, DirtyInv, Record PROVE DirtyInv'
<1>1. PICK i \in Items : Process(i) \/ TakeUpdate(i) \/ Ask(i)
  BY DEF Record
<1>2. /\ conn \in Conns /\ asking \in [Items -> Conns] /\ commands \in Seq(Requests)
      /\ leaf = [j \in Items |-> leaf[j]] /\ \A j \in Items : leaf[j] \in Leaves
  BY DEF Known, Types, LinkTypes, RequestTypes, LeafTypes, BoundedLeaf
<1>3. UNCHANGED <<conn, wpc, writes>>
  BY <1>1 DEF Process, TakeUpdate, Ask, link, worker, queues
<1>4. \A j \in Items : asking'[j] <= conn
  <2>1. 0 <= conn /\ conn <= conn
    BY <1>2, Constants DEF Conns
  <2>2. \A j \in Items : asking'[j] \in {0, conn, asking[j]}
    BY <1>1, <1>2 DEF Process, TakeUpdate, Ask
  <2> QED BY <2>1, <2>2 DEF DirtyInv, NoneOfLater
<1>5. CASE Process(i) \/ TakeUpdate(i)
  <2>1. SameDirty /\ commands' = commands
    <3>1. CASE Process(i)
      BY <3>1 DEF SameDirty, Process, queues
    <3>2. CASE TakeUpdate(i)
      <4>1. leaf' = [leaf EXCEPT ![i] = [leaf[i] EXCEPT !.updates = Tail(leaf[i].updates)]]
        BY <3>2 DEF TakeUpdate
      <4>2. [leaf[i] EXCEPT !.updates = Tail(leaf[i].updates)].dirty = leaf[i].dirty
        BY <1>2 DEF Leaves
      <4>3. \A j \in Items : leaf'[j].dirty = leaf[j].dirty
        BY <1>2, <4>1, <4>2
      <4> QED BY <3>2, <4>3 DEF SameDirty, TakeUpdate, queues
    <3> QED BY <1>5, <3>1, <3>2
  <2> QED BY <1>3, <1>4, <2>1 DEF DirtyInv, NoneOfLater, AskedFor, SameDirty, WriteAsked,
                                  WriteAskedIn
<1>6. CASE Ask(i)
  <2> DEFINE r == [item |-> i, kind |-> IF i \in Outputs THEN "write" ELSE "read",
                   conn |-> asking[i]]
  <2>1. r \in Requests /\ (i \in Outputs => r.item = i /\ r.kind = "write")
    BY <1>2 DEF Requests
  <2>2. wpc # "stopped" => commands' = Append(commands, r)
    BY <1>6 DEF Ask
  <2> HIDE DEF r
  <2>3. \A j \in Items : leaf'[j].dirty = IF j = i /\ i \in Outputs THEN asking[i] ELSE leaf[j].dirty
    <3>1. CASE i \in Outputs
      <4>1. leaf' = [leaf EXCEPT ![i] = [leaf[i] EXCEPT !.dirty = asking[i]]]
        BY <1>6, <3>1 DEF Ask
      <4>2. [leaf[i] EXCEPT !.dirty = asking[i]].dirty = asking[i]
        BY <1>2 DEF Leaves
      <4>3. leaf'[i] = [leaf[i] EXCEPT !.dirty = asking[i]]
        BY <1>2, <4>1
      <4>4. \A j \in Items : j # i => leaf'[j] = leaf[j]
        BY <1>2, <4>1
      <4> QED BY <3>1, <4>2, <4>3, <4>4
    <3>2. CASE i \notin Outputs
      BY <1>6, <3>2 DEF Ask
    <3> QED BY <3>1, <3>2
  <2>4. NoneOfLater'
    BY <1>3, <1>4, <2>3 DEF DirtyInv, NoneOfLater
  <2>5. ASSUME wpc \notin Unconnected, NEW j \in Items, leaf'[j].dirty = conn, conn # 0
        PROVE  WriteAsked(j)'
    <3>1. /\ commands' = Append(commands, r) /\ Len(commands') = Len(commands) + 1
          /\ commands'[Len(commands) + 1] = r
          /\ \A k \in 1 .. Len(commands) : commands'[k] = commands[k]
          /\ Len(commands) \in Nat
      <4>1. commands' = Append(commands, r)
        BY <2>2, <2>5 DEF Unconnected
      <4> QED BY <1>2, <2>1, <4>1, AppendProperties, LenProperties
    <3>2. CASE j = i /\ i \in Outputs
      BY <2>1, <3>1, <3>2 DEF WriteAsked, WriteAskedIn
    <3>3. CASE ~(j = i /\ i \in Outputs)
      <4>1. WriteAsked(j)
        BY <2>3, <2>5, <3>3 DEF DirtyInv, AskedFor
      <4>2. CASE WriteAskedIn(writes, j)
        BY <1>3, <4>2 DEF WriteAsked, WriteAskedIn
      <4>3. CASE WriteAskedIn(commands, j)
        <5>1. PICK k \in 1 .. Len(commands) : commands[k].item = j /\ commands[k].kind = "write"
          BY <4>3 DEF WriteAskedIn
        <5>2. k \in 1 .. Len(commands') /\ commands'[k] = commands[k]
          BY <3>1, <5>1
        <5> QED BY <5>1, <5>2 DEF WriteAsked, WriteAskedIn
      <4> QED BY <4>1, <4>2, <4>3 DEF WriteAsked
    <3> QED BY <3>2, <3>3
  <2> QED BY <1>3, <2>4, <2>5 DEF DirtyInv, AskedFor
<1> QED BY <1>1, <1>5, <1>6

\* What comes from the server, and the phases, leave alone what is to be written.
LEMMA UpdateStepDirty ==
  ASSUME Known, DirtyInv,
         \/ DeliverResult \/ Dispatch \/ StartInitialRead \/ InitialReadEnds
         \/ MonitorItem \/ Disconnected
  PROVE  DirtyInv'
<1>0. /\ leaf = [i \in Items |-> leaf[i]] /\ \A i \in Items : BoundedLeaf(leaf[i])
      /\ Monitored \subseteq Items
  BY Constants DEF Known, Types, LeafTypes
<1>1. UNCHANGED <<conn, asking>>
  BY DEF DeliverResult, Dispatch, StartInitialRead, InitialReadEnds, MonitorItem, Disconnected,
         link, records
<1>2. \A i \in Items : /\ \A s : [leaf[i] EXCEPT !.state = s].dirty = leaf[i].dirty
                       /\ \A e : IncomingEvent(leaf[i], e).dirty = leaf[i].dirty
                       /\ IncomingData(i, leaf[i]).dirty = leaf[i].dirty
  <2>1. ASSUME NEW i \in Items, NEW s PROVE [leaf[i] EXCEPT !.state = s].dirty = leaf[i].dirty
    BY <1>0 DEF BoundedLeaf, Leaves
  <2> QED BY <1>0, <2>1, UpdateKeepsDirty
<1>3. ASSUME NEW i, NEW l, i \in Items => l.dirty = leaf[i].dirty, leaf' = [leaf EXCEPT ![i] = l]
      PROVE  SameDirty
  <2>1. leaf' = [j \in Items |-> IF j = i THEN l ELSE leaf[j]]
    BY <1>0, <1>3
  <2> QED BY <1>3, <2>1 DEF SameDirty
<1>4. SameDirty
  <2>1. CASE DeliverResult
    <3> DEFINE i == Head(batch)
               success == IF call = "write" THEN IncomingEvent(leaf[i], "written")
                                            ELSE IncomingData(i, leaf[i])
    <3>1. \/ leaf' = [leaf EXCEPT ![i] = success]
          \/ leaf' = [leaf EXCEPT ![i] = IncomingEvent(leaf[i], "failure")]
      BY <2>1 DEF DeliverResult
    <3>2. i \in Items => /\ success.dirty = leaf[i].dirty
                         /\ IncomingEvent(leaf[i], "failure").dirty = leaf[i].dirty
      BY <1>2
    <3> HIDE DEF i, success
    <3> QED BY <1>3, <3>1, <3>2
  <2>2. CASE Dispatch
    <3>1. PICK n \in published : leaf' = [leaf EXCEPT ![n.item] = IncomingData(n.item, leaf[n.item])]
      BY <2>2 DEF Dispatch
    <3> QED BY <1>2, <1>3, <3>1
  <2>3. CASE StartInitialRead \/ InitialReadEnds
    <3>1. PICK s : leaf' = [i \in Items |-> [leaf[i] EXCEPT !.state = s]]
      BY <2>3 DEF StartInitialRead, InitialReadEnds, InState
    <3> QED BY <1>2, <3>1 DEF SameDirty
  <2>4. CASE MonitorItem
    <3>1. PICK i \in unmonitored : \/ UNCHANGED leaf
                                   \/ leaf' = [leaf EXCEPT ![i] = IncomingEvent(leaf[i], "loss")]
      BY <2>4 DEF MonitorItem
    <3>2. CASE UNCHANGED leaf
      BY <3>2 DEF SameDirty
    <3>3. CASE leaf' = [leaf EXCEPT ![i] = IncomingEvent(leaf[i], "loss")]
      BY <1>2, <1>3, <3>3
    <3> QED BY <3>1, <3>2, <3>3
  <2>5. CASE Disconnected
    <3>1. leaf' = [i \in Items |-> IncomingEvent(leaf[i], "loss")]
      BY <2>5 DEF Disconnected, MarkConnectionLoss
    <3> QED BY <1>2, <3>1 DEF SameDirty
  <2> QED BY <2>1, <2>2, <2>3, <2>4, <2>5
<1>5. wpc' \notin Unconnected => wpc \notin Unconnected /\ UNCHANGED <<commands, writes>>
  BY DEF DeliverResult, Dispatch, StartInitialRead, InitialReadEnds, MonitorItem, Disconnected,
         ReadNextOf, Return, worker, queues, Unconnected
<1>6. \A i \in Items : wpc' \notin Unconnected /\ WriteAsked(i) => WriteAsked(i)'
  BY <1>5 DEF WriteAsked, WriteAskedIn
<1> QED BY <1>1, <1>4, <1>5, <1>6, SameDirtyKeepsInv

\* No step leaves a value of this connection without a request.
LEMMA NextDirty == Known /\ DirtyInv /\ [Next]_vars => DirtyInv'
<1> SUFFICES ASSUME Known, DirtyInv, [Next]_vars PROVE DirtyInv'
  OBVIOUS
<1>1. CASE UNCHANGED vars
  BY <1>1 DEF vars, worker, link, queues, records, DirtyInv, NoneOfLater, AskedFor, WriteAsked,
              WriteAskedIn
<1> QED BY <1>1, StillStepDirty, FlushWritesDirty, RecordDirty, UpdateStepDirty, StepCases
        DEF LeafStep

\* A value sent on this connection that is still to be written has a write request
\* queued that will write it: none is forgotten between `send`, the worker's queues
\* and `take_outgoing`, whatever is written together and however often it is asked for.
THEOREM NoPutForgotten == Spec => []DirtyHasRequest
<1>1. Init => DirtyInv
  BY DEF Init, DirtyInv, NoneOfLater, AskedFor
<1>2. DirtyInv => DirtyHasRequest
  BY AskedIsQueued DEF DirtyInv
<1>3. Spec => []Known
  BY Phases, AlwaysTyped, PTL DEF Known
<1> QED BY NextDirty, <1>1, <1>2, <1>3, PTL DEF Spec
================================================================================
