------------------------------ MODULE AdsPortProofs -----------------------------
(***************************************************************************)
(* Proofs about one port of the TwinCAT ADS driver, for any number of      *)
(* parameters, values, connections and faults: types, and that a parameter *)
(* whose refresh is not pending is fed.                                    *)
(***************************************************************************)
EXTENDS AdsPort, TLAPS

\* Where a thread is while it refreshes a parameter.
Refreshing == {"info", "get", "set", "leave", "cancel", "subscribe", "insert", "mark", "enrol",
               "seat", "sample", "publish", "done"}
Places == Refreshing \cup
          {"idle", "state", "connect", "take", "clear", "drop", "handles", "forget", "alarm",
           "reset", "list", "next", "renew", "renewed", "end", "written", "panicked"}
\* While it holds the number of a notification that no parameter has (any more).
Carrying == {"cancel", "insert", "mark"}

Subs == [n : Nat, of : Params \cup {NoParam}, conn : Nat, seen : Values \cup {NoValue}]
BulkSlots == [reason : Params, of : Params, handle : Nat]
Answers == [reason : Params, value : Values, good : BOOLEAN]

\* Every variable keeps its type.
PlcTyped == /\ plc \in [Params -> Values]
            /\ noted \in Nat /\ conns \in Nat
            /\ up \subseteq 1 .. conns /\ client \in 0 .. conns
            /\ subs \subseteq Subs /\ stream \in Seq(Nat \X Values)
NeedTyped == /\ setup \in Setups
             /\ bound \subseteq Params /\ Params \ late \subseteq bound
             /\ need \subseteq bound /\ todo \subseteq bound
ParamsTyped == /\ handle \in [Params -> 0 .. conns] /\ note \in [Params -> 0 .. noted]
               /\ feed \in [Params -> Int]
               /\ value \in [Params -> Values \cup {NoValue}]
FeedsTyped == /\ \A n \in DOMAIN notifications : notifications[n] \in Params
              /\ slots \in Seq(BulkSlots) /\ poll \in Seq(Answers)
              /\ \A k \in DOMAIN slots : slots[k].reason \in bulk
ThreadsTyped == /\ pc \in [Threads -> Places] /\ on \in [Threads -> 0 .. conns]
                /\ par \in [Threads -> Params \cup {NoParam}]
                /\ got \in [Threads -> Nat \cup Values]
                /\ after \in {"idle", "connect", "end"}

\* What a refresh has at each of its steps.
RefreshTyped ==
  \A t \in Refreshers :
    /\ pc[t] \in Refreshing => par[t] \in Params
    /\ pc[t] \in {"enrol", "seat"} => par[t] \in bulk
    /\ pc[t] \in {"leave", "cancel", "subscribe", "insert", "mark"} => par[t] \notin bulk
    /\ pc[t] \in Carrying => got[t] \in 1 .. noted
    /\ pc[t] = "seat" => got[t] \in Nat
    /\ pc[t] = "publish" => got[t] \in Values
\* What the reader and a write are about to publish.
PublishTyped == /\ pc["rd"] = "publish" => par["rd"] \in Params /\ got["rd"] \in Values
                /\ pc["act"] = "written" => par["act"] \in Params /\ got["act"] \in Values

Typed == /\ PlcTyped /\ NeedTyped /\ ParamsTyped /\ FeedsTyped /\ ThreadsTyped
         /\ RefreshTyped /\ PublishTyped

\* Parameters there from the start are refreshed by the supervisor only.
Early == Params \ late
ActorIsLate == pc["act"] \in Refreshing => par["act"] \in late

\* A notification's number is that of one parameter, or of one refresh.
OwnNumbers ==
  /\ \A p, q \in Params : note[p] = note[q] /\ note[p] # 0 => p = q
  /\ \A t \in Refreshers, p \in Params : pc[t] \in Carrying => got[t] # note[p]
  /\ pc["sup"] \in Carrying /\ pc["act"] \in Carrying => got["sup"] # got["act"]

\* Without a client, or on the way to a new one, all are to be refreshed.
GivingUp ==
  /\ pc["sup"] \in {"take", "clear", "reset"} => after # "end"
  /\ \/ pc["sup"] \in {"clear", "reset", "connect"}
     \/ pc["sup"] \in {"drop", "handles", "forget", "alarm"} /\ after # "end"
     => client = 0
  /\ pc["sup"] \in {"handles", "forget", "alarm"} => Early \subseteq need
  /\ client = 0 /\ pc["sup"] \notin {"clear", "drop"} => Early \subseteq need

\* The port is on its first connection, or has none yet: until that is given up,
\* seats are of slots that are there and were given to the parameter.
OnFirst == conns <= 1 /\ client = conns
HasSlot(k, p) == k \in DOMAIN slots /\ slots[k].reason = p
OwnSeats ==
  OnFirst =>
    /\ conns = 0 => slots = <<>>
    /\ \A p \in Params : feed[p] > 0 => HasSlot(feed[p], p)
    /\ \A t \in Refreshers : pc[t] = "seat" => HasSlot(got[t], par[t])

\* A parameter is fed.
Fed(p) == IF p \in bulk THEN OnFirst => Polled(p) ELSE Subscribed(p)

\* What the supervisor's refresh has achieved so far, on the client's connection.
SupDoes ==
  /\ pc["sup"] \in Refreshing \cup {"next"} => todo \ late \subseteq need
  /\ pc["sup"] \in Refreshing => par["sup"] \notin todo
  /\ pc["sup"] \in Refreshing \ {"info"} => on["sup"] = client /\ client # 0
SubscribedAs(n, p) == client \in up => \E s \in subs : s.n = n /\ s.of = p /\ s.conn = client
SupAchieves ==
  LET p == par["sup"]
      at == pc["sup"]
  IN  at \in Refreshing /\ p \in Early =>
        /\ p \in need
        /\ at = "enrol" => handle[p] = client
        /\ at \in {"insert", "mark"} => SubscribedAs(got["sup"], p)
        /\ at = "mark" => got["sup"] \in DOMAIN notifications /\ notifications[got["sup"]] = p
        /\ at \in {"seat", "sample", "publish", "done"} =>
             Fed(p)

\* One that is not to be refreshed is fed.
EarlyAreFed == pc["sup"] \notin {"clear", "drop"} => \A p \in Early \ need : Fed(p)

FedInv == ActorIsLate /\ OwnNumbers /\ GivingUp /\ SupDoes /\ SupAchieves /\ EarlyAreFed

--------------------------------------------------------------------------------
USE PortAssumption
USE DEF plcside, params, port, work, supervisor, Goes, Sup, Spend, MayFail

\* What the database has of a port is of its parameters.
LEMMA SetupHolds == NeedTyped => bulk \subseteq Params /\ late \subseteq Params
BY DEF NeedTyped, bulk, late

\* The numbers given out, and the feeds, in their ranges.
LEMMA Counted ==
  ASSUME Typed
  PROVE  /\ 0 \in 0 .. noted /\ 0 \in 0 .. conns /\ NoFeed \in Int /\ Notified \in Int
         /\ noted + 1 \in Nat /\ conns + 1 \in Nat /\ Len(slots) + 1 \in Nat
BY DEF Typed, PlcTyped, FeedsTyped, NoFeed, Notified

\* The port starts in order.
LEMMA InitTyped == Init => Typed
<1> SUFFICES ASSUME Init PROVE Typed
    OBVIOUS
<1>1. PlcTyped
  BY DEF Init, PlcTyped
<1>2. NeedTyped
  BY DEF Init, NeedTyped
<1>3. ParamsTyped
  BY DEF Init, ParamsTyped, NoFeed
<1>4. FeedsTyped
  BY DEF Init, FeedsTyped
<1>5. ThreadsTyped
  BY DEF Init, ThreadsTyped, Threads, Places
<1>6. RefreshTyped /\ PublishTyped
  BY DEF Init, RefreshTyped, PublishTyped, Threads, Refreshers, Refreshing, Carrying
<1> QED
  BY <1>1, <1>2, <1>3, <1>4, <1>5, <1>6 DEF Typed

\* Closing connections takes what was of them.
LEMMA KeepTyped ==
  ASSUME Typed, NEW cl \in 0 .. conns, Keep(cl), on' \in [Threads -> 0 .. conns]
  PROVE  PlcTyped' /\ conns' = conns /\ noted' = noted
<1>1. up' \subseteq up /\ subs' \subseteq subs /\ stream' \in Seq(Nat \X Values)
  BY DEF Keep, Typed, PlcTyped
<1> QED
  BY <1>1 DEF Keep, Typed, PlcTyped

\* A thread at the end of an operation has none.
LEMMA IdleTyped ==
  ASSUME Typed, NEW t \in Threads, NEW from, Idle(t, from)
  PROVE  /\ PlcTyped' /\ conns' = conns /\ noted' = noted /\ client' = client
         /\ pc' = [pc EXCEPT ![t] = "idle"] /\ on' \in [Threads -> 0 .. conns']
         /\ par' = [par EXCEPT ![t] = NoParam] /\ got' = [got EXCEPT ![t] = 0]
<1>1. on' \in [Threads -> 0 .. conns]
  BY Counted DEF Idle, Typed, ThreadsTyped
<1>2. PlcTyped' /\ conns' = conns /\ noted' = noted
  BY <1>1, KeepTyped DEF Idle, Typed, PlcTyped
<1> QED
  BY <1>1, <1>2 DEF Idle, Keep

\* A refresh that ends leaves its parameter.
LEMMA ReturnTyped ==
  ASSUME Typed, NEW t \in Refreshers, NEW from, Return(t, from)
  PROVE  /\ PlcTyped' /\ conns' = conns /\ noted' = noted /\ client' = client
         /\ pc' \in [Threads -> Places] /\ on' \in [Threads -> 0 .. conns']
         /\ par' \in [Threads -> Params \cup {NoParam}]
         /\ got' \in [Threads -> Nat \cup Values]
         /\ pc'[t] \in {"idle", "next"}
         /\ \A u \in Threads \ {t} : pc'[u] = pc[u] /\ par'[u] = par[u] /\ got'[u] = got[u]
<1>1. CASE t = "act"
  BY <1>1, IdleTyped DEF Return, Typed, ThreadsTyped, Threads, Places
<1>2. CASE t = "sup"
  <2>1. /\ pc' = [pc EXCEPT ![t] = "next"] /\ par' = [par EXCEPT ![t] = NoParam]
        /\ got' = [got EXCEPT ![t] = 0] /\ UNCHANGED <<on, plcside, client>>
    BY <1>2 DEF Return
  <2>2. PlcTyped' /\ conns' = conns /\ noted' = noted
    BY <2>1 DEF Typed, PlcTyped
  <2>3. pc' \in [Threads -> Places] /\ par' \in [Threads -> Params \cup {NoParam}]
    BY <2>1, <2>2 DEF Typed, ThreadsTyped, Places
  <2>4. got' \in [Threads -> Nat \cup Values] /\ on' \in [Threads -> 0 .. conns']
    BY <2>1, <2>2 DEF Typed, ThreadsTyped
  <2> QED
    BY <2>1, <2>2, <2>3, <2>4 DEF Typed, ThreadsTyped, Threads
<1> QED
  BY <1>1, <1>2 DEF Refreshers

\* What the other threads have in hand stays as it is.
LEMMA ReturnKeepsHands ==
  ASSUME Typed, NEW t \in Refreshers, NEW from, Return(t, from), bulk' = bulk
  PROVE  RefreshTyped' /\ PublishTyped'
<1>1. /\ pc'[t] \notin Refreshing /\ pc'[t] # "written" /\ noted' = noted /\ Values' = Values
      /\ \A u \in Threads \ {t} : pc'[u] = pc[u] /\ par'[u] = par[u] /\ got'[u] = got[u]
  BY ReturnTyped DEF Refreshing
<1>2. RefreshTyped'
  <2> SUFFICES ASSUME NEW u \in Refreshers PROVE RefreshTyped!(u)'
      BY DEF RefreshTyped
  <2>1. CASE u = t
    BY <1>1, <2>1 DEF Refreshing, Carrying
  <2>2. CASE u # t
    <3>1. pc'[u] = pc[u] /\ par'[u] = par[u] /\ got'[u] = got[u]
      BY <1>1, <2>2 DEF Refreshers, Threads
    <3> QED
      BY <1>1, <3>1 DEF Typed, RefreshTyped
  <2> QED
    BY <2>1, <2>2
<1>3. PublishTyped'
  <2>1. pc'["rd"] = pc["rd"] /\ par'["rd"] = par["rd"] /\ got'["rd"] = got["rd"]
    BY <1>1 DEF Refreshers, Threads
  <2>2. CASE t = "act"
    BY <1>1, <2>1, <2>2 DEF Typed, PublishTyped
  <2>3. CASE t = "sup"
    BY <1>1, <2>1, <2>3 DEF Threads, Typed, PublishTyped
  <2> QED
    BY <2>2, <2>3 DEF Refreshers
<1> QED
  BY <1>2, <1>3

--------------------------------------------------------------------------------
\* Each step of a refresh keeps the types.
LEMMA RefreshKeepsTyped == ASSUME Typed, NEW t \in Refreshers, Refresh(t) PROVE Typed'
<1> USE SetupHolds
<1>1. CASE RefreshFails(t)
  <2>1. PlcTyped'
    BY <1>1, ReturnTyped DEF RefreshFails, Typed
  <2>2. NeedTyped'
    BY <1>1, ReturnTyped DEF RefreshFails, Typed, NeedTyped, late
  <2>3. ParamsTyped'
    <3>1. conns' = conns /\ noted' = noted /\ conns \in Nat
      BY <1>1, ReturnTyped DEF RefreshFails, Typed, PlcTyped
    <3>2. handle' = handle \/ handle' = [handle EXCEPT ![par[t]] = 0]
      BY <1>1 DEF RefreshFails
    <3>3. UNCHANGED <<note, feed, value>>
      BY <1>1 DEF RefreshFails
    <3> QED
      BY <3>1, <3>2, <3>3 DEF Typed, ParamsTyped
  <2>4. FeedsTyped'
    BY <1>1, ReturnTyped DEF RefreshFails, Typed, FeedsTyped, bulk
  <2>5. ThreadsTyped'
    BY <1>1, ReturnTyped DEF RefreshFails, Typed, PlcTyped, ParamsTyped, ThreadsTyped
  <2>6. RefreshTyped' /\ PublishTyped'
    BY <1>1, ReturnKeepsHands DEF RefreshFails, bulk
  <2> QED
    BY <2>1, <2>2, <2>3, <2>4, <2>5, <2>6 DEF Typed
<1>2. CASE Refused(t)
  <2>1. PlcTyped'
    BY <1>2, ReturnTyped DEF Refused, Typed
  <2>2. NeedTyped'
    BY <1>2, ReturnTyped DEF Refused, Typed, NeedTyped, late
  <2>3. ParamsTyped'
    BY <1>2, ReturnTyped DEF Refused, Typed, ParamsTyped, PlcTyped, ThreadsTyped
  <2>4. FeedsTyped'
    BY <1>2, ReturnTyped DEF Refused, Typed, FeedsTyped, bulk
  <2>5. ThreadsTyped'
    BY <1>2, ReturnTyped DEF Refused, Typed, PlcTyped, ParamsTyped, ThreadsTyped
  <2>6. RefreshTyped' /\ PublishTyped'
    BY <1>2, ReturnKeepsHands DEF Refused, bulk
  <2> QED
    BY <2>1, <2>2, <2>3, <2>4, <2>5, <2>6 DEF Typed
<1>3. CASE GetInfo(t)
  <2>1. PlcTyped'
    BY <1>3 DEF GetInfo, Typed, PlcTyped
  <2>2. NeedTyped'
    BY <1>3 DEF GetInfo, Typed, NeedTyped, late
  <2>3. ParamsTyped'
    BY <1>3 DEF GetInfo, Typed, ParamsTyped, PlcTyped, ThreadsTyped, RefreshTyped
  <2>4. FeedsTyped'
    BY <1>3 DEF GetInfo, Typed, FeedsTyped, bulk
  <2>5. ThreadsTyped'
    BY <1>3 DEF GetInfo, Typed, PlcTyped, ThreadsTyped, Places, Refreshing
  <2>6. RefreshTyped' /\ PublishTyped'
    BY <1>3 DEF GetInfo, Typed, PlcTyped, RefreshTyped, PublishTyped, Refreshers, Refreshing,
       Carrying, bulk
  <2> QED
    BY <2>1, <2>2, <2>3, <2>4, <2>5, <2>6 DEF Typed
<1>4. CASE GetHandle(t)
  <2>1. PlcTyped'
    BY <1>4 DEF GetHandle, Typed, PlcTyped
  <2>2. NeedTyped'
    BY <1>4 DEF GetHandle, Typed, NeedTyped, late
  <2>3. ParamsTyped'
    BY <1>4 DEF GetHandle, Typed, ParamsTyped, PlcTyped, RefreshTyped, Refreshers, Refreshing,
       Carrying
  <2>4. FeedsTyped'
    BY <1>4 DEF GetHandle, Typed, FeedsTyped, bulk
  <2>5. ThreadsTyped'
    BY <1>4 DEF GetHandle, Typed, PlcTyped, ThreadsTyped, Places, Refreshing
  <2>6. RefreshTyped' /\ PublishTyped'
    BY <1>4 DEF GetHandle, Typed, PlcTyped, RefreshTyped, PublishTyped, Refreshers, Refreshing,
       Carrying, bulk
  <2> QED
    BY <2>1, <2>2, <2>3, <2>4, <2>5, <2>6 DEF Typed
<1>5. CASE SetHandle(t)
  <2>1. PlcTyped'
    BY <1>5 DEF SetHandle, Typed, PlcTyped
  <2>2. NeedTyped'
    BY <1>5 DEF SetHandle, Typed, NeedTyped, late
  <2>3. ParamsTyped'
    BY <1>5 DEF SetHandle, Typed, ParamsTyped, ThreadsTyped, Threads, Refreshers
  <2>4. FeedsTyped'
    BY <1>5 DEF SetHandle, Typed, FeedsTyped, bulk
  <2>5. ThreadsTyped'
    BY <1>5 DEF SetHandle, Typed, PlcTyped, ThreadsTyped, Places, Refreshing
  <2>6. RefreshTyped' /\ PublishTyped'
    BY <1>5 DEF SetHandle, Typed, PlcTyped, RefreshTyped, PublishTyped, Refreshers, Refreshing,
       Carrying, bulk
  <2> QED
    BY <2>1, <2>2, <2>3, <2>4, <2>5, <2>6 DEF Typed
<1>6. CASE Leave(t)
  <2>1. PlcTyped'
    BY <1>6 DEF Leave, Typed, PlcTyped
  <2>2. NeedTyped'
    BY <1>6 DEF Leave, Typed, NeedTyped, late
  <2>3. ParamsTyped'
    <3>1. note' = [note EXCEPT ![par[t]] = 0] /\ UNCHANGED <<plcside, handle, value>>
      BY <1>6 DEF Leave
    <3>2. feed' = feed \/ feed' = [feed EXCEPT ![par[t]] = NoFeed]
      BY <1>6 DEF Leave
    <3>3. note' \in [Params -> 0 .. noted]
      BY <3>1, Counted DEF Typed, ParamsTyped
    <3>4. feed' \in [Params -> Int]
      BY <3>2, Counted DEF Typed, ParamsTyped
    <3> QED
      BY <3>1, <3>3, <3>4 DEF Typed, ParamsTyped
  <2>4. FeedsTyped'
    BY <1>6 DEF Leave, Typed, FeedsTyped, bulk
  <2>5. ThreadsTyped'
    BY <1>6 DEF Leave, Typed, ParamsTyped, ThreadsTyped, RefreshTyped, Threads, Refreshers,
       Places, Refreshing
  <2>6. RefreshTyped' /\ PublishTyped'
    BY <1>6 DEF Leave, Typed, PlcTyped, ParamsTyped, RefreshTyped, PublishTyped, ThreadsTyped,
       Refreshing, Carrying, bulk
  <2> QED
    BY <2>1, <2>2, <2>3, <2>4, <2>5, <2>6 DEF Typed
<1>7. CASE Cancel(t)
  <2>1. PlcTyped'
    BY <1>7 DEF Cancel, Less, Typed, PlcTyped
  <2>2. NeedTyped'
    BY <1>7 DEF Cancel, Less, Typed, NeedTyped, late
  <2>3. ParamsTyped'
    BY <1>7 DEF Cancel, Less, Typed, ParamsTyped, PlcTyped, ThreadsTyped
  <2>4. FeedsTyped'
    BY <1>7 DEF Cancel, Less, Typed, FeedsTyped, bulk
  <2>5. ThreadsTyped'
    BY <1>7 DEF Cancel, Less, Typed, ThreadsTyped, Places, Refreshing
  <2>6. RefreshTyped' /\ PublishTyped'
    BY <1>7 DEF Cancel, Less, Typed, PlcTyped, RefreshTyped, PublishTyped, ThreadsTyped,
       Refreshers, Refreshing, Carrying, bulk
  <2> QED
    BY <2>1, <2>2, <2>3, <2>4, <2>5, <2>6 DEF Typed
<1>8. CASE Subscribe(t)
  <2>1. PlcTyped'
    <3> DEFINE s == [n |-> noted + 1, of |-> par[t], conn |-> client, seen |-> plc[par[t]]]
    <3>1. par[t] \in Params
      BY <1>8 DEF Subscribe, Typed, RefreshTyped, Refreshing
    <3>2. s \in Subs
      BY <3>1 DEF Typed, PlcTyped, Subs
    <3>3. subs' = subs \cup {s} /\ noted' = noted + 1
      BY <1>8, <3>1 DEF Subscribe, NewSub
    <3>4. UNCHANGED <<plc, conns, up, stream, client>>
      BY <1>8 DEF Subscribe, NewSub
    <3> QED
      BY <3>2, <3>3, <3>4 DEF Typed, PlcTyped
  <2>2. NeedTyped'
    BY <1>8 DEF Subscribe, NewSub, Good, Typed, NeedTyped, late
  <2>3. ParamsTyped'
    <3>1. noted' = noted + 1 /\ UNCHANGED <<conns, handle, note, feed, value>>
      BY <1>8 DEF Subscribe, NewSub
    <3> QED
      BY <3>1 DEF Typed, PlcTyped, ParamsTyped
  <2>4. FeedsTyped'
    BY <1>8 DEF Subscribe, NewSub, Good, Typed, FeedsTyped, bulk
  <2>5. ThreadsTyped'
    <3>1. /\ pc' = [pc EXCEPT ![t] = "insert"] /\ got' = [got EXCEPT ![t] = noted + 1]
          /\ UNCHANGED <<conns, on, par, after>>
      BY <1>8 DEF Subscribe, NewSub
    <3> QED
      BY <3>1, Counted DEF Typed, ThreadsTyped, Places, Refreshing
  <2>6. RefreshTyped' /\ PublishTyped'
    BY <1>8 DEF Subscribe, NewSub, Good, Typed, PlcTyped, RefreshTyped, PublishTyped,
       ThreadsTyped, Refreshers, Refreshing, Carrying, bulk
  <2> QED
    BY <2>1, <2>2, <2>3, <2>4, <2>5, <2>6 DEF Typed
<1>9. CASE Insert(t)
  <2>1. PlcTyped'
    BY <1>9 DEF Insert, With, Typed, PlcTyped
  <2>2. NeedTyped'
    BY <1>9 DEF Insert, With, Typed, NeedTyped, late
  <2>3. ParamsTyped'
    BY <1>9 DEF Insert, With, Typed, ParamsTyped, PlcTyped, ThreadsTyped
  <2>4. FeedsTyped'
    <3>1. par[t] \in Params
      BY <1>9 DEF Insert, Typed, RefreshTyped, Refreshing
    <3>2. \A n \in DOMAIN notifications' : notifications'[n] \in Params
      BY <1>9, <3>1 DEF Insert, With, Typed, FeedsTyped
    <3>3. UNCHANGED <<slots, poll, setup>>
      BY <1>9 DEF Insert
    <3> QED
      BY <3>2, <3>3 DEF Typed, FeedsTyped, bulk
  <2>5. ThreadsTyped'
    BY <1>9 DEF Insert, With, Typed, ThreadsTyped, Places, Refreshing
  <2>6. RefreshTyped' /\ PublishTyped'
    BY <1>9 DEF Insert, With, Typed, PlcTyped, RefreshTyped, PublishTyped, Refreshers,
       Refreshing, Carrying, bulk
  <2> QED
    BY <2>1, <2>2, <2>3, <2>4, <2>5, <2>6 DEF Typed
<1>10. CASE Mark(t)
  <2>1. PlcTyped'
    BY <1>10 DEF Mark, Typed, PlcTyped
  <2>2. NeedTyped'
    BY <1>10 DEF Mark, Typed, NeedTyped, late
  <2>3. ParamsTyped'
    <3>1. got[t] \in 0 .. noted
      BY <1>10 DEF Mark, Typed, RefreshTyped, Carrying
    <3>2. /\ note' = [note EXCEPT ![par[t]] = got[t]]
          /\ feed' = [feed EXCEPT ![par[t]] = Notified]
          /\ UNCHANGED <<plcside, handle, value>>
      BY <1>10 DEF Mark
    <3> QED
      BY <3>1, <3>2, Counted DEF Typed, ParamsTyped
  <2>4. FeedsTyped'
    BY <1>10 DEF Mark, Typed, FeedsTyped, bulk
  <2>5. ThreadsTyped'
    BY <1>10 DEF Mark, Typed, PlcTyped, ThreadsTyped, Places, Refreshing
  <2>6. RefreshTyped' /\ PublishTyped'
    BY <1>10 DEF Mark, Typed, PlcTyped, RefreshTyped, PublishTyped, ThreadsTyped, Refreshers,
       Refreshing, Carrying, bulk
  <2> QED
    BY <2>1, <2>2, <2>3, <2>4, <2>5, <2>6 DEF Typed
<1>11. CASE pc[t] = "enrol" /\ Enrol(t)
  <2>1. PlcTyped'
    BY <1>11 DEF Enrol, Slot, Typed, PlcTyped
  <2>2. NeedTyped'
    BY <1>11 DEF Enrol, Slot, Typed, NeedTyped, late
  <2>3. ParamsTyped'
    BY <1>11 DEF Enrol, Slot, Typed, ParamsTyped, PlcTyped, ThreadsTyped
  <2>4. FeedsTyped'
    <3> DEFINE p == par[t]
               k == feed[p]
    <3>1. p \in bulk /\ p \in Params
      BY <1>11 DEF Typed, RefreshTyped
    <3>2. Slot(p) \in BulkSlots
      BY <3>1 DEF Slot, BulkSlots, Typed, ParamsTyped
    <3>3. slots \in Seq(BulkSlots)
      BY DEF Typed, FeedsTyped
    <3>4. slots' \in Seq(BulkSlots) /\ \A j \in DOMAIN slots' : slots'[j].reason \in bulk
      <4>1. CASE k \in DOMAIN slots /\ slots' = [slots EXCEPT ![k].of = p, ![k].handle = handle[p]]
        <5> DEFINE r == [slots[k] EXCEPT !.of = p, !.handle = handle[p]]
        <5>1. slots[k] \in BulkSlots
          BY <4>1, <3>3
        <5>2. r \in BulkSlots /\ r.reason = slots[k].reason
          <6>1. p \in Params /\ handle[p] \in Nat
            BY <3>1, <3>2 DEF BulkSlots, Slot
          <6> QED
            BY <5>1, <6>1 DEF BulkSlots
        <5>3. slots' = [slots EXCEPT ![k] = r]
          BY <4>1, <3>3
        <5> HIDE DEF r
        <5>4. slots' \in Seq(BulkSlots) /\ Len(slots') = Len(slots)
          BY ONLY <4>1, <5>2, <5>3, <3>3
        <5> QED
          BY <5>2, <5>3, <5>4 DEF Typed, FeedsTyped
      <4>2. CASE slots' = Append(slots, Slot(p))
        <5>1. slots' \in Seq(BulkSlots) /\ Len(slots') = Len(slots) + 1
          BY <4>2, <3>2, <3>3
        <5>2. \A j \in 1 .. Len(slots') : slots'[j] = IF j = Len(slots) + 1 THEN Slot(p)
                                                                         ELSE slots[j]
          BY <4>2, <3>2, <3>3, <5>1
        <5> QED
          BY <5>1, <5>2, <3>1, <3>3 DEF Typed, FeedsTyped, Slot
      <4> QED
        BY <1>11, <4>1, <4>2 DEF Enrol
    <3> QED
      BY <1>11, <3>4 DEF Enrol, Typed, FeedsTyped, bulk
  <2>5. ThreadsTyped'
    <3>1. /\ pc' \in {[pc EXCEPT ![t] = "sample"], [pc EXCEPT ![t] = "seat"]}
          /\ got' \in {got, [got EXCEPT ![t] = Len(slots) + 1]}
          /\ UNCHANGED <<conns, on, par, after>>
      BY <1>11 DEF Enrol
    <3> QED
      BY <3>1, Counted DEF Typed, ThreadsTyped, Places, Refreshing
  <2>6. RefreshTyped' /\ PublishTyped'
    <3>1. Len(slots) \in Nat
      BY DEF Typed
    <3> QED
      BY <1>11, <3>1 DEF Enrol, Typed, RefreshTyped, PublishTyped, ThreadsTyped, Threads,
         Refreshers, Carrying, bulk
  <2> QED
    BY <2>1, <2>2, <2>3, <2>4, <2>5, <2>6 DEF Typed
<1>12. CASE pc[t] = "enrol" /\ EnrolPanics(t)
  <2>1. PlcTyped' /\ conns' = conns /\ noted' = noted
    <3>1. on' \in [Threads -> 0 .. conns]
      BY <1>12, Counted DEF EnrolPanics, Typed, ThreadsTyped
    <3> QED
      BY <1>12, <3>1, KeepTyped DEF EnrolPanics, Typed, PlcTyped
  <2>2. NeedTyped'
    BY <1>12 DEF EnrolPanics, Typed, NeedTyped, late
  <2>3. ParamsTyped'
    BY <1>12, <2>1 DEF EnrolPanics, Typed, ParamsTyped
  <2>4. FeedsTyped'
    BY <1>12 DEF EnrolPanics, Typed, FeedsTyped, bulk
  <2>5. ThreadsTyped'
    <3>1. on' = [on EXCEPT ![t] = 0] /\ pc' = [pc EXCEPT ![t] = "panicked"]
      BY <1>12 DEF EnrolPanics
    <3> QED
      BY <1>12, <2>1, <3>1, Counted DEF EnrolPanics, Typed, ThreadsTyped, Places
  <2>6. RefreshTyped' /\ PublishTyped'
    BY <1>12, <2>1 DEF EnrolPanics, Typed, RefreshTyped, PublishTyped, Carrying, bulk
  <2> QED
    BY <2>1, <2>2, <2>3, <2>4, <2>5, <2>6 DEF Typed
<1>13. CASE Seat(t)
  <2>1. PlcTyped'
    BY <1>13 DEF Seat, Typed, PlcTyped
  <2>2. NeedTyped'
    BY <1>13 DEF Seat, Typed, NeedTyped, late
  <2>3. ParamsTyped'
    <3>1. got[t] \in Int
      BY <1>13 DEF Seat, Typed, RefreshTyped
    <3> QED
      BY <1>13, <3>1 DEF Seat, Typed, ParamsTyped
  <2>4. FeedsTyped'
    BY <1>13 DEF Seat, Typed, FeedsTyped, bulk
  <2>5. ThreadsTyped'
    BY <1>13 DEF Seat, Typed, PlcTyped, ThreadsTyped, Places, Refreshing
  <2>6. RefreshTyped' /\ PublishTyped'
    BY <1>13 DEF Seat, Typed, PlcTyped, RefreshTyped, PublishTyped, Refreshers, Carrying, bulk
  <2> QED
    BY <2>1, <2>2, <2>3, <2>4, <2>5, <2>6 DEF Typed
<1>14. CASE Sample(t)
  <2>1. PlcTyped'
    BY <1>14 DEF Sample, Good, Typed, PlcTyped
  <2>2. NeedTyped'
    BY <1>14 DEF Sample, Good, Typed, NeedTyped, late
  <2>3. ParamsTyped'
    BY <1>14 DEF Sample, Good, Typed, ParamsTyped, PlcTyped, ThreadsTyped
  <2>4. FeedsTyped'
    BY <1>14 DEF Sample, Good, Typed, FeedsTyped, bulk
  <2>5. ThreadsTyped'
    BY <1>14 DEF Sample, Typed, PlcTyped, ThreadsTyped, RefreshTyped, Places, Refreshing
  <2>6. RefreshTyped' /\ PublishTyped'
    BY <1>14 DEF Sample, Good, Typed, PlcTyped, RefreshTyped, PublishTyped, ThreadsTyped,
       Refreshers, Refreshing, Carrying, bulk
  <2> QED
    BY <2>1, <2>2, <2>3, <2>4, <2>5, <2>6 DEF Typed
<1>15. CASE PublishFirst(t)
  <2>1. PlcTyped'
    BY <1>15 DEF PublishFirst, Show, Typed, PlcTyped
  <2>2. NeedTyped'
    BY <1>15 DEF PublishFirst, Show, Typed, NeedTyped, late
  <2>3. ParamsTyped'
    BY <1>15 DEF PublishFirst, Show, Typed, ParamsTyped, PlcTyped, RefreshTyped
  <2>4. FeedsTyped'
    BY <1>15 DEF PublishFirst, Show, Typed, FeedsTyped, bulk
  <2>5. ThreadsTyped'
    BY <1>15 DEF PublishFirst, Show, Typed, ThreadsTyped, Places, Refreshing
  <2>6. RefreshTyped' /\ PublishTyped'
    BY <1>15 DEF PublishFirst, Show, Typed, PlcTyped, RefreshTyped, PublishTyped, Refreshing,
       Carrying, bulk
  <2> QED
    BY <2>1, <2>2, <2>3, <2>4, <2>5, <2>6 DEF Typed
<1>16. CASE Done(t)
  <2>1. PlcTyped'
    BY <1>16, ReturnTyped DEF Done, Typed
  <2>2. NeedTyped'
    BY <1>16, ReturnTyped DEF Done, Typed, NeedTyped, late
  <2>3. ParamsTyped'
    BY <1>16, ReturnTyped DEF Done, Typed, ParamsTyped, PlcTyped, ThreadsTyped
  <2>4. FeedsTyped'
    BY <1>16, ReturnTyped DEF Done, Typed, FeedsTyped, bulk
  <2>5. ThreadsTyped'
    BY <1>16, ReturnTyped DEF Done, Typed, PlcTyped, ParamsTyped, ThreadsTyped
  <2>6. RefreshTyped' /\ PublishTyped'
    BY <1>16, ReturnKeepsHands DEF Done, bulk
  <2> QED
    BY <2>1, <2>2, <2>3, <2>4, <2>5, <2>6 DEF Typed
<1> QED
  BY <1>1, <1>2, <1>3, <1>4, <1>5, <1>6, <1>7, <1>8, <1>9, <1>10, <1>11, <1>12, <1>13, <1>14,
     <1>15, <1>16 DEF Refresh

\* So do the steps that end a connection.
LEMMA DisconnectKeepsTyped == ASSUME Typed, Disconnecting PROVE Typed'
<1> USE SetupHolds
<1>1. CASE TakeClient
  <2>1. PlcTyped'
    <3>1. on' \in [Threads -> 0 .. conns]
      BY <1>1, Counted DEF TakeClient, Typed, ThreadsTyped
    <3> QED
      BY <1>1, <3>1, KeepTyped, Counted DEF TakeClient, Typed
  <2>2. NeedTyped'
    BY <1>1 DEF TakeClient, Keep, Typed, NeedTyped, late
  <2>3. ParamsTyped'
    BY <1>1 DEF TakeClient, Keep, Typed, ParamsTyped
  <2>4. FeedsTyped'
    BY <1>1 DEF TakeClient, Keep, Typed, FeedsTyped, bulk
  <2>5. ThreadsTyped'
    BY <1>1 DEF TakeClient, Keep, Typed, ThreadsTyped, Threads, Places
  <2>6. RefreshTyped' /\ PublishTyped'
    BY <1>1 DEF TakeClient, Keep, Typed, RefreshTyped, PublishTyped, Refreshing, Carrying, bulk
  <2> QED
    BY <2>1, <2>2, <2>3, <2>4, <2>5, <2>6 DEF Typed
<1>2. CASE ClearFeeds
  <2>1. PlcTyped'
    BY <1>2 DEF ClearFeeds, Typed, PlcTyped
  <2>2. NeedTyped'
    BY <1>2 DEF ClearFeeds, Typed, NeedTyped, late
  <2>3. ParamsTyped'
    BY <1>2 DEF ClearFeeds, Typed, ParamsTyped
  <2>4. FeedsTyped'
    BY <1>2 DEF ClearFeeds, Typed, FeedsTyped
  <2>5. ThreadsTyped'
    BY <1>2 DEF ClearFeeds, Typed, ThreadsTyped, Threads, Places
  <2>6. RefreshTyped' /\ PublishTyped'
    BY <1>2 DEF ClearFeeds, Typed, RefreshTyped, PublishTyped, Refreshing, Carrying, bulk
  <2> QED
    BY <2>1, <2>2, <2>3, <2>4, <2>5, <2>6 DEF Typed
<1>3. CASE Invalidate
  <2>1. PlcTyped'
    BY <1>3 DEF Invalidate, Typed, PlcTyped
  <2>2. NeedTyped'
    BY <1>3 DEF Invalidate, Typed, NeedTyped, late
  <2>3. ParamsTyped'
    BY <1>3 DEF Invalidate, Typed, ParamsTyped
  <2>4. FeedsTyped'
    BY <1>3 DEF Invalidate, Typed, FeedsTyped, bulk
  <2>5. ThreadsTyped'
    BY <1>3 DEF Invalidate, Typed, ThreadsTyped, Threads, Places
  <2>6. RefreshTyped' /\ PublishTyped'
    BY <1>3 DEF Invalidate, Typed, RefreshTyped, PublishTyped, Refreshing, Carrying, bulk
  <2> QED
    BY <2>1, <2>2, <2>3, <2>4, <2>5, <2>6 DEF Typed
<1>4. CASE DropHandles
  <2>1. PlcTyped'
    BY <1>4, Counted DEF DropHandles, Typed, PlcTyped
  <2>2. NeedTyped'
    BY <1>4, Counted DEF DropHandles, Typed, NeedTyped, late
  <2>3. ParamsTyped'
    BY <1>4, Counted DEF DropHandles, Typed, ParamsTyped
  <2>4. FeedsTyped'
    BY <1>4, Counted DEF DropHandles, Typed, FeedsTyped, bulk
  <2>5. ThreadsTyped'
    BY <1>4, Counted DEF DropHandles, Typed, ThreadsTyped, Threads, Places
  <2>6. RefreshTyped' /\ PublishTyped'
    BY <1>4 DEF DropHandles, Typed, RefreshTyped, PublishTyped, Refreshing, Carrying, bulk
  <2> QED
    BY <2>1, <2>2, <2>3, <2>4, <2>5, <2>6 DEF Typed
<1>5. CASE ForgetSubscriptions
  <2>1. PlcTyped'
    BY <1>5 DEF ForgetSubscriptions, Less, Typed, PlcTyped
  <2>2. NeedTyped'
    BY <1>5 DEF ForgetSubscriptions, Less, Typed, NeedTyped, late
  <2>3. ParamsTyped'
    BY <1>5 DEF ForgetSubscriptions, Less, Typed, ParamsTyped
  <2>4. FeedsTyped'
    BY <1>5 DEF ForgetSubscriptions, Less, Typed, FeedsTyped, bulk
  <2>5. ThreadsTyped'
    BY <1>5 DEF ForgetSubscriptions, Less, Typed, ThreadsTyped, Threads, Places
  <2>6. RefreshTyped' /\ PublishTyped'
    BY <1>5 DEF ForgetSubscriptions, Typed, RefreshTyped, PublishTyped, Refreshing, Carrying,
       bulk
  <2> QED
    BY <2>1, <2>2, <2>3, <2>4, <2>5, <2>6 DEF Typed
<1>6. CASE RaiseAlarms
  <2>1. PlcTyped'
    BY <1>6 DEF RaiseAlarms, Typed, PlcTyped
  <2>2. NeedTyped'
    BY <1>6 DEF RaiseAlarms, Typed, NeedTyped, late
  <2>3. ParamsTyped'
    BY <1>6 DEF RaiseAlarms, Typed, ParamsTyped
  <2>4. FeedsTyped'
    BY <1>6 DEF RaiseAlarms, Typed, FeedsTyped, bulk
  <2>5. ThreadsTyped'
    BY <1>6 DEF RaiseAlarms, Typed, ThreadsTyped, Threads, Places
  <2>6. RefreshTyped' /\ PublishTyped'
    BY <1>6 DEF RaiseAlarms, Typed, RefreshTyped, PublishTyped, Refreshing, Carrying, bulk
  <2> QED
    BY <2>1, <2>2, <2>3, <2>4, <2>5, <2>6 DEF Typed
<1>7. CASE ResetPort
  <2>1. PlcTyped'
    BY <1>7 DEF ResetPort, Typed, PlcTyped
  <2>2. NeedTyped'
    BY <1>7 DEF ResetPort, Typed, NeedTyped, late
  <2>3. ParamsTyped'
    BY <1>7 DEF ResetPort, Typed, ParamsTyped
  <2>4. FeedsTyped'
    BY <1>7 DEF ResetPort, Typed, FeedsTyped, bulk
  <2>5. ThreadsTyped'
    BY <1>7 DEF ResetPort, Typed, ThreadsTyped, Threads, Places
  <2>6. RefreshTyped' /\ PublishTyped'
    BY <1>7 DEF ResetPort, Typed, RefreshTyped, PublishTyped, ThreadsTyped, Refreshing,
       Carrying, bulk
  <2> QED
    BY <2>1, <2>2, <2>3, <2>4, <2>5, <2>6 DEF Typed
<1> QED
  BY <1>1, <1>2, <1>3, <1>4, <1>5, <1>6, <1>7 DEF Disconnecting

\* So do the steps of a pass.
LEMMA PassKeepsTyped ==
  ASSUME Typed,
         \/ BeginPass \/ Connect \/ ReadState \/ ListParams \/ NextParam
         \/ Renew \/ Renewed \/ EndPass
  PROVE  Typed'
<1> USE SetupHolds
<1>1. CASE BeginPass
  <2>1. PlcTyped'
    BY <1>1 DEF BeginPass, Typed, PlcTyped
  <2>2. NeedTyped'
    BY <1>1 DEF BeginPass, Typed, NeedTyped, late
  <2>3. ParamsTyped'
    BY <1>1 DEF BeginPass, Typed, ParamsTyped
  <2>4. FeedsTyped'
    BY <1>1 DEF BeginPass, Typed, FeedsTyped, bulk
  <2>5. ThreadsTyped'
    BY <1>1 DEF BeginPass, Typed, ThreadsTyped, Threads, Places
  <2>6. RefreshTyped' /\ PublishTyped'
    BY <1>1 DEF BeginPass, Typed, RefreshTyped, PublishTyped, ThreadsTyped, Threads, Refreshers,
       Refreshing, Carrying, bulk
  <2> QED
    BY <2>1, <2>2, <2>3, <2>4, <2>5, <2>6 DEF Typed
<1>2. CASE Connect
  <2>1. PlcTyped'
    <3>1. /\ UNCHANGED <<plc, noted, subs>>
          /\ \/ UNCHANGED <<conns, up, client, stream>>
             \/ /\ conns' = conns + 1 /\ up' = up \cup {conns + 1}
                /\ client' = conns + 1 /\ stream' = <<>>
      BY <1>2 DEF Connect
    <3>2. conns \in Nat /\ up \subseteq 1 .. conns
      BY DEF Typed, PlcTyped
    <3>3. conns' \in Nat /\ up' \subseteq 1 .. conns' /\ client' \in 0 .. conns'
      <4>1. CASE UNCHANGED <<conns, up, client>>
        BY <4>1 DEF Typed, PlcTyped
      <4>2. CASE conns' = conns + 1 /\ up' = up \cup {conns + 1} /\ client' = conns + 1
        <5>1. \A c \in up : c \in 1 .. conns'
          BY <3>2, <4>2
        <5> QED
          BY <3>2, <4>2, <5>1
      <4> QED
        BY <3>1, <4>1, <4>2
    <3>4. stream' \in Seq(Nat \X Values)
      <4>1. <<>> \in Seq(Nat \X Values) /\ stream \in Seq(Nat \X Values)
        BY DEF Typed, PlcTyped
      <4> QED
        BY <3>1, <4>1
    <3> QED
      BY <3>1, <3>3, <3>4 DEF Typed, PlcTyped
  <2>2. NeedTyped'
    BY <1>2, Counted DEF Connect, Typed, NeedTyped, late
  <2>3. ParamsTyped'
    <3>1. conns' \in {conns, conns + 1} /\ UNCHANGED <<noted, handle, note, feed, value>>
      BY <1>2 DEF Connect
    <3>2. \A i \in 0 .. conns : i \in 0 .. conns'
      BY <3>1 DEF Typed, PlcTyped
    <3> QED
      BY <3>1, <3>2 DEF Typed, ParamsTyped
  <2>4. FeedsTyped'
    BY <1>2, Counted DEF Connect, Typed, FeedsTyped, bulk
  <2>5. ThreadsTyped'
    <3>1. conns' \in {conns, conns + 1} /\ UNCHANGED <<on, par, got, after>>
      BY <1>2 DEF Connect
    <3>2. pc' \in [Threads -> Places]
      BY <1>2 DEF Connect, Typed, ThreadsTyped, Places
    <3> QED
      BY <3>1, <3>2 DEF Typed, PlcTyped, ThreadsTyped
  <2>6. RefreshTyped' /\ PublishTyped'
    BY <1>2 DEF Connect, Typed, RefreshTyped, PublishTyped, ThreadsTyped, Threads, Refreshers,
       Refreshing, Carrying, bulk
  <2> QED
    BY <2>1, <2>2, <2>3, <2>4, <2>5, <2>6 DEF Typed
<1>3. CASE ReadState
  <2>1. PlcTyped'
    BY <1>3 DEF ReadState, Typed, PlcTyped
  <2>2. NeedTyped'
    BY <1>3 DEF ReadState, Typed, NeedTyped, late
  <2>3. ParamsTyped'
    BY <1>3 DEF ReadState, Typed, ParamsTyped
  <2>4. FeedsTyped'
    BY <1>3 DEF ReadState, Typed, FeedsTyped, bulk
  <2>5. ThreadsTyped'
    <3>1. pc' \in [Threads -> Places]
      BY <1>3 DEF ReadState, Typed, ThreadsTyped, Places
    <3>2. on' = [on EXCEPT !["sup"] = client] /\ after' \in {after, "end"}
      BY <1>3 DEF ReadState
    <3>3. UNCHANGED <<conns, par, got>>
      BY <1>3 DEF ReadState
    <3> QED
      BY <3>1, <3>2, <3>3 DEF Typed, PlcTyped, ThreadsTyped
  <2>6. RefreshTyped' /\ PublishTyped'
    BY <1>3 DEF ReadState, Typed, RefreshTyped, PublishTyped, ThreadsTyped, Threads, Refreshers,
       Refreshing, Carrying, bulk
  <2> QED
    BY <2>1, <2>2, <2>3, <2>4, <2>5, <2>6 DEF Typed
<1>4. CASE ListParams
  <2>1. PlcTyped'
    BY <1>4 DEF ListParams, Typed, PlcTyped
  <2>2. NeedTyped'
    BY <1>4 DEF ListParams, Typed, NeedTyped, late
  <2>3. ParamsTyped'
    BY <1>4 DEF ListParams, Typed, ParamsTyped
  <2>4. FeedsTyped'
    BY <1>4 DEF ListParams, Typed, FeedsTyped, bulk
  <2>5. ThreadsTyped'
    BY <1>4 DEF ListParams, Typed, ThreadsTyped, Threads, Places
  <2>6. RefreshTyped' /\ PublishTyped'
    BY <1>4 DEF ListParams, Typed, RefreshTyped, PublishTyped, Refreshing, Carrying, bulk
  <2> QED
    BY <2>1, <2>2, <2>3, <2>4, <2>5, <2>6 DEF Typed
<1>5. CASE NextParam
  <2>1. PlcTyped'
    BY <1>5 DEF NextParam, Typed, PlcTyped
  <2>2. NeedTyped'
    BY <1>5 DEF NextParam, Typed, NeedTyped, late
  <2>3. ParamsTyped'
    BY <1>5 DEF NextParam, Typed, ParamsTyped
  <2>4. FeedsTyped'
    BY <1>5 DEF NextParam, Typed, FeedsTyped, bulk
  <2>5. ThreadsTyped'
    <3>1. (CHOOSE q \in todo : TRUE) \in Params \/ todo = {}
      BY DEF Typed, NeedTyped
    <3>2. /\ par' = par \/ (todo # {} /\ par' = [par EXCEPT !["sup"] = CHOOSE q \in todo : TRUE])
          /\ UNCHANGED <<conns, on, got, after>>
      BY <1>5 DEF NextParam
    <3>3. pc' \in [Threads -> Places]
      BY <1>5 DEF NextParam, Typed, ThreadsTyped, Places, Refreshing
    <3> QED
      BY <3>1, <3>2, <3>3 DEF Typed, ThreadsTyped
  <2>6. RefreshTyped' /\ PublishTyped'
    <3>1. /\ pc["sup"] = "next"
          /\ pc'["sup"] \in Refreshing => pc'["sup"] = "info" /\ par'["sup"] \in Params
      BY <1>5 DEF NextParam, Typed, NeedTyped, ThreadsTyped, Threads, Refreshing
    <3>2. \A u \in {"act", "rd"} : pc'[u] = pc[u] /\ par'[u] = par[u]
      BY <1>5 DEF NextParam, Typed, ThreadsTyped, Threads
    <3>3. RefreshTyped'
      BY <1>5, <3>1, <3>2 DEF NextParam, Typed, RefreshTyped, Refreshers, Refreshing, Carrying,
         bulk
    <3>4. PublishTyped'
      BY <1>5, <3>2 DEF NextParam, Typed, PublishTyped
    <3> QED
      BY <3>3, <3>4
  <2> QED
    BY <2>1, <2>2, <2>3, <2>4, <2>5, <2>6 DEF Typed
<1>6. CASE Renew
  <2>1. PlcTyped'
    <3> DEFINE s == [n |-> noted + 1, of |-> NoParam, conn |-> client, seen |-> InitialValue]
    <3>1. s \in Subs
      BY DEF Typed, PlcTyped, Subs
    <3>2. \/ UNCHANGED plcside
          \/ subs' = subs \cup {s} /\ noted' = noted + 1 /\ UNCHANGED <<plc, conns, up, stream>>
      BY <1>6 DEF Renew, NewSub
    <3>3. client' = client
      BY <1>6 DEF Renew
    <3> QED
      BY <3>1, <3>2, <3>3, Counted DEF Typed, PlcTyped
  <2>2. NeedTyped'
    BY <1>6, Counted DEF Renew, NewSub, Typed, NeedTyped, late
  <2>3. ParamsTyped'
    <3>1. noted' \in {noted, noted + 1} /\ UNCHANGED <<conns, handle, note, feed, value>>
      BY <1>6 DEF Renew, NewSub
    <3>2. \A i \in 0 .. noted : i \in 0 .. noted'
      BY <3>1 DEF Typed, PlcTyped
    <3> QED
      BY <3>1, <3>2 DEF Typed, ParamsTyped
  <2>4. FeedsTyped'
    BY <1>6, Counted DEF Renew, NewSub, Typed, FeedsTyped, bulk
  <2>5. ThreadsTyped'
    BY <1>6, Counted DEF Renew, NewSub, Typed, ThreadsTyped, Places
  <2>6. RefreshTyped' /\ PublishTyped'
    <3>1. noted' \in {noted, noted + 1} /\ noted \in Nat
      BY <1>6 DEF Renew, NewSub, Typed, PlcTyped
    <3>2. pc'["sup"] \notin Refreshing /\ UNCHANGED <<pc["act"], par["act"], got["act"]>>
      BY <1>6 DEF Renew, Typed, ThreadsTyped, Threads, Refreshing
    <3>3. RefreshTyped'
      BY <1>6, <3>1, <3>2 DEF Renew, Typed, RefreshTyped, Refreshers, Refreshing, Carrying, bulk
    <3>4. PublishTyped'
      BY <1>6, <3>2 DEF Renew, Typed, PublishTyped, ThreadsTyped, Threads
    <3> QED
      BY <3>3, <3>4
  <2> QED
    BY <2>1, <2>2, <2>3, <2>4, <2>5, <2>6 DEF Typed
<1>7. CASE Renewed
  <2>1. PlcTyped'
    BY <1>7, Counted DEF Renewed, Typed, PlcTyped
  <2>2. NeedTyped'
    BY <1>7, Counted DEF Renewed, Typed, NeedTyped, late
  <2>3. ParamsTyped'
    BY <1>7, Counted DEF Renewed, Typed, ParamsTyped
  <2>4. FeedsTyped'
    BY <1>7, Counted DEF Renewed, Typed, FeedsTyped, bulk
  <2>5. ThreadsTyped'
    BY <1>7, Counted DEF Renewed, Typed, ThreadsTyped, Threads, Places
  <2>6. RefreshTyped' /\ PublishTyped'
    BY <1>7 DEF Renewed, Typed, RefreshTyped, PublishTyped, Refreshing, Carrying, bulk
  <2> QED
    BY <2>1, <2>2, <2>3, <2>4, <2>5, <2>6 DEF Typed
<1>8. CASE EndPass
  <2>1. PlcTyped'
    <3>1. on' \in [Threads -> 0 .. conns]
      BY <1>8, Counted DEF EndPass, Typed, ThreadsTyped
    <3> QED
      BY <1>8, <3>1, KeepTyped, Counted DEF EndPass, Typed, PlcTyped
  <2>2. NeedTyped'
    BY <1>8 DEF EndPass, Keep, Typed, NeedTyped, late
  <2>3. ParamsTyped'
    BY <1>8 DEF EndPass, Keep, Typed, ParamsTyped
  <2>4. FeedsTyped'
    BY <1>8 DEF EndPass, Keep, Typed, FeedsTyped, bulk
  <2>5. ThreadsTyped'
    <3>1. on' \in [Threads -> 0 .. conns] /\ conns' = conns
      BY <1>8, Counted DEF EndPass, Keep, Typed, ThreadsTyped
    <3>2. pc' \in {[pc EXCEPT !["sup"] = "take"], [pc EXCEPT !["sup"] = "idle"]}
      BY <1>8 DEF EndPass
    <3>3. after' = "idle" /\ UNCHANGED <<par, got>>
      BY <1>8 DEF EndPass
    <3> QED
      BY <3>1, <3>2, <3>3 DEF Typed, ThreadsTyped, Places
  <2>6. RefreshTyped' /\ PublishTyped'
    BY <1>8 DEF EndPass, Keep, Typed, RefreshTyped, PublishTyped, Refreshing, Carrying, bulk
  <2> QED
    BY <2>1, <2>2, <2>3, <2>4, <2>5, <2>6 DEF Typed
<1> QED
  BY <1>1, <1>2, <1>3, <1>4, <1>5, <1>6, <1>7, <1>8

\* So do the poller and the reader.
LEMMA PublishersKeepTyped == ASSUME Typed, Poller \/ Reader PROVE Typed'
<1> USE SetupHolds
<1>1. CASE PollSlots
  <2>1. PlcTyped'
    BY <1>1 DEF PollSlots, Typed, PlcTyped
  <2>2. NeedTyped'
    BY <1>1 DEF PollSlots, Typed, NeedTyped, late
  <2>3. ParamsTyped'
    BY <1>1 DEF PollSlots, Typed, ParamsTyped
  <2>4. FeedsTyped'
    <3> DEFINE a(k) == [reason |-> slots[k].reason, value |-> plc[slots[k].of],
                        good |-> slots[k].handle = client]
    <3>1. \A k \in 1 .. Len(slots) : a(k) \in Answers
      <4> SUFFICES ASSUME NEW k \in 1 .. Len(slots) PROVE a(k) \in Answers
          OBVIOUS
      <4>1. slots[k] \in BulkSlots
        BY DEF Typed, FeedsTyped
      <4> QED
        BY <4>1 DEF BulkSlots, Answers, Typed, PlcTyped
    <3>2. poll' = [k \in 1 .. Len(slots) |-> a(k)]
      BY <1>1 DEF PollSlots, Typed
    <3>3. Len(slots) \in Nat
      BY DEF Typed
    <3> HIDE DEF a
    <3>4. poll' \in Seq(Answers)
      BY ONLY <3>1, <3>2, <3>3
    <3> QED
      BY <1>1, <3>4 DEF PollSlots, Typed, FeedsTyped, bulk
  <2>5. ThreadsTyped'
    <3>1. /\ pc' = [pc EXCEPT !["bulk"] = "publish"] /\ on' = [on EXCEPT !["bulk"] = client]
          /\ UNCHANGED <<conns, par, got, after>>
      BY <1>1 DEF PollSlots
    <3> QED
      BY <3>1 DEF Typed, PlcTyped, ThreadsTyped, Places, Refreshing
  <2>6. RefreshTyped' /\ PublishTyped'
    BY <1>1 DEF PollSlots, Typed, RefreshTyped, PublishTyped, Refreshers, bulk
  <2> QED
    BY <2>1, <2>2, <2>3, <2>4, <2>5, <2>6 DEF Typed
<1>2. CASE PublishPolled
  <2>1. PlcTyped'
    BY <1>2 DEF PublishPolled, Show, Typed, PlcTyped
  <2>2. NeedTyped'
    BY <1>2 DEF PublishPolled, Show, Typed, NeedTyped, late
  <2>3. ParamsTyped'
    <3>1. Head(poll).value \in Values
      <4>1. Head(poll) \in Answers
        BY <1>2 DEF PublishPolled, Typed, FeedsTyped
      <4> QED
        BY <4>1 DEF Answers
    <3> QED
      BY <1>2, <3>1 DEF PublishPolled, Show, Typed, ParamsTyped
  <2>4. FeedsTyped'
    BY <1>2 DEF PublishPolled, Show, Typed, FeedsTyped, bulk
  <2>5. ThreadsTyped'
    BY <1>2 DEF PublishPolled, Show, Typed, ThreadsTyped, Threads, Places
  <2>6. RefreshTyped' /\ PublishTyped'
    BY <1>2 DEF PublishPolled, Show, Typed, RefreshTyped, PublishTyped, bulk
  <2> QED
    BY <2>1, <2>2, <2>3, <2>4, <2>5, <2>6 DEF Typed
<1>3. CASE EndPoll
  <2>1. PlcTyped'
    BY <1>3, IdleTyped DEF EndPoll, Threads
  <2>2. NeedTyped'
    BY <1>3, IdleTyped DEF EndPoll, Typed, NeedTyped, late
  <2>3. ParamsTyped'
    <3>1. conns' = conns /\ noted' = noted
      BY <1>3, IdleTyped DEF EndPoll, Threads
    <3> QED
      BY <1>3, <3>1 DEF EndPoll, Typed, ParamsTyped
  <2>4. FeedsTyped'
    BY <1>3, IdleTyped DEF EndPoll, Typed, FeedsTyped, bulk
  <2>5. ThreadsTyped'
    BY <1>3, IdleTyped DEF EndPoll, Typed, ThreadsTyped, Threads, Places
  <2>6. RefreshTyped' /\ PublishTyped'
    BY <1>3, IdleTyped DEF EndPoll, Typed, RefreshTyped, PublishTyped, ThreadsTyped, Threads,
       Refreshers, bulk
  <2> QED
    BY <2>1, <2>2, <2>3, <2>4, <2>5, <2>6 DEF Typed
<1>4. CASE TakeSample
  <2>1. PlcTyped'
    BY <1>4 DEF TakeSample, Typed, PlcTyped
  <2>2. NeedTyped'
    BY <1>4 DEF TakeSample, Typed, NeedTyped, late
  <2>3. ParamsTyped'
    BY <1>4 DEF TakeSample, Typed, ParamsTyped
  <2>4. FeedsTyped'
    BY <1>4 DEF TakeSample, Typed, FeedsTyped, bulk
  <2>5. ThreadsTyped'
    <3>1. Head(stream) \in Nat \X Values
      BY <1>4 DEF TakeSample, Typed, PlcTyped
    <3>2. Head(stream)[2] \in Values
      BY <3>1
    <3>3. \A n \in DOMAIN notifications : notifications[n] \in Params
      BY DEF Typed, FeedsTyped
    <3>4. /\ pc' = pc \/ pc' = [pc EXCEPT !["rd"] = "publish"]
          /\ got' = got \/ got' = [got EXCEPT !["rd"] = Head(stream)[2]]
          /\ \/ par' = par
             \/ \E n \in DOMAIN notifications : par' = [par EXCEPT !["rd"] = notifications[n]]
          /\ UNCHANGED <<conns, on, after>>
      BY <1>4 DEF TakeSample
    <3> QED
      BY <3>2, <3>3, <3>4 DEF Typed, ThreadsTyped, Places, Refreshing
  <2>6. RefreshTyped' /\ PublishTyped'
    <3>1. Head(stream) \in Nat \X Values
      BY <1>4 DEF TakeSample, Typed, PlcTyped
    <3>2. Head(stream)[2] \in Values
      BY <3>1
    <3>3. \A t \in Refreshers : pc'[t] = pc[t] /\ par'[t] = par[t] /\ got'[t] = got[t]
      BY <1>4 DEF TakeSample, Typed, ThreadsTyped, Refreshers, Threads
    <3>4. RefreshTyped'
      BY <1>4, <3>3 DEF TakeSample, Typed, RefreshTyped, bulk
    <3>5. PublishTyped'
      BY <1>4, <3>2, <3>3 DEF TakeSample, Typed, PublishTyped, ThreadsTyped, FeedsTyped,
         Refreshers
    <3> QED
      BY <3>4, <3>5
  <2> QED
    BY <2>1, <2>2, <2>3, <2>4, <2>5, <2>6 DEF Typed
<1>5. CASE PublishSample
  <2>1. PlcTyped'
    BY <1>5, Counted DEF PublishSample, Show, Typed, PlcTyped
  <2>2. NeedTyped'
    BY <1>5, Counted DEF PublishSample, Show, Typed, NeedTyped, late
  <2>3. ParamsTyped'
    <3>1. got["rd"] \in Values
      BY <1>5 DEF PublishSample, Typed, PublishTyped
    <3> QED
      BY <1>5, <3>1 DEF PublishSample, Show, Typed, ParamsTyped
  <2>4. FeedsTyped'
    BY <1>5, Counted DEF PublishSample, Show, Typed, FeedsTyped, bulk
  <2>5. ThreadsTyped'
    BY <1>5, Counted DEF PublishSample, Show, Typed, ThreadsTyped, Places
  <2>6. RefreshTyped' /\ PublishTyped'
    BY <1>5, Counted DEF PublishSample, Typed, RefreshTyped, PublishTyped, ThreadsTyped,
       Refreshers, bulk
  <2> QED
    BY <2>1, <2>2, <2>3, <2>4, <2>5, <2>6 DEF Typed
<1> QED
  BY <1>1, <1>2, <1>3, <1>4, <1>5 DEF Poller, Reader

\* So do binds, writes, and what happens in the PLC and on the network.
LEMMA OthersKeepTyped == ASSUME Typed, PublishWritten \/ Push \/ Environment PROVE Typed'
<1> USE SetupHolds
<1>1. CASE PublishWritten
  <2>1. PlcTyped'
    BY <1>1, IdleTyped DEF PublishWritten, Threads
  <2>2. NeedTyped'
    BY <1>1, IdleTyped DEF PublishWritten, Show, Typed, NeedTyped, late
  <2>3. ParamsTyped'
    <3>1. conns' = conns /\ noted' = noted
      BY <1>1, IdleTyped DEF PublishWritten, Threads
    <3>2. got["act"] \in Values
      BY <1>1 DEF PublishWritten, Typed, PublishTyped
    <3> QED
      BY <1>1, <3>1, <3>2 DEF PublishWritten, Show, Typed, ParamsTyped
  <2>4. FeedsTyped'
    BY <1>1, IdleTyped DEF PublishWritten, Show, Typed, FeedsTyped, bulk
  <2>5. ThreadsTyped'
    BY <1>1, IdleTyped DEF PublishWritten, Typed, ThreadsTyped, Threads, Places
  <2>6. RefreshTyped' /\ PublishTyped'
    BY <1>1, IdleTyped DEF PublishWritten, Typed, RefreshTyped, PublishTyped, ThreadsTyped,
       Threads, Refreshers, Refreshing, Carrying, bulk
  <2> QED
    BY <2>1, <2>2, <2>3, <2>4, <2>5, <2>6 DEF Typed
<1>2. CASE Push
  <2>1. PlcTyped'
    <3> DEFINE now(s) == IF s.of = NoParam THEN InitialValue ELSE plc[s.of]
    <3>1. PICK s \in subs : /\ subs' = (subs \ {s}) \cup {[s EXCEPT !.seen = now(s)]}
                            /\ stream' = Append(stream, <<s.n, now(s)>>)
      BY <1>2 DEF Push
    <3>2. s \in Subs
      BY DEF Typed, PlcTyped
    <3>3. now(s) \in Values /\ s.n \in Nat
      BY <3>2 DEF Subs, Typed, PlcTyped
    <3> HIDE DEF now
    <3>4. [s EXCEPT !.seen = now(s)] \in Subs
      BY <3>2, <3>3 DEF Subs
    <3>5. stream' \in Seq(Nat \X Values)
      <4>1. stream \in Seq(Nat \X Values) /\ <<s.n, now(s)>> \in Nat \X Values
        BY <3>3 DEF Typed, PlcTyped
      <4> QED
        BY ONLY <3>1, <4>1
    <3>6. UNCHANGED <<plc, noted, conns, up, client>>
      BY <1>2 DEF Push, driver, driver
    <3> QED
      BY <3>1, <3>4, <3>5, <3>6 DEF Typed, PlcTyped
  <2>2. NeedTyped'
    BY <1>2 DEF Push, driver, Typed, NeedTyped, late
  <2>3. ParamsTyped'
    BY <1>2 DEF Push, driver, Typed, ParamsTyped
  <2>4. FeedsTyped'
    BY <1>2 DEF Push, driver, Typed, FeedsTyped, bulk
  <2>5. ThreadsTyped'
    BY <1>2 DEF Push, driver, Typed, ThreadsTyped, Threads, Places
  <2>6. RefreshTyped' /\ PublishTyped'
    BY <1>2 DEF Push, driver, Typed, RefreshTyped, PublishTyped, bulk
  <2> QED
    BY <2>1, <2>2, <2>3, <2>4, <2>5, <2>6 DEF Typed
<1>3. CASE Download
  <2>1. PlcTyped'
    <3>1. \A s \in subs : [s EXCEPT !.seen = NoValue] \in Subs
      BY DEF Typed, PlcTyped, Subs
    <3>2. subs' \subseteq Subs
      BY <1>3, <3>1 DEF Download, driver, Typed, PlcTyped
    <3> QED
      BY <1>3, <3>2 DEF Download, driver, driver, Typed, PlcTyped
  <2>2. NeedTyped'
    BY <1>3 DEF Download, driver, Typed, NeedTyped, late
  <2>3. ParamsTyped'
    BY <1>3 DEF Download, driver, Typed, ParamsTyped
  <2>4. FeedsTyped'
    BY <1>3 DEF Download, driver, Typed, FeedsTyped, bulk
  <2>5. ThreadsTyped'
    BY <1>3 DEF Download, driver, Typed, ThreadsTyped, Threads, Places
  <2>6. RefreshTyped' /\ PublishTyped'
    BY <1>3 DEF Download, driver, Typed, RefreshTyped, PublishTyped, bulk
  <2> QED
    BY <2>1, <2>2, <2>3, <2>4, <2>5, <2>6 DEF Typed
<1>4. CASE StopOrRun
  <2>1. PlcTyped'
    BY <1>4 DEF StopOrRun, driver, Typed, PlcTyped
  <2>2. NeedTyped'
    BY <1>4 DEF StopOrRun, driver, Typed, NeedTyped, late
  <2>3. ParamsTyped'
    BY <1>4 DEF StopOrRun, driver, Typed, ParamsTyped
  <2>4. FeedsTyped'
    BY <1>4 DEF StopOrRun, driver, Typed, FeedsTyped, bulk
  <2>5. ThreadsTyped'
    BY <1>4 DEF StopOrRun, driver, Typed, ThreadsTyped, Threads, Places
  <2>6. RefreshTyped' /\ PublishTyped'
    BY <1>4 DEF StopOrRun, driver, Typed, RefreshTyped, PublishTyped, bulk
  <2> QED
    BY <2>1, <2>2, <2>3, <2>4, <2>5, <2>6 DEF Typed
<1>5. CASE LinkLost
  <2>1. PlcTyped'
    BY <1>5 DEF LinkLost, driver, Typed, PlcTyped
  <2>2. NeedTyped'
    BY <1>5 DEF LinkLost, driver, Typed, NeedTyped, late
  <2>3. ParamsTyped'
    BY <1>5 DEF LinkLost, driver, Typed, ParamsTyped
  <2>4. FeedsTyped'
    BY <1>5 DEF LinkLost, driver, Typed, FeedsTyped, bulk
  <2>5. ThreadsTyped'
    BY <1>5 DEF LinkLost, driver, Typed, ThreadsTyped, Threads, Places
  <2>6. RefreshTyped' /\ PublishTyped'
    BY <1>5 DEF LinkLost, driver, Typed, RefreshTyped, PublishTyped, bulk
  <2> QED
    BY <2>1, <2>2, <2>3, <2>4, <2>5, <2>6 DEF Typed
<1>6. CASE \E p \in Params : Bind(p)
  <2>1. PlcTyped'
    BY <1>6 DEF Bind, Typed, PlcTyped
  <2>2. NeedTyped'
    BY <1>6 DEF Bind, Typed, NeedTyped, late
  <2>3. ParamsTyped'
    BY <1>6 DEF Bind, Typed, ParamsTyped
  <2>4. FeedsTyped'
    BY <1>6 DEF Bind, Typed, FeedsTyped, bulk
  <2>5. ThreadsTyped'
    BY <1>6 DEF Bind, Typed, ThreadsTyped, Threads, Places, Refreshing
  <2>6. RefreshTyped' /\ PublishTyped'
    BY <1>6 DEF Bind, Typed, RefreshTyped, PublishTyped, ThreadsTyped, Threads, Refreshers,
       Carrying, bulk
  <2> QED
    BY <2>1, <2>2, <2>3, <2>4, <2>5, <2>6 DEF Typed
<1>7. CASE \E p \in Params : Rebind(p)
  <2>1. PlcTyped'
    BY <1>7 DEF Rebind, Typed, PlcTyped
  <2>2. NeedTyped'
    BY <1>7 DEF Rebind, Typed, NeedTyped, late
  <2>3. ParamsTyped'
    BY <1>7 DEF Rebind, Typed, ParamsTyped
  <2>4. FeedsTyped'
    BY <1>7 DEF Rebind, Typed, FeedsTyped, bulk
  <2>5. ThreadsTyped'
    <3>1. PICK p \in Params : Rebind(p)
      BY <1>7
    <3>2. /\ pc' \in {[pc EXCEPT !["act"] = "info"], [pc EXCEPT !["act"] = "written"]}
          /\ on' \in {on, [on EXCEPT !["act"] = client]}
          /\ got' \in {got, [got EXCEPT !["act"] = plc[p]]}
          /\ par' = [par EXCEPT !["act"] = p] /\ UNCHANGED <<conns, after>>
      BY <3>1 DEF Rebind
    <3>3. plc[p] \in Values /\ client \in 0 .. conns
      BY DEF Typed, PlcTyped
    <3>4. got' \in [Threads -> Nat \cup Values]
      BY <3>2, <3>3 DEF Typed, ThreadsTyped
    <3>5. pc' \in [Threads -> Places] /\ on' \in [Threads -> 0 .. conns]
      BY <3>2, <3>3 DEF Typed, ThreadsTyped, Places, Refreshing
    <3> QED
      BY <3>2, <3>4, <3>5 DEF Typed, ThreadsTyped
  <2>6. RefreshTyped' /\ PublishTyped'
    <3>1. PICK p \in Params : Rebind(p)
      BY <1>7
    <3>2. plc[p] \in Values
      BY DEF Typed, PlcTyped
    <3>3. /\ pc'["act"] \in {"info", "written"} /\ par'["act"] = p
          /\ pc'["act"] = "written" => got'["act"] = plc[p]
      BY <3>1 DEF Rebind, Typed, ThreadsTyped, Threads
    <3>4. \A u \in {"sup", "rd"} : pc'[u] = pc[u] /\ par'[u] = par[u] /\ got'[u] = got[u]
      BY <3>1 DEF Rebind, Typed, ThreadsTyped, Threads
    <3>5. UNCHANGED <<noted, setup>>
      BY <3>1 DEF Rebind
    <3>6. RefreshTyped'
      BY <3>3, <3>4, <3>5 DEF Typed, RefreshTyped, Refreshers, Carrying, bulk
    <3>7. PublishTyped'
      BY <3>2, <3>3, <3>4 DEF Typed, PublishTyped
    <3> QED
      BY <3>6, <3>7
  <2> QED
    BY <2>1, <2>2, <2>3, <2>4, <2>5, <2>6 DEF Typed
<1>8. CASE \E p \in Params, v \in Values : Write(p, v)
  <2>1. PlcTyped'
    BY <1>8 DEF Write, Typed, PlcTyped
  <2>2. NeedTyped'
    BY <1>8 DEF Write, Typed, NeedTyped, late
  <2>3. ParamsTyped'
    BY <1>8 DEF Write, Typed, ParamsTyped
  <2>4. FeedsTyped'
    BY <1>8 DEF Write, Typed, FeedsTyped, bulk
  <2>5. ThreadsTyped'
    <3>1. PICK p \in Params : \E v \in Values : Write(p, v)
      BY <1>8
    <3>2. PICK v \in Values : Write(p, v)
      BY <3>1
    <3>3. /\ pc' = [pc EXCEPT !["act"] = "written"] /\ on' = [on EXCEPT !["act"] = client]
          /\ got' = [got EXCEPT !["act"] = v] /\ par' = [par EXCEPT !["act"] = p]
          /\ UNCHANGED <<conns, after>>
      BY <3>2 DEF Write
    <3> QED
      BY <3>3 DEF Typed, PlcTyped, ThreadsTyped, Places
  <2>6. RefreshTyped' /\ PublishTyped'
    BY <1>8 DEF Write, Typed, RefreshTyped, PublishTyped, ThreadsTyped, Carrying, bulk
  <2> QED
    BY <2>1, <2>2, <2>3, <2>4, <2>5, <2>6 DEF Typed
<1>9. CASE \E p \in Params, v \in Values : WriteFails(p, v)
  <2>1. PlcTyped'
    BY <1>9 DEF WriteFails, Typed, PlcTyped
  <2>2. NeedTyped'
    BY <1>9 DEF WriteFails, Typed, NeedTyped, late
  <2>3. ParamsTyped'
    BY <1>9 DEF WriteFails, Typed, ParamsTyped
  <2>4. FeedsTyped'
    BY <1>9 DEF WriteFails, Typed, FeedsTyped, bulk
  <2>5. ThreadsTyped'
    BY <1>9 DEF WriteFails, Typed, ThreadsTyped, Threads, Places
  <2>6. RefreshTyped' /\ PublishTyped'
    BY <1>9 DEF WriteFails, Typed, RefreshTyped, PublishTyped, ThreadsTyped, bulk
  <2> QED
    BY <2>1, <2>2, <2>3, <2>4, <2>5, <2>6 DEF Typed
<1>10. CASE \E p \in Params, v \in Values : PlcChanges(p, v)
  <2>1. PlcTyped'
    BY <1>10 DEF PlcChanges, driver, Typed, PlcTyped
  <2>2. NeedTyped'
    BY <1>10 DEF PlcChanges, driver, Typed, NeedTyped, late
  <2>3. ParamsTyped'
    BY <1>10 DEF PlcChanges, driver, Typed, ParamsTyped
  <2>4. FeedsTyped'
    BY <1>10 DEF PlcChanges, driver, Typed, FeedsTyped, bulk
  <2>5. ThreadsTyped'
    BY <1>10 DEF PlcChanges, driver, Typed, ThreadsTyped, Threads, Places
  <2>6. RefreshTyped' /\ PublishTyped'
    BY <1>10 DEF PlcChanges, driver, Typed, RefreshTyped, PublishTyped, bulk
  <2> QED
    BY <2>1, <2>2, <2>3, <2>4, <2>5, <2>6 DEF Typed
<1> QED
  BY <1>1, <1>2, <1>3, <1>4, <1>5, <1>6, <1>7, <1>8, <1>9, <1>10 DEF Environment

\* Every step keeps the types.
LEMMA TypedStep == Typed /\ [Next]_vars => Typed'
<1> SUFFICES ASSUME Typed, [Next]_vars PROVE Typed'
    OBVIOUS
<1>1. CASE Refresh("sup") \/ Refresh("act")
  BY <1>1, RefreshKeepsTyped DEF Refreshers
<1>2. CASE Disconnecting
  BY <1>2, DisconnectKeepsTyped
<1>3. CASE \/ BeginPass \/ Connect \/ ReadState \/ ListParams \/ NextParam
           \/ Renew \/ Renewed \/ EndPass
  BY <1>3, PassKeepsTyped
<1>4. CASE Poller \/ Reader
  BY <1>4, PublishersKeepTyped
<1>5. CASE PublishWritten \/ Push \/ Environment
  BY <1>5, OthersKeepTyped
<1>6. CASE UNCHANGED vars
  <2>1. PlcTyped' /\ NeedTyped' /\ ParamsTyped'
    BY <1>6 DEF vars, Typed, PlcTyped, NeedTyped, ParamsTyped, late
  <2>2. FeedsTyped' /\ ThreadsTyped'
    BY <1>6 DEF vars, Typed, FeedsTyped, ThreadsTyped, bulk
  <2>3. RefreshTyped' /\ PublishTyped'
    BY <1>6 DEF vars, Typed, RefreshTyped, PublishTyped, bulk
  <2> QED
    BY <2>1, <2>2, <2>3 DEF Typed
<1> QED
  BY <1>1, <1>2, <1>3, <1>4, <1>5, <1>6 DEF Next, Supervisor, Actor

\* The parameters keep their types, a handle is of a connection made and a
\* notification's number one given out, whatever fails and reconnects
\* (`refresh_param`, `disconnect`), and a bulk group has slots of polled
\* parameters only (`add_to_bulk`).
THEOREM PortTypeCorrect == Spec => []TypeOK
<1>1. Typed => TypeOK
  BY DEF Typed, PlcTyped, NeedTyped, ParamsTyped, FeedsTyped, TypeOK
<1> QED
  BY <1>1, InitTyped, TypedStep, PTL DEF Spec

--------------------------------------------------------------------------------
\* Nothing the supervisor is at changes.
SupSame == /\ pc'["sup"] = pc["sup"] /\ par'["sup"] = par["sup"]
           /\ on'["sup"] = on["sup"] /\ got'["sup"] = got["sup"]
           /\ UNCHANGED <<client, setup, conns, todo, after>>
\* No subscription on the client's connection is lost.
SubsStay == \A n \in Nat, p \in Params : SubscribedAs(n, p) => SubscribedAs(n, p)'

\* The port starts with all to be refreshed.
LEMMA InitFed == Init => FedInv
<1> SUFFICES ASSUME Init PROVE FedInv
    OBVIOUS
<1>1. ActorIsLate /\ OwnNumbers /\ GivingUp
  BY DEF Init, Threads, Refreshers, Refreshing, Carrying, ActorIsLate, OwnNumbers, GivingUp,
     Early
<1>2. SupDoes /\ SupAchieves /\ EarlyAreFed
  BY DEF Init, Threads, Refreshing, SupDoes, SupAchieves, EarlyAreFed, Early
<1> QED
  BY <1>1, <1>2 DEF FedInv

\* Numbers stay apart while none changes hands.
LEMMA NumbersFrame ==
  ASSUME OwnNumbers, note' = note,
         \A t \in Refreshers : pc'[t] \in Carrying => pc[t] \in Carrying /\ got'[t] = got[t]
  PROVE  OwnNumbers'
BY DEF OwnNumbers, Refreshers

\* What another thread must leave alone for the supervisor's sake.
LEMMA OthersFrame ==
  ASSUME Typed, FedInv, SupSame,
         \A p \in Early : /\ p \in need <=> p \in need'
                          /\ handle'[p] = handle[p]
                          /\ Fed(p) => Fed(p)',
         pc["sup"] \in {"insert", "mark"} =>
           \A p \in Params : SubscribedAs(got["sup"], p) => SubscribedAs(got["sup"], p)',
         pc["sup"] = "mark" /\ got["sup"] \in DOMAIN notifications =>
           /\ got["sup"] \in DOMAIN notifications'
           /\ notifications'[got["sup"]] = notifications[got["sup"]]
  PROVE  GivingUp' /\ SupDoes' /\ SupAchieves' /\ EarlyAreFed'
<1>1. Early' = Early
  BY DEF SupSame, Early, late
<1>2. GivingUp'
  BY <1>1 DEF SupSame, FedInv, GivingUp
<1>3. SupDoes'
  <2>1. late' = late /\ todo \subseteq Params
    BY DEF SupSame, late, Typed, NeedTyped
  <2> QED
    BY <2>1 DEF SupSame, FedInv, SupDoes, Early
<1>4. SupAchieves'
  BY <1>1 DEF SupSame, FedInv, SupAchieves, Early
<1>5. EarlyAreFed'
  BY <1>1 DEF SupSame, FedInv, EarlyAreFed
<1> QED
  BY <1>2, <1>3, <1>4, <1>5

\* A step that leaves the feeds alone and loses no subscription.
LEMMA QuietFrame ==
  ASSUME Typed, FedInv, SupSame, SubsStay, UNCHANGED <<note, notifications, slots>>,
         \A p \in Early : (p \in need <=> p \in need') /\ handle'[p] = handle[p]
  PROVE  GivingUp' /\ SupDoes' /\ SupAchieves' /\ EarlyAreFed'
<1>1. ASSUME NEW p \in Early, Fed(p) PROVE Fed(p)'
  <2>1. p \in Params /\ note[p] \in Nat /\ bulk' = bulk
    BY DEF Early, Typed, PlcTyped, ParamsTyped, SupSame, bulk
  <2>2. CASE p \in bulk
    BY <1>1, <2>1, <2>2 DEF Fed, Polled, OnFirst, SupSame
  <2>3. CASE p \notin bulk
    <3>1. SubscribedAs(note[p], p)
      BY <1>1, <2>3 DEF Fed, Subscribed, SubscribedAs
    <3>2. SubscribedAs(note[p], p)'
      BY <2>1, <3>1 DEF SubsStay
    <3> QED
      BY <1>1, <2>1, <2>3, <3>2 DEF Fed, Subscribed, SubscribedAs
  <2> QED
    BY <2>2, <2>3
<1>2. pc["sup"] \in {"insert", "mark"} => got["sup"] \in Nat
  BY DEF Typed, PlcTyped, RefreshTyped, Refreshers, Carrying
<1>3. ASSUME pc["sup"] \in {"insert", "mark"}, NEW p \in Params, SubscribedAs(got["sup"], p)
      PROVE  SubscribedAs(got["sup"], p)'
  BY <1>2, <1>3 DEF SubsStay, SubscribedAs, SupSame
<1> QED
  BY <1>1, <1>3, OthersFrame

\* Closing other connections loses none.
LEMMA KeepStays == ASSUME Keep(client) PROVE SubsStay
BY DEF Keep, SubsStay, SubscribedAs
LEMMA SameStays == ASSUME UNCHANGED <<subs, up, client>> PROVE SubsStay
BY DEF SubsStay, SubscribedAs
LEMMA NewStays == ASSUME NEW p, NewSub(p), client' = client PROVE SubsStay
BY DEF NewSub, SubsStay, SubscribedAs

--------------------------------------------------------------------------------
\* The poller and the reader feed values only.
LEMMA PublishersKeepFed == ASSUME Typed, FedInv, Poller \/ Reader PROVE FedInv'
<1>1. CASE PollSlots
  <2>1. SupSame /\ UNCHANGED <<note, notifications, slots, need, handle>>
    BY <1>1 DEF PollSlots, SupSame, Typed, ThreadsTyped
  <2>2. SubsStay
    BY <1>1, SameStays DEF PollSlots
  <2>3. ActorIsLate'
    BY <1>1 DEF PollSlots, FedInv, ActorIsLate, Typed, ThreadsTyped, late
  <2>4. \A t \in Refreshers : pc'[t] \in Carrying => pc[t] \in Carrying /\ got'[t] = got[t]
    BY <1>1 DEF PollSlots, Typed, ThreadsTyped, Threads, Refreshers
  <2>5. OwnNumbers'
    BY <2>1, <2>4, NumbersFrame DEF FedInv
  <2> QED
    BY <2>1, <2>2, <2>3, <2>5, QuietFrame DEF FedInv
<1>2. CASE PublishPolled
  <2>1. SupSame /\ UNCHANGED <<note, notifications, slots, need, handle>>
    BY <1>2 DEF PublishPolled, SupSame, Typed, ThreadsTyped
  <2>2. SubsStay
    BY <1>2, SameStays DEF PublishPolled
  <2>3. ActorIsLate'
    BY <1>2 DEF PublishPolled, FedInv, ActorIsLate, Typed, ThreadsTyped, late
  <2>4. \A t \in Refreshers : pc'[t] \in Carrying => pc[t] \in Carrying /\ got'[t] = got[t]
    BY <1>2 DEF PublishPolled, Typed, ThreadsTyped, Threads, Refreshers
  <2>5. OwnNumbers'
    BY <2>1, <2>4, NumbersFrame DEF FedInv
  <2> QED
    BY <2>1, <2>2, <2>3, <2>5, QuietFrame DEF FedInv
<1>3. CASE EndPoll
  <2>1. SupSame /\ UNCHANGED <<note, notifications, slots, need, handle>>
    BY <1>3 DEF EndPoll, Idle, Keep, SupSame, Typed, ThreadsTyped
  <2>2. SubsStay
    BY <1>3, KeepStays DEF EndPoll, Idle
  <2>3. ActorIsLate'
    BY <1>3 DEF EndPoll, Idle, FedInv, ActorIsLate, Typed, late
  <2>4. \A t \in Refreshers : pc'[t] \in Carrying => pc[t] \in Carrying /\ got'[t] = got[t]
    BY <1>3 DEF EndPoll, Idle, Keep, Typed, ThreadsTyped, Refreshers
  <2>5. OwnNumbers'
    BY <2>1, <2>4, NumbersFrame DEF FedInv
  <2> QED
    BY <2>1, <2>2, <2>3, <2>5, QuietFrame DEF FedInv
<1>4. CASE TakeSample
  <2>1. SupSame /\ UNCHANGED <<note, notifications, slots, need, handle>>
    BY <1>4 DEF TakeSample, SupSame, Typed, ThreadsTyped, Threads
  <2>2. SubsStay
    BY <1>4, SameStays DEF TakeSample
  <2>3. ActorIsLate'
    BY <1>4 DEF TakeSample, FedInv, ActorIsLate, Typed, ThreadsTyped, Threads, late
  <2>4. \A t \in Refreshers : pc'[t] \in Carrying => pc[t] \in Carrying /\ got'[t] = got[t]
    BY <1>4 DEF TakeSample, Typed, ThreadsTyped, Threads, Refreshers
  <2>5. OwnNumbers'
    BY <2>1, <2>4, NumbersFrame DEF FedInv
  <2> QED
    BY <2>1, <2>2, <2>3, <2>5, QuietFrame DEF FedInv
<1>5. CASE PublishSample
  <2>1. SupSame /\ UNCHANGED <<note, notifications, slots, need, handle>>
    BY <1>5 DEF PublishSample, SupSame, Typed, ThreadsTyped
  <2>2. SubsStay
    BY <1>5, SameStays DEF PublishSample
  <2>3. ActorIsLate'
    BY <1>5 DEF PublishSample, FedInv, ActorIsLate, Typed, ThreadsTyped, late
  <2>4. \A t \in Refreshers : pc'[t] \in Carrying => pc[t] \in Carrying /\ got'[t] = got[t]
    BY <1>5 DEF PublishSample, Typed, ThreadsTyped, Threads, Refreshers
  <2>5. OwnNumbers'
    BY <2>1, <2>4, NumbersFrame DEF FedInv
  <2> QED
    BY <2>1, <2>2, <2>3, <2>5, QuietFrame DEF FedInv
<1> QED
  BY <1>1, <1>2, <1>3, <1>4, <1>5 DEF Poller, Reader

\* A bind or a write, the PLC and the network leave the feeds that are there.
LEMMA OthersKeepFed == ASSUME Typed, FedInv, PublishWritten \/ Push \/ Environment PROVE FedInv'
<1>1. CASE PublishWritten
  <2>1. SupSame /\ UNCHANGED <<note, notifications, slots, need, handle>>
    BY <1>1 DEF PublishWritten, Idle, Keep, SupSame, Typed, ThreadsTyped
  <2>2. SubsStay
    BY <1>1, KeepStays DEF PublishWritten, Idle
  <2>3. ActorIsLate'
    BY <1>1 DEF PublishWritten, Idle, Keep, ActorIsLate, Typed, Refreshing
  <2>4. \A t \in Refreshers : pc'[t] \in Carrying => pc[t] \in Carrying /\ got'[t] = got[t]
    BY <1>1 DEF PublishWritten, Idle, Keep, Typed, ThreadsTyped, Carrying
  <2>5. OwnNumbers'
    BY <2>1, <2>4, NumbersFrame DEF FedInv
  <2> QED
    BY <2>1, <2>2, <2>3, <2>5, QuietFrame DEF FedInv
<1>2. CASE Push
  <2>1. SupSame /\ UNCHANGED <<note, notifications, slots, need, handle>>
    BY <1>2 DEF Push, driver, SupSame, Typed, ThreadsTyped
  <2>2. SubsStay
    <3>1. PICK s \in subs : \E v \in Values : subs' = (subs \ {s}) \cup {[s EXCEPT !.seen = v]}
      <4>1. \A s \in subs : s.of # NoParam => plc[s.of] \in Values
        BY DEF Typed, PlcTyped, Subs
      <4> QED
        BY <1>2, <4>1 DEF Push
    <3>2. PICK v \in Values : subs' = (subs \ {s}) \cup {[s EXCEPT !.seen = v]}
      BY <3>1
    <3>3. s \in Subs
      BY DEF Typed, PlcTyped
    <3> DEFINE r == [s EXCEPT !.seen = v]
    <3>4. r \in subs' /\ r.n = s.n /\ r.of = s.of /\ r.conn = s.conn
      BY <3>2, <3>3 DEF Subs
    <3> HIDE DEF r
    <3>5. \A x \in subs : x \in subs' \/ x = s
      BY <3>2
    <3>6. UNCHANGED <<up, client>>
      BY <1>2 DEF Push, driver
    <3> QED
      BY <3>4, <3>5, <3>6 DEF SubsStay, SubscribedAs
  <2>3. ActorIsLate'
    BY <1>2 DEF Push, driver, FedInv, ActorIsLate, Typed, late
  <2>4. \A t \in Refreshers : pc'[t] \in Carrying => pc[t] \in Carrying /\ got'[t] = got[t]
    BY <1>2 DEF Push, driver, Typed, ThreadsTyped, Threads, Refreshers
  <2>5. OwnNumbers'
    BY <2>1, <2>4, NumbersFrame DEF FedInv
  <2> QED
    BY <2>1, <2>2, <2>3, <2>5, QuietFrame DEF FedInv
<1>3. CASE Download
  <2>1. SupSame /\ UNCHANGED <<note, notifications, slots, need, handle>>
    BY <1>3 DEF Download, driver, SupSame, Typed, ThreadsTyped
  <2>2. SubsStay
    BY <1>3 DEF Download, driver, SubsStay, SubscribedAs
  <2>3. ActorIsLate'
    BY <1>3 DEF Download, driver, FedInv, ActorIsLate, Typed, late
  <2>4. \A t \in Refreshers : pc'[t] \in Carrying => pc[t] \in Carrying /\ got'[t] = got[t]
    BY <1>3 DEF Download, driver, Typed, ThreadsTyped, Threads, Refreshers
  <2>5. OwnNumbers'
    BY <2>1, <2>4, NumbersFrame DEF FedInv
  <2> QED
    BY <2>1, <2>2, <2>3, <2>5, QuietFrame DEF FedInv
<1>4. CASE StopOrRun
  <2>1. SupSame /\ UNCHANGED <<note, notifications, slots, need, handle>>
    BY <1>4 DEF StopOrRun, driver, SupSame, Typed, ThreadsTyped
  <2>2. SubsStay
    BY <1>4, SameStays DEF StopOrRun, driver
  <2>3. ActorIsLate'
    BY <1>4 DEF StopOrRun, driver, FedInv, ActorIsLate, Typed, late
  <2>4. \A t \in Refreshers : pc'[t] \in Carrying => pc[t] \in Carrying /\ got'[t] = got[t]
    BY <1>4 DEF StopOrRun, driver, Typed, ThreadsTyped, Threads, Refreshers
  <2>5. OwnNumbers'
    BY <2>1, <2>4, NumbersFrame DEF FedInv
  <2> QED
    BY <2>1, <2>2, <2>3, <2>5, QuietFrame DEF FedInv
<1>5. CASE LinkLost
  <2>1. SupSame /\ UNCHANGED <<note, notifications, slots, need, handle>>
    BY <1>5 DEF LinkLost, driver, SupSame, Typed, ThreadsTyped
  <2>2. SubsStay
    BY <1>5 DEF LinkLost, driver, SubsStay, SubscribedAs
  <2>3. ActorIsLate'
    BY <1>5 DEF LinkLost, driver, FedInv, ActorIsLate, Typed, late
  <2>4. \A t \in Refreshers : pc'[t] \in Carrying => pc[t] \in Carrying /\ got'[t] = got[t]
    BY <1>5 DEF LinkLost, driver, Typed, ThreadsTyped, Threads, Refreshers
  <2>5. OwnNumbers'
    BY <2>1, <2>4, NumbersFrame DEF FedInv
  <2> QED
    BY <2>1, <2>2, <2>3, <2>5, QuietFrame DEF FedInv
<1>6. CASE \E p \in Params : Bind(p)
  <2>1. SupSame /\ UNCHANGED <<note, notifications, slots, handle>>
    BY <1>6 DEF Bind, SupSame, Typed, ThreadsTyped, Threads
  <2>2. SubsStay
    BY <1>6, SameStays DEF Bind
  <2>3. ActorIsLate'
    BY <1>6 DEF Bind, FedInv, ActorIsLate, Typed, ThreadsTyped, NeedTyped, late
  <2>4. \A t \in Refreshers : pc'[t] \in Carrying => pc[t] \in Carrying /\ got'[t] = got[t]
    BY <1>6 DEF Bind, Typed, ThreadsTyped, Threads, Refreshers, Carrying
  <2>5. OwnNumbers'
    BY <2>1, <2>4, NumbersFrame DEF FedInv
  <2>6. \A p \in Early : p \in need <=> p \in need'
    BY <1>6 DEF Bind, Early, Typed, NeedTyped
  <2> QED
    BY <2>1, <2>2, <2>3, <2>5, <2>6, QuietFrame DEF FedInv
<1>7. CASE \E p \in Params : Rebind(p)
  <2>1. SupSame /\ UNCHANGED <<note, notifications, slots, need, handle>>
    BY <1>7 DEF Rebind, SupSame, Typed, ThreadsTyped, Threads
  <2>2. SubsStay
    BY <1>7, SameStays DEF Rebind
  <2>3. ActorIsLate'
    BY <1>7 DEF Rebind, FedInv, ActorIsLate, Typed, ThreadsTyped, late
  <2>4. \A t \in Refreshers : pc'[t] \in Carrying => pc[t] \in Carrying /\ got'[t] = got[t]
    BY <1>7 DEF Rebind, Typed, ThreadsTyped, Threads, Refreshers, Carrying
  <2>5. OwnNumbers'
    BY <2>1, <2>4, NumbersFrame DEF FedInv
  <2> QED
    BY <2>1, <2>2, <2>3, <2>5, QuietFrame DEF FedInv
<1>8. CASE \E p \in Params, v \in Values : Write(p, v)
  <2>1. SupSame /\ UNCHANGED <<note, notifications, slots, need, handle>>
    BY <1>8 DEF Write, SupSame, Typed, ThreadsTyped
  <2>2. SubsStay
    BY <1>8, SameStays DEF Write
  <2>3. ActorIsLate'
    BY <1>8 DEF Write, FedInv, ActorIsLate, Typed, ThreadsTyped, Refreshing
  <2>4. \A t \in Refreshers : pc'[t] \in Carrying => pc[t] \in Carrying /\ got'[t] = got[t]
    BY <1>8 DEF Write, Typed, ThreadsTyped, Threads, Refreshers, Carrying
  <2>5. OwnNumbers'
    BY <2>1, <2>4, NumbersFrame DEF FedInv
  <2> QED
    BY <2>1, <2>2, <2>3, <2>5, QuietFrame DEF FedInv
<1>9. CASE \E p \in Params, v \in Values : WriteFails(p, v)
  <2>1. SupSame /\ UNCHANGED <<note, notifications, slots, need, handle>>
    BY <1>9 DEF WriteFails, SupSame, Typed, ThreadsTyped
  <2>2. SubsStay
    BY <1>9, SameStays DEF WriteFails
  <2>3. ActorIsLate'
    BY <1>9 DEF WriteFails, FedInv, ActorIsLate, Typed, ThreadsTyped, Refreshing
  <2>4. \A t \in Refreshers : pc'[t] \in Carrying => pc[t] \in Carrying /\ got'[t] = got[t]
    BY <1>9 DEF WriteFails, Typed, ThreadsTyped, Threads, Refreshers
  <2>5. OwnNumbers'
    BY <2>1, <2>4, NumbersFrame DEF FedInv
  <2> QED
    BY <2>1, <2>2, <2>3, <2>5, QuietFrame DEF FedInv
<1>10. CASE \E p \in Params, v \in Values : PlcChanges(p, v)
  <2>1. SupSame /\ UNCHANGED <<note, notifications, slots, need, handle>>
    BY <1>10 DEF PlcChanges, driver, SupSame, Typed, ThreadsTyped
  <2>2. SubsStay
    BY <1>10, SameStays DEF PlcChanges, driver
  <2>3. ActorIsLate'
    BY <1>10 DEF PlcChanges, driver, FedInv, ActorIsLate, Typed, late
  <2>4. \A t \in Refreshers : pc'[t] \in Carrying => pc[t] \in Carrying /\ got'[t] = got[t]
    BY <1>10 DEF PlcChanges, driver, Typed, ThreadsTyped, Threads, Refreshers
  <2>5. OwnNumbers'
    BY <2>1, <2>4, NumbersFrame DEF FedInv
  <2> QED
    BY <2>1, <2>2, <2>3, <2>5, QuietFrame DEF FedInv
<1> QED
  BY <1>1, <1>2, <1>3, <1>4, <1>5, <1>6, <1>7, <1>8, <1>9, <1>10 DEF Environment

--------------------------------------------------------------------------------
\* A feed that is left alone feeds.
LEMMA FedStays ==
  ASSUME UNCHANGED <<client, setup, conns>>, NEW p \in Early, Fed(p), note'[p] = note[p],
         p \in bulk => slots' = slots,
         note[p] \in DOMAIN notifications =>
           /\ note[p] \in DOMAIN notifications'
           /\ notifications'[note[p]] = notifications[note[p]],
         SubscribedAs(note[p], p) => SubscribedAs(note[p], p)'
  PROVE  Fed(p)'
<1>1. bulk' = bulk
  BY DEF bulk
<1>2. CASE p \in bulk
  BY <1>1, <1>2 DEF Fed, Polled, OnFirst
<1>3. CASE p \notin bulk
  BY <1>1, <1>3 DEF Fed, Subscribed, SubscribedAs
<1> QED
  BY <1>2, <1>3

\* A parameter that is given a slot, or its own again, leaves the others theirs.
LEMMA EnrolKeepsFed ==
  ASSUME Typed, OwnSeats, NEW t \in Refreshers, pc[t] = "enrol", Enrol(t),
         par[t] \in Params, NEW p \in Params, p # par[t], p \in bulk, Fed(p)
  PROVE  Fed(p)'
<1> DEFINE q == par[t]
           f == feed[q]
<1>1. UNCHANGED <<client, conns, setup>> /\ p \in bulk'
  BY DEF Enrol, bulk
<1> SUFFICES ASSUME OnFirst PROVE Polled(p)'
    BY <1>1 DEF Fed, OnFirst
<1>2. PICK k \in DOMAIN slots : slots[k] = [reason |-> p, of |-> p, handle |-> client]
  BY DEF Fed, Polled
<1>3. slots \in Seq(BulkSlots) /\ f \in Int
  BY DEF Typed, FeedsTyped, ParamsTyped
<1>4. CASE f \in DOMAIN slots /\ slots' = [slots EXCEPT ![f].of = q, ![f].handle = handle[q]]
  <2>1. f > 0
    BY <1>3, <1>4
  <2>2. slots[f].reason = q
    BY <2>1 DEF OwnSeats, HasSlot
  <2>3. k # f
    BY <1>2, <2>2
  <2>4. k \in DOMAIN slots' /\ slots'[k] = slots[k]
    BY <1>2, <1>3, <1>4, <2>3
  <2> QED
    BY <1>1, <1>2, <2>4 DEF Polled
<1>5. CASE slots' = Append(slots, Slot(q))
  <2>1. k \in DOMAIN slots' /\ slots'[k] = slots[k]
    BY <1>2, <1>3, <1>5
  <2> QED
    BY <1>1, <1>2, <2>1 DEF Polled
<1> QED
  BY <1>4, <1>5 DEF Enrol

\* The actor's refresh leaves the parameters alone that are not its own.
LEMMA ActorKeepsFed == ASSUME Typed, FedInv, OwnSeats, Refresh("act") PROVE FedInv'
<1> DEFINE q == par["act"]
<1>1. pc["act"] \in Refreshing /\ q \in late /\ q \in Params
  <2>1. pc["act"] \in Refreshing
    BY DEF Refresh, RefreshFails, Requests, Refused, GetInfo, GetHandle, SetHandle, Leave,
       Cancel, Subscribe, Insert, Mark, Seat, Sample, PublishFirst, Done, Refreshing
  <2> QED
    BY <2>1 DEF FedInv, ActorIsLate, Typed, RefreshTyped, Refreshers
<1>2. \A p \in Early : p # q
  BY <1>1 DEF Early
<1>3. ActorIsLate' /\ SupSame
  <2>1. UNCHANGED <<setup, client, conns>>
    BY DEF Refresh, RefreshFails, Refused, GetInfo, GetHandle, SetHandle, Leave, Cancel,
       Subscribe, NewSub, Insert, Mark, Enrol, EnrolPanics, Seat, Sample, PublishFirst, Done,
       Return, Idle, Keep
  <2>2. pc'["act"] \in Refreshing => par'["act"] = q
    BY DEF Refresh, RefreshFails, Refused, GetInfo, GetHandle, SetHandle, Leave, Cancel,
       Subscribe, Insert, Mark, Enrol, EnrolPanics, Seat, Sample, PublishFirst, Done, Return,
       Idle, Refreshing, Typed, ThreadsTyped
  <2>3. /\ pc'["sup"] = pc["sup"] /\ par'["sup"] = par["sup"]
        /\ on'["sup"] = on["sup"] /\ got'["sup"] = got["sup"] /\ UNCHANGED <<todo, after>>
    BY DEF Refresh, RefreshFails, Refused, GetInfo, GetHandle, SetHandle, Leave, Cancel,
       Subscribe, Insert, Mark, Enrol, EnrolPanics, Seat, Sample, PublishFirst, Done, Return,
       Idle, Typed, ThreadsTyped, Threads
  <2> QED
    BY <1>1, <2>1, <2>2, <2>3 DEF ActorIsLate, SupSame, late
<1>4. CASE RefreshFails("act")
  <2>1. UNCHANGED <<note, notifications, slots>>
    BY <1>4 DEF RefreshFails
  <2>2. SubsStay
    BY <1>4, KeepStays DEF RefreshFails, Return, Idle
  <2>3. \A p \in Early : (p \in need <=> p \in need') /\ handle'[p] = handle[p]
    BY <1>2, <1>4 DEF RefreshFails, Early, Typed, ParamsTyped
  <2>4. OwnNumbers'
    <3>1. \A t \in Refreshers : pc'[t] \in Carrying => pc[t] \in Carrying /\ got'[t] = got[t]
      BY <1>4 DEF RefreshFails, Return, Idle, Typed, ThreadsTyped, Threads, Refreshers, Carrying
    <3> QED
      BY <2>1, <3>1, NumbersFrame DEF FedInv
  <2> QED
    BY <1>3, <2>1, <2>2, <2>3, <2>4, QuietFrame DEF FedInv
<1>5. CASE Refused("act")
  <2>1. UNCHANGED <<note, notifications, slots>>
    BY <1>5 DEF Refused
  <2>2. SubsStay
    BY <1>5, KeepStays DEF Refused, Return, Idle
  <2>3. \A p \in Early : (p \in need <=> p \in need') /\ handle'[p] = handle[p]
    BY <1>2, <1>5 DEF Refused, Early, Typed, ParamsTyped
  <2>4. OwnNumbers'
    <3>1. \A t \in Refreshers : pc'[t] \in Carrying => pc[t] \in Carrying /\ got'[t] = got[t]
      BY <1>5 DEF Refused, Return, Idle, Typed, ThreadsTyped, Threads, Refreshers, Carrying
    <3> QED
      BY <2>1, <3>1, NumbersFrame DEF FedInv
  <2> QED
    BY <1>3, <2>1, <2>2, <2>3, <2>4, QuietFrame DEF FedInv
<1>6. CASE GetInfo("act")
  <2>1. UNCHANGED <<note, notifications, slots>>
    BY <1>6 DEF GetInfo
  <2>2. SubsStay
    BY <1>6, SameStays DEF GetInfo
  <2>3. \A p \in Early : (p \in need <=> p \in need') /\ handle'[p] = handle[p]
    BY <1>2, <1>6 DEF GetInfo, Early, Typed, ParamsTyped
  <2>4. OwnNumbers'
    <3>1. \A t \in Refreshers : pc'[t] \in Carrying => pc[t] \in Carrying /\ got'[t] = got[t]
      BY <1>6 DEF GetInfo, Return, Idle, Typed, ThreadsTyped, Carrying
    <3> QED
      BY <2>1, <3>1, NumbersFrame DEF FedInv
  <2> QED
    BY <1>3, <2>1, <2>2, <2>3, <2>4, QuietFrame DEF FedInv
<1>7. CASE GetHandle("act")
  <2>1. UNCHANGED <<note, notifications, slots>>
    BY <1>7 DEF GetHandle
  <2>2. SubsStay
    BY <1>7, SameStays DEF GetHandle
  <2>3. \A p \in Early : (p \in need <=> p \in need') /\ handle'[p] = handle[p]
    BY <1>2, <1>7 DEF GetHandle, Early, Typed, ParamsTyped
  <2>4. OwnNumbers'
    <3>1. \A t \in Refreshers : pc'[t] \in Carrying => pc[t] \in Carrying /\ got'[t] = got[t]
      BY <1>7 DEF GetHandle, Return, Idle, Typed, ThreadsTyped, Carrying
    <3> QED
      BY <2>1, <3>1, NumbersFrame DEF FedInv
  <2> QED
    BY <1>3, <2>1, <2>2, <2>3, <2>4, QuietFrame DEF FedInv
<1>8. CASE SetHandle("act")
  <2>1. UNCHANGED <<note, notifications, slots>>
    BY <1>8 DEF SetHandle
  <2>2. SubsStay
    BY <1>8, SameStays DEF SetHandle
  <2>3. \A p \in Early : (p \in need <=> p \in need') /\ handle'[p] = handle[p]
    BY <1>2, <1>8 DEF SetHandle, Early, Typed, ParamsTyped
  <2>4. OwnNumbers'
    <3>1. \A t \in Refreshers : pc'[t] \in Carrying => pc[t] \in Carrying /\ got'[t] = got[t]
      BY <1>8 DEF SetHandle, Return, Idle, Typed, ThreadsTyped, Carrying
    <3> QED
      BY <2>1, <3>1, NumbersFrame DEF FedInv
  <2> QED
    BY <1>3, <2>1, <2>2, <2>3, <2>4, QuietFrame DEF FedInv
<1>9. CASE pc["act"] = "enrol" /\ EnrolPanics("act")
  <2>1. UNCHANGED <<note, notifications, slots>>
    BY <1>9 DEF EnrolPanics
  <2>2. SubsStay
    BY <1>9, KeepStays DEF EnrolPanics, Return, Idle
  <2>3. \A p \in Early : (p \in need <=> p \in need') /\ handle'[p] = handle[p]
    BY <1>2, <1>9 DEF EnrolPanics, Early, Typed, ParamsTyped
  <2>4. OwnNumbers'
    <3>1. \A t \in Refreshers : pc'[t] \in Carrying => pc[t] \in Carrying /\ got'[t] = got[t]
      BY <1>9 DEF EnrolPanics, Return, Idle, Typed, ThreadsTyped, Carrying
    <3> QED
      BY <2>1, <3>1, NumbersFrame DEF FedInv
  <2> QED
    BY <1>3, <2>1, <2>2, <2>3, <2>4, QuietFrame DEF FedInv
<1>10. CASE Seat("act")
  <2>1. UNCHANGED <<note, notifications, slots>>
    BY <1>10 DEF Seat
  <2>2. SubsStay
    BY <1>10, SameStays DEF Seat
  <2>3. \A p \in Early : (p \in need <=> p \in need') /\ handle'[p] = handle[p]
    BY <1>2, <1>10 DEF Seat, Early, Typed, ParamsTyped
  <2>4. OwnNumbers'
    <3>1. \A t \in Refreshers : pc'[t] \in Carrying => pc[t] \in Carrying /\ got'[t] = got[t]
      BY <1>10 DEF Seat, Return, Idle, Typed, ThreadsTyped, Carrying
    <3> QED
      BY <2>1, <3>1, NumbersFrame DEF FedInv
  <2> QED
    BY <1>3, <2>1, <2>2, <2>3, <2>4, QuietFrame DEF FedInv
<1>11. CASE Sample("act")
  <2>1. UNCHANGED <<note, notifications, slots>>
    BY <1>11 DEF Sample
  <2>2. SubsStay
    BY <1>11, SameStays DEF Sample
  <2>3. \A p \in Early : (p \in need <=> p \in need') /\ handle'[p] = handle[p]
    BY <1>2, <1>11 DEF Sample, Early, Typed, ParamsTyped
  <2>4. OwnNumbers'
    <3>1. \A t \in Refreshers : pc'[t] \in Carrying => pc[t] \in Carrying /\ got'[t] = got[t]
      BY <1>11 DEF Sample, Return, Idle, Typed, ThreadsTyped, Carrying
    <3> QED
      BY <2>1, <3>1, NumbersFrame DEF FedInv
  <2> QED
    BY <1>3, <2>1, <2>2, <2>3, <2>4, QuietFrame DEF FedInv
<1>12. CASE PublishFirst("act")
  <2>1. UNCHANGED <<note, notifications, slots>>
    BY <1>12 DEF PublishFirst
  <2>2. SubsStay
    BY <1>12, SameStays DEF PublishFirst
  <2>3. \A p \in Early : (p \in need <=> p \in need') /\ handle'[p] = handle[p]
    BY <1>2, <1>12 DEF PublishFirst, Early, Typed, ParamsTyped
  <2>4. OwnNumbers'
    <3>1. \A t \in Refreshers : pc'[t] \in Carrying => pc[t] \in Carrying /\ got'[t] = got[t]
      BY <1>12 DEF PublishFirst, Return, Idle, Typed, ThreadsTyped, Carrying
    <3> QED
      BY <2>1, <3>1, NumbersFrame DEF FedInv
  <2> QED
    BY <1>3, <2>1, <2>2, <2>3, <2>4, QuietFrame DEF FedInv
<1>13. CASE Done("act")
  <2>1. UNCHANGED <<note, notifications, slots>>
    BY <1>13 DEF Done
  <2>2. SubsStay
    BY <1>13, KeepStays DEF Done, Return, Idle
  <2>3. \A p \in Early : (p \in need <=> p \in need') /\ handle'[p] = handle[p]
    BY <1>2, <1>13 DEF Done, Early, Typed, ParamsTyped
  <2>4. OwnNumbers'
    <3>1. \A t \in Refreshers : pc'[t] \in Carrying => pc[t] \in Carrying /\ got'[t] = got[t]
      BY <1>13 DEF Done, Return, Idle, Typed, ThreadsTyped, Threads, Refreshers, Carrying
    <3> QED
      BY <2>1, <3>1, NumbersFrame DEF FedInv
  <2> QED
    BY <1>3, <2>1, <2>2, <2>3, <2>4, QuietFrame DEF FedInv
<1>14. CASE Subscribe("act")
  <2>1. UNCHANGED <<note, notifications, slots>>
    BY <1>14 DEF Subscribe
  <2>2. SubsStay
    BY <1>14, NewStays DEF Subscribe
  <2>3. \A p \in Early : (p \in need <=> p \in need') /\ handle'[p] = handle[p]
    BY <1>2, <1>14 DEF Subscribe, Early, Typed, ParamsTyped
  <2>4. OwnNumbers'
    <3>1. /\ pc["act"] = "subscribe" /\ got' = [got EXCEPT !["act"] = noted + 1]
          /\ pc' = [pc EXCEPT !["act"] = "insert"]
      BY <1>14 DEF Subscribe
    <3>2. \A p \in Params : note[p] \in 0 .. noted
      BY DEF Typed, ParamsTyped
    <3>3. noted \in Nat /\ (pc["sup"] \in Carrying => got["sup"] \in 1 .. noted)
      BY DEF Typed, PlcTyped, RefreshTyped, Refreshers
    <3>4. /\ got'["act"] = noted + 1 /\ got'["sup"] = got["sup"] /\ pc'["sup"] = pc["sup"]
      BY <3>1 DEF Typed, ThreadsTyped, Threads
    <3> QED
      BY <2>1, <3>2, <3>3, <3>4 DEF FedInv, OwnNumbers, Refreshers
  <2> QED
    BY <1>3, <2>1, <2>2, <2>3, <2>4, QuietFrame DEF FedInv
<1>15. CASE Leave("act")
  <2>1. \A p \in Early : need' = need /\ handle'[p] = handle[p] /\ note'[p] = note[p]
    BY <1>2, <1>15 DEF Leave, Early, Typed
  <2>2. pc["sup"] \in {"insert", "mark"} =>
          \A p \in Params : SubscribedAs(got["sup"], p) => SubscribedAs(got["sup"], p)'
    BY <1>3, <1>15 DEF Leave, SupSame, SubscribedAs
  <2>3. pc["sup"] = "mark" /\ got["sup"] \in DOMAIN notifications =>
          /\ got["sup"] \in DOMAIN notifications'
          /\ notifications'[got["sup"]] = notifications[got["sup"]]
    BY <1>15 DEF Leave
  <2>4. OwnNumbers'
    <3>1. /\ note' = [note EXCEPT ![q] = 0] /\ got' = [got EXCEPT !["act"] = note[q]]
          /\ pc["act"] = "leave" /\ pc'["act"] \in {"cancel", "subscribe"}
          /\ pc'["act"] = "cancel" => note[q] # 0
          /\ pc'["sup"] = pc["sup"]
      BY <1>15 DEF Leave, Typed, ThreadsTyped, Threads
    <3>2. got'["act"] = note[q] /\ got'["sup"] = got["sup"] /\ note'[q] = 0
      BY <1>1, <3>1 DEF Typed, ThreadsTyped, ParamsTyped, Threads
    <3>3. \A p \in Params : p # q => note'[p] = note[p]
      BY <3>1 DEF Typed
    <3>4. pc["sup"] \in Carrying => got["sup"] # 0
      BY DEF Typed, RefreshTyped, Refreshers
    <3> QED
      BY <1>1, <3>1, <3>2, <3>3, <3>4 DEF FedInv, OwnNumbers, Refreshers, Carrying
  <2>5. \A p \in Early : Fed(p) => Fed(p)'
    <3>1. SubsStay
      BY <1>15, SameStays DEF Leave
    <3>2. \A p \in Early : note[p] \in Nat
      BY DEF Early, Typed, ParamsTyped
    <3>3. \A p \in Early : SubscribedAs(note[p], p) => SubscribedAs(note[p], p)'
      BY <2>1, <3>1, <3>2 DEF SubsStay, SubscribedAs, Early
    <3>4. UNCHANGED <<slots, notifications>>
      BY <1>15 DEF Leave
    <3> QED
      BY <1>3, <2>1, <3>3, <3>4, FedStays DEF SupSame
  <2> QED
    BY <1>3, <2>1, <2>2, <2>3, <2>4, <2>5, OthersFrame DEF FedInv
<1>16. CASE Cancel("act")
  <2>1. \A p \in Early : need' = need /\ handle'[p] = handle[p] /\ note'[p] = note[p]
    BY <1>2, <1>16 DEF Cancel, Early, Typed
  <2> DEFINE g == got["act"]
  <2>6. pc["act"] \in Carrying /\ notifications' = Less(notifications, {g})
    BY <1>16 DEF Cancel, Carrying
  <2>7. \A n \in Nat : n # g => \A p \in Params : SubscribedAs(n, p) => SubscribedAs(n, p)'
    BY <1>16 DEF Cancel, SubscribedAs
  <2>2. pc["sup"] \in {"insert", "mark"} =>
          \A p \in Params : SubscribedAs(got["sup"], p) => SubscribedAs(got["sup"], p)'
    <3>1. pc["sup"] \in {"insert", "mark"} => got["sup"] \in Nat /\ got["sup"] # g
      BY <2>6 DEF FedInv, OwnNumbers, Carrying, Typed, RefreshTyped, Refreshers
    <3> QED
      BY <1>3, <2>7, <3>1 DEF SupSame
  <2>3. pc["sup"] = "mark" /\ got["sup"] \in DOMAIN notifications =>
          /\ got["sup"] \in DOMAIN notifications'
          /\ notifications'[got["sup"]] = notifications[got["sup"]]
    BY <2>6 DEF FedInv, OwnNumbers, Carrying, Less
  <2>4. OwnNumbers'
    <3>1. note' = note
      BY <1>16 DEF Cancel
    <3>2. \A t \in Refreshers : pc'[t] \in Carrying => pc[t] \in Carrying /\ got'[t] = got[t]
      BY <1>16 DEF Cancel, Typed, ThreadsTyped, Threads, Refreshers, Carrying
    <3> QED
      BY <3>1, <3>2, NumbersFrame DEF FedInv
  <2>5. \A p \in Early : Fed(p) => Fed(p)'
    <3> SUFFICES ASSUME NEW p \in Early, Fed(p) PROVE Fed(p)'
        OBVIOUS
    <3>1. note[p] \in Nat /\ note[p] # g /\ p \in Params
      BY <2>6 DEF FedInv, OwnNumbers, Early, Typed, ParamsTyped, Refreshers
    <3>2. note[p] \in DOMAIN notifications =>
            /\ note[p] \in DOMAIN notifications'
            /\ notifications'[note[p]] = notifications[note[p]]
      BY <2>6, <3>1 DEF Less
    <3>3. SubscribedAs(note[p], p) => SubscribedAs(note[p], p)'
      BY <2>1, <2>7, <3>1 DEF SubscribedAs
    <3>4. slots' = slots
      BY <1>16 DEF Cancel
    <3> QED
      BY <1>3, <2>1, <3>2, <3>3, <3>4, FedStays DEF SupSame
  <2> QED
    BY <1>3, <2>1, <2>2, <2>3, <2>4, <2>5, OthersFrame DEF FedInv
<1>17. CASE Insert("act")
  <2>1. \A p \in Early : need' = need /\ handle'[p] = handle[p] /\ note'[p] = note[p]
    BY <1>2, <1>17 DEF Insert, Early, Typed
  <2> DEFINE g == got["act"]
  <2>6. pc["act"] \in Carrying /\ notifications' = With(notifications, g, q)
    BY <1>17 DEF Insert, Carrying
  <2>2. pc["sup"] \in {"insert", "mark"} =>
          \A p \in Params : SubscribedAs(got["sup"], p) => SubscribedAs(got["sup"], p)'
    BY <1>3, <1>17 DEF Insert, SupSame, SubscribedAs
  <2>3. pc["sup"] = "mark" /\ got["sup"] \in DOMAIN notifications =>
          /\ got["sup"] \in DOMAIN notifications'
          /\ notifications'[got["sup"]] = notifications[got["sup"]]
    BY <2>6 DEF FedInv, OwnNumbers, Carrying, With
  <2>4. OwnNumbers'
    <3>1. note' = note
      BY <1>17 DEF Insert
    <3>2. \A t \in Refreshers : pc'[t] \in Carrying => pc[t] \in Carrying /\ got'[t] = got[t]
      BY <1>17 DEF Insert, Typed, ThreadsTyped, Threads, Refreshers, Carrying
    <3> QED
      BY <3>1, <3>2, NumbersFrame DEF FedInv
  <2>5. \A p \in Early : Fed(p) => Fed(p)'
    <3> SUFFICES ASSUME NEW p \in Early, Fed(p) PROVE Fed(p)'
        OBVIOUS
    <3>1. note[p] \in Nat /\ note[p] # g /\ p \in Params
      BY <2>6 DEF FedInv, OwnNumbers, Early, Typed, ParamsTyped, Refreshers
    <3>2. note[p] \in DOMAIN notifications =>
            /\ note[p] \in DOMAIN notifications'
            /\ notifications'[note[p]] = notifications[note[p]]
      BY <2>6, <3>1 DEF With
    <3>3. SubsStay
      BY <1>17, SameStays DEF Insert
    <3>4. slots' = slots
      BY <1>17 DEF Insert
    <3> QED
      BY <1>3, <2>1, <3>1, <3>2, <3>3, <3>4, FedStays DEF SubsStay, SupSame
  <2> QED
    BY <1>3, <2>1, <2>2, <2>3, <2>4, <2>5, OthersFrame DEF FedInv
<1>18. CASE Mark("act")
  <2>1. \A p \in Early : need' = need /\ handle'[p] = handle[p] /\ note'[p] = note[p]
    BY <1>2, <1>18 DEF Mark, Early, Typed
  <2>2. pc["sup"] \in {"insert", "mark"} =>
          \A p \in Params : SubscribedAs(got["sup"], p) => SubscribedAs(got["sup"], p)'
    BY <1>3, <1>18 DEF Mark, SupSame, SubscribedAs
  <2>3. pc["sup"] = "mark" /\ got["sup"] \in DOMAIN notifications =>
          /\ got["sup"] \in DOMAIN notifications'
          /\ notifications'[got["sup"]] = notifications[got["sup"]]
    BY <1>18 DEF Mark
  <2>4. OwnNumbers'
    <3>1. /\ note' = [note EXCEPT ![q] = got["act"]] /\ pc["act"] \in Carrying
          /\ pc'["act"] \notin Carrying /\ pc'["sup"] = pc["sup"] /\ got'["sup"] = got["sup"]
      BY <1>18 DEF Mark, Typed, ThreadsTyped, Threads, Carrying
    <3>2. note'[q] = got["act"] /\ \A p \in Params : p # q => note'[p] = note[p]
      BY <1>1, <3>1 DEF Typed, ParamsTyped
    <3> QED
      BY <1>1, <3>1, <3>2 DEF FedInv, OwnNumbers, Refreshers
  <2>5. \A p \in Early : Fed(p) => Fed(p)'
    <3>1. SubsStay
      BY <1>18, SameStays DEF Mark
    <3>2. \A p \in Early : note[p] \in Nat
      BY DEF Early, Typed, ParamsTyped
    <3>3. \A p \in Early : SubscribedAs(note[p], p) => SubscribedAs(note[p], p)'
      BY <2>1, <3>1, <3>2 DEF SubsStay, SubscribedAs, Early
    <3>4. UNCHANGED <<slots, notifications>>
      BY <1>18 DEF Mark
    <3> QED
      BY <1>3, <2>1, <3>3, <3>4, FedStays DEF SupSame
  <2> QED
    BY <1>3, <2>1, <2>2, <2>3, <2>4, <2>5, OthersFrame DEF FedInv
<1>19. CASE pc["act"] = "enrol" /\ Enrol("act")
  <2>1. \A p \in Early : need' = need /\ handle'[p] = handle[p] /\ note'[p] = note[p]
    BY <1>2, <1>19 DEF Enrol, Early, Typed
  <2>2. pc["sup"] \in {"insert", "mark"} =>
          \A p \in Params : SubscribedAs(got["sup"], p) => SubscribedAs(got["sup"], p)'
    BY <1>3, <1>19 DEF Enrol, SupSame, SubscribedAs
  <2>3. pc["sup"] = "mark" /\ got["sup"] \in DOMAIN notifications =>
          /\ got["sup"] \in DOMAIN notifications'
          /\ notifications'[got["sup"]] = notifications[got["sup"]]
    BY <1>19 DEF Enrol
  <2>4. OwnNumbers'
    <3>1. note' = note
      BY <1>19 DEF Enrol
    <3>2. \A t \in Refreshers : pc'[t] \in Carrying => pc[t] \in Carrying /\ got'[t] = got[t]
      BY <1>19 DEF Enrol, Typed, ThreadsTyped, Threads, Refreshers, Carrying
    <3> QED
      BY <3>1, <3>2, NumbersFrame DEF FedInv
  <2>5. \A p \in Early : Fed(p) => Fed(p)'
    <3>1. SubsStay
      BY <1>19, SameStays DEF Enrol
    <3>2. \A p \in Early : note[p] \in Nat /\ p \in Params
      BY DEF Early, Typed, ParamsTyped
    <3>3. \A p \in Early : SubscribedAs(note[p], p) => SubscribedAs(note[p], p)'
      BY <2>1, <3>1, <3>2 DEF SubsStay, SubscribedAs, Early
    <3>4. notifications' = notifications
      BY <1>19 DEF Enrol
    <3>5. \A p \in Early : p \in bulk /\ Fed(p) => Fed(p)'
      BY <1>1, <1>2, <1>19, <3>2, EnrolKeepsFed DEF Refreshers
    <3> QED
      BY <1>3, <2>1, <3>2, <3>3, <3>4, <3>5, FedStays DEF SupSame
  <2> QED
    BY <1>3, <2>1, <2>2, <2>3, <2>4, <2>5, OthersFrame DEF FedInv
<1> QED
  BY <1>4, <1>5, <1>6, <1>7, <1>8, <1>9, <1>10, <1>11, <1>12, <1>13, <1>14, <1>15, <1>16, <1>17,
     <1>18, <1>19 DEF Refresh

\* A slot that is given to a parameter again.
LEMMA SlotUpdated ==
  ASSUME NEW s \in BulkSlots, NEW p \in Params, NEW h \in Nat
  PROVE  [s EXCEPT !.of = p, !.handle = h] = [reason |-> s.reason, of |-> p, handle |-> h]
<1> DEFINE r == [s EXCEPT !.of = p, !.handle = h]
<1>1. r \in BulkSlots /\ r.reason = s.reason /\ r.of = p /\ r.handle = h
  BY DEF BulkSlots
<1> HIDE DEF r
<1>2. r = [reason |-> s.reason, of |-> p, handle |-> h]
  BY <1>1 DEF BulkSlots
<1> QED
  BY <1>2 DEF r

\* The supervisor's refresh leaves the other parameters alone, and feeds its own.
LEMMA SupRefreshKeepsFed == ASSUME Typed, FedInv, OwnSeats, Refresh("sup") PROVE FedInv'
<1> DEFINE q == par["sup"]
<1>1. pc["sup"] \in Refreshing /\ q \in Params
  <2>1. pc["sup"] \in Refreshing
    BY DEF Refresh, RefreshFails, Requests, Refused, GetInfo, GetHandle, SetHandle, Leave,
       Cancel, Subscribe, Insert, Mark, Seat, Sample, PublishFirst, Done, Refreshing
  <2> QED
    BY <2>1 DEF Typed, RefreshTyped, Refreshers
<1>2. UNCHANGED <<client, setup, conns, todo, after>>
  BY DEF Refresh, RefreshFails, Refused, GetInfo, GetHandle, SetHandle, Leave, Cancel,
     Subscribe, NewSub, Insert, Mark, Enrol, EnrolPanics, Seat, Sample, PublishFirst, Done,
     Return, Keep
<1>3. /\ pc'["act"] = pc["act"] /\ par'["act"] = par["act"] /\ got'["act"] = got["act"]
      /\ pc'["sup"] \in (Refreshing \ {"info"}) \cup {"next", "panicked"}
      /\ pc'["sup"] \in Refreshing => par'["sup"] = q
  BY DEF Refresh, RefreshFails, Refused, GetInfo, GetHandle, SetHandle, Leave, Cancel,
     Subscribe, Insert, Mark, Enrol, EnrolPanics, Seat, Sample, PublishFirst, Done, Return,
     Refreshing, Typed, ThreadsTyped, Threads
<1>4. /\ \A p \in Params : p # q => (p \in need' <=> p \in need)
      /\ pc["sup"] # "done" => need' = need
      /\ pc["sup"] = "done" => pc'["sup"] = "next" /\ need' = need \ {q}
  BY DEF Refresh, RefreshFails, Refused, GetInfo, GetHandle, SetHandle, Leave, Cancel,
     Subscribe, Insert, Mark, Enrol, EnrolPanics, Seat, Sample, PublishFirst, Done, Return,
     Typed, ThreadsTyped, Threads, Requests
<1>5. bulk' = bulk /\ late' = late /\ Early' = Early
  BY <1>2 DEF bulk, late, Early
<1>6. ActorIsLate'
  BY <1>3, <1>5 DEF FedInv, ActorIsLate
<1>7. GivingUp'
  BY <1>1, <1>2, <1>3, <1>4, <1>5 DEF FedInv, GivingUp, SupDoes, Refreshing
<1>8. SupDoes'
  <2>1. pc'["sup"] \in Refreshing => on'["sup"] = client /\ client # 0
    <3>1. CASE pc["sup"] = "info" /\ pc'["sup"] \in Refreshing
      BY <3>1 DEF Refresh, RefreshFails, Refused, GetInfo, GetHandle, SetHandle, Leave, Cancel,
         Subscribe, Insert, Mark, Enrol, EnrolPanics, Seat, Sample, PublishFirst, Done, Return,
         Refreshing, Requests, Typed, PlcTyped, ThreadsTyped, Threads
    <3>2. CASE pc["sup"] # "info" /\ pc'["sup"] \in Refreshing
      <4>1. on["sup"] = client /\ client # 0
        BY <1>1, <3>2 DEF FedInv, SupDoes
      <4>2. on'["sup"] = on["sup"]
        BY <3>2 DEF Refresh, RefreshFails, Refused, GetInfo, GetHandle, SetHandle, Leave,
           Cancel, Subscribe, Insert, Mark, Enrol, EnrolPanics, Seat, Sample, PublishFirst,
           Done, Return, Refreshing, Typed, ThreadsTyped
      <4> QED
        BY <4>1, <4>2
    <3> QED
      BY <3>1, <3>2
  <2>2. q \notin todo /\ todo \ late \subseteq need /\ todo \subseteq Params
    BY <1>1 DEF FedInv, SupDoes, Typed, NeedTyped
  <2>3. todo' \ late' \subseteq need'
    BY <1>2, <1>4, <1>5, <2>2
  <2> QED
    BY <1>2, <1>3, <2>1, <2>2, <2>3 DEF SupDoes
<1>9. ASSUME SupAchieves', \A p \in Early : p # q /\ Fed(p) => Fed(p)', OwnNumbers'
      PROVE  FedInv'
  <2>1. EarlyAreFed'
    <3> SUFFICES ASSUME NEW p \in Early, p \notin need' PROVE Fed(p)'
        BY <1>5 DEF EarlyAreFed
    <3>1. p \in Params /\ pc["sup"] \notin {"clear", "drop"}
      BY <1>1 DEF Early, Refreshing
    <3>2. CASE p # q
      BY <1>4, <1>9, <3>1, <3>2 DEF FedInv, EarlyAreFed
    <3>3. CASE p = q
      <4>1. pc["sup"] = "done" /\ Fed(p)
        BY <1>1, <1>4, <3>3 DEF FedInv, SupAchieves
      <4>2. slots' = slots /\ note' = note /\ notifications' = notifications
            /\ UNCHANGED <<subs, up>>
        BY <4>1 DEF Refresh, RefreshFails, Refused, GetInfo, GetHandle, SetHandle, Leave,
           Cancel, Subscribe, Insert, Mark, Seat, Sample, PublishFirst, Done, Return
      <4> QED
        BY <1>2, <1>5, <4>1, <4>2 DEF Fed, Polled, OnFirst, Subscribed
    <3> QED
      BY <3>2, <3>3
  <2> QED
    BY <1>6, <1>7, <1>8, <1>9, <2>1 DEF FedInv
<1>10. CASE RefreshFails("sup")
  <2>1. /\ UNCHANGED <<slots, note, notifications, subs, up>>
        /\ UNCHANGED <<pc["act"], got["act"]>> /\ pc'["sup"] \notin Carrying
    BY <1>3, <1>10 DEF RefreshFails, Return, Carrying, Typed, ThreadsTyped, Threads
  <2>2. \A p \in Early : Fed(p) => Fed(p)'
    BY <1>2, <1>5, <2>1 DEF Fed, Polled, OnFirst, Subscribed
  <2>3. OwnNumbers'
    BY <2>1, NumbersFrame DEF FedInv, Refreshers
  <2>4. SupAchieves'
    BY <1>1, <1>2, <1>3, <1>4, <1>5, <1>10, <2>2 DEF RefreshFails, Return, SupAchieves, Typed,
       ThreadsTyped, Threads
  <2> QED
    BY <1>9, <2>2, <2>3, <2>4
<1>11. CASE Refused("sup")
  <2>1. /\ UNCHANGED <<slots, note, notifications, subs, up>>
        /\ UNCHANGED <<pc["act"], got["act"]>> /\ pc'["sup"] \notin Carrying
    BY <1>3, <1>11 DEF Refused, Return, Carrying, Typed, ThreadsTyped
  <2>2. \A p \in Early : Fed(p) => Fed(p)'
    BY <1>2, <1>5, <2>1 DEF Fed, Polled, OnFirst, Subscribed
  <2>3. OwnNumbers'
    BY <2>1, NumbersFrame DEF FedInv, Refreshers
  <2>4. SupAchieves'
    BY <1>1, <1>2, <1>3, <1>4, <1>5, <1>11, <2>2 DEF Refused, Return, FedInv, SupAchieves,
       Typed, ThreadsTyped
  <2> QED
    BY <1>9, <2>2, <2>3, <2>4
<1>12. CASE GetInfo("sup")
  <2>1. /\ UNCHANGED <<slots, note, notifications, subs, up>>
        /\ UNCHANGED <<pc["act"], got["act"]>> /\ pc'["sup"] \notin Carrying
    BY <1>3, <1>12 DEF GetInfo, Return, Refreshing, Carrying, Typed
  <2>2. \A p \in Early : Fed(p) => Fed(p)'
    BY <1>2, <1>5, <2>1 DEF Fed, Polled, OnFirst, Subscribed
  <2>3. OwnNumbers'
    BY <2>1, NumbersFrame DEF FedInv, Refreshers
  <2>4. SupAchieves'
    BY <1>1, <1>2, <1>3, <1>4, <1>5, <1>12, <2>2 DEF GetInfo, FedInv, SupAchieves, Typed
  <2> QED
    BY <1>9, <2>2, <2>3, <2>4
<1>13. CASE GetHandle("sup")
  <2>1. /\ UNCHANGED <<slots, note, notifications, subs, up>>
        /\ UNCHANGED <<pc["act"], got["act"]>> /\ pc'["sup"] \notin Carrying
    BY <1>3, <1>13 DEF GetHandle, Return, Refreshing, Carrying, Typed
  <2>2. \A p \in Early : Fed(p) => Fed(p)'
    BY <1>2, <1>5, <2>1 DEF Fed, Polled, OnFirst, Subscribed
  <2>3. OwnNumbers'
    BY <2>1, NumbersFrame DEF FedInv, Refreshers
  <2>4. SupAchieves'
    BY <1>1, <1>2, <1>3, <1>4, <1>5, <1>13, <2>2 DEF GetHandle, FedInv, SupAchieves, Typed
  <2> QED
    BY <1>9, <2>2, <2>3, <2>4
<1>14. CASE SetHandle("sup")
  <2>1. /\ UNCHANGED <<slots, note, notifications, subs, up>>
        /\ UNCHANGED <<pc["act"], got["act"]>> /\ pc'["sup"] \notin Carrying
    BY <1>3, <1>14 DEF SetHandle, Return, Refreshing, Carrying, Typed
  <2>2. \A p \in Early : Fed(p) => Fed(p)'
    BY <1>2, <1>5, <2>1 DEF Fed, Polled, OnFirst, Subscribed
  <2>3. OwnNumbers'
    BY <2>1, NumbersFrame DEF FedInv, Refreshers
  <2>4. SupAchieves'
    BY <1>1, <1>2, <1>3, <1>4, <1>5, <1>14, <2>2 DEF SetHandle, FedInv, SupAchieves, SupDoes,
       Typed, ParamsTyped
  <2> QED
    BY <1>9, <2>2, <2>3, <2>4
<1>15. CASE Seat("sup")
  <2>1. /\ UNCHANGED <<slots, note, notifications, subs, up>>
        /\ UNCHANGED <<pc["act"], got["act"]>> /\ pc'["sup"] \notin Carrying
    BY <1>3, <1>15 DEF Seat, Return, Refreshing, Carrying, Typed
  <2>2. \A p \in Early : Fed(p) => Fed(p)'
    BY <1>2, <1>5, <2>1 DEF Fed, Polled, OnFirst, Subscribed
  <2>3. OwnNumbers'
    BY <2>1, NumbersFrame DEF FedInv, Refreshers
  <2>4. SupAchieves'
    BY <1>1, <1>2, <1>3, <1>4, <1>5, <1>15, <2>2 DEF Seat, FedInv, SupAchieves, Typed
  <2> QED
    BY <1>9, <2>2, <2>3, <2>4
<1>16. CASE Sample("sup")
  <2>1. /\ UNCHANGED <<slots, note, notifications, subs, up>>
        /\ UNCHANGED <<pc["act"], got["act"]>> /\ pc'["sup"] \notin Carrying
    BY <1>3, <1>16 DEF Sample, Return, Refreshing, Carrying, Typed
  <2>2. \A p \in Early : Fed(p) => Fed(p)'
    BY <1>2, <1>5, <2>1 DEF Fed, Polled, OnFirst, Subscribed
  <2>3. OwnNumbers'
    BY <2>1, NumbersFrame DEF FedInv, Refreshers
  <2>4. SupAchieves'
    BY <1>1, <1>2, <1>3, <1>4, <1>5, <1>16, <2>2 DEF Sample, FedInv, SupAchieves, Typed
  <2> QED
    BY <1>9, <2>2, <2>3, <2>4
<1>17. CASE PublishFirst("sup")
  <2>1. /\ UNCHANGED <<slots, note, notifications, subs, up>>
        /\ UNCHANGED <<pc["act"], got["act"]>> /\ pc'["sup"] \notin Carrying
    BY <1>3, <1>17 DEF PublishFirst, Return, Refreshing, Carrying, Typed
  <2>2. \A p \in Early : Fed(p) => Fed(p)'
    BY <1>2, <1>5, <2>1 DEF Fed, Polled, OnFirst, Subscribed
  <2>3. OwnNumbers'
    BY <2>1, NumbersFrame DEF FedInv, Refreshers
  <2>4. SupAchieves'
    BY <1>1, <1>2, <1>3, <1>4, <1>5, <1>17, <2>2 DEF PublishFirst, FedInv, SupAchieves, Typed
  <2> QED
    BY <1>9, <2>2, <2>3, <2>4
<1>18. CASE Done("sup")
  <2>1. /\ UNCHANGED <<slots, note, notifications, subs, up>>
        /\ UNCHANGED <<pc["act"], got["act"]>> /\ pc'["sup"] \notin Carrying
    BY <1>3, <1>18 DEF Done, Return, Carrying, Typed, ThreadsTyped
  <2>2. \A p \in Early : Fed(p) => Fed(p)'
    BY <1>2, <1>5, <2>1 DEF Fed, Polled, OnFirst, Subscribed
  <2>3. OwnNumbers'
    BY <2>1, NumbersFrame DEF FedInv, Refreshers
  <2>4. SupAchieves'
    BY <1>1, <1>2, <1>3, <1>4, <1>5, <1>18, <2>2 DEF Done, SupAchieves, Refreshing, Typed
  <2> QED
    BY <1>9, <2>2, <2>3, <2>4
<1>19. CASE Leave("sup")
  <2>1. \A p \in Early : p # q /\ Fed(p) => Fed(p)'
    <3> SUFFICES ASSUME NEW p \in Early, p # q, Fed(p) PROVE Fed(p)'
        OBVIOUS
    <3>1. p \in Params /\ note[p] \in Nat /\ note'[p] = note[p]
      BY <1>1, <1>19 DEF Leave, Early, Typed, ParamsTyped
    <3>2. note[p] \in DOMAIN notifications =>
            /\ note[p] \in DOMAIN notifications'
            /\ notifications'[note[p]] = notifications[note[p]]
      BY <1>19 DEF Leave
    <3>3. SubscribedAs(note[p], p) => SubscribedAs(note[p], p)'
      BY <1>2, <1>19, <3>1, SameStays DEF Leave, SubsStay
    <3>4. p \in bulk => slots' = slots
      BY <1>19 DEF Leave
    <3> QED
      BY <1>2, <3>1, <3>2, <3>3, <3>4, FedStays
  <2>2. OwnNumbers'
    <3>1. /\ note' = [note EXCEPT ![q] = 0] /\ got' = [got EXCEPT !["sup"] = note[q]]
          /\ pc["sup"] = "leave" /\ pc'["sup"] \in {"cancel", "subscribe"}
          /\ pc'["sup"] = "cancel" => note[q] # 0
      BY <1>19 DEF Leave, Typed, ThreadsTyped, Threads
    <3>2. got'["sup"] = note[q] /\ note'[q] = 0
      BY <1>1, <3>1 DEF Typed, ThreadsTyped, ParamsTyped, Threads
    <3>3. \A p \in Params : p # q => note'[p] = note[p]
      BY <3>1 DEF Typed
    <3>4. pc["act"] \in Carrying => got["act"] # 0
      BY DEF Typed, RefreshTyped, Refreshers
    <3> QED
      BY <1>1, <1>3, <3>1, <3>2, <3>3, <3>4 DEF FedInv, OwnNumbers, Refreshers, Carrying
  <2>3. SupAchieves'
    BY <1>1, <1>3, <1>4, <1>5, <1>19 DEF Leave, FedInv, SupAchieves, Typed
  <2> QED
    BY <1>9, <2>1, <2>2, <2>3
<1>20. CASE Cancel("sup")
  <2>1. \A p \in Early : p # q /\ Fed(p) => Fed(p)'
    <3> SUFFICES ASSUME NEW p \in Early, p # q, Fed(p) PROVE Fed(p)'
        OBVIOUS
    <3>1. p \in Params /\ note[p] \in Nat /\ note'[p] = note[p]
      BY <1>1, <1>20 DEF Cancel, Early, Typed, ParamsTyped
    <3>2. note[p] \in DOMAIN notifications =>
            /\ note[p] \in DOMAIN notifications'
            /\ notifications'[note[p]] = notifications[note[p]]
      <4>1. note[p] # got["sup"]
        BY <1>20, <3>1 DEF Cancel, Carrying, FedInv, OwnNumbers, Refreshers
      <4> QED
        BY <1>20, <4>1 DEF Cancel, Less
    <3>3. SubscribedAs(note[p], p) => SubscribedAs(note[p], p)'
      <4>1. note[p] # got["sup"]
        BY <1>20, <3>1 DEF Cancel, Carrying, FedInv, OwnNumbers, Refreshers
      <4> QED
        BY <1>2, <1>20, <3>1, <4>1 DEF Cancel, SubscribedAs
    <3>4. p \in bulk => slots' = slots
      BY <1>20 DEF Cancel
    <3> QED
      BY <1>2, <3>1, <3>2, <3>3, <3>4, FedStays
  <2>2. OwnNumbers'
    BY <1>3, <1>20, NumbersFrame DEF Cancel, FedInv, Typed, ThreadsTyped, Carrying
  <2>3. SupAchieves'
    BY <1>1, <1>3, <1>4, <1>5, <1>20 DEF Cancel, FedInv, SupAchieves, Typed
  <2> QED
    BY <1>9, <2>1, <2>2, <2>3
<1>21. CASE Subscribe("sup")
  <2>1. \A p \in Early : p # q /\ Fed(p) => Fed(p)'
    <3> SUFFICES ASSUME NEW p \in Early, p # q, Fed(p) PROVE Fed(p)'
        OBVIOUS
    <3>1. p \in Params /\ note[p] \in Nat /\ note'[p] = note[p]
      BY <1>1, <1>21 DEF Subscribe, Early, Typed, ParamsTyped
    <3>2. note[p] \in DOMAIN notifications =>
            /\ note[p] \in DOMAIN notifications'
            /\ notifications'[note[p]] = notifications[note[p]]
      BY <1>21 DEF Subscribe
    <3>3. SubscribedAs(note[p], p) => SubscribedAs(note[p], p)'
      BY <1>2, <1>21, <3>1, NewStays DEF Subscribe, SubsStay
    <3>4. p \in bulk => slots' = slots
      BY <1>21 DEF Subscribe
    <3> QED
      BY <1>2, <3>1, <3>2, <3>3, <3>4, FedStays
  <2>2. OwnNumbers'
    <3>1. /\ note' = note /\ got'["sup"] = noted + 1 /\ pc["sup"] = "subscribe"
      BY <1>21 DEF Subscribe, Typed, ThreadsTyped, Threads
    <3>2. \A p \in Params : note[p] \in 0 .. noted
      BY DEF Typed, ParamsTyped
    <3>3. noted \in Nat /\ (pc["act"] \in Carrying => got["act"] \in 1 .. noted)
      BY DEF Typed, PlcTyped, RefreshTyped, Refreshers
    <3> QED
      BY <1>3, <3>1, <3>2, <3>3 DEF FedInv, OwnNumbers, Refreshers
  <2>3. SupAchieves'
    <3>1. got'["sup"] = noted + 1 /\ pc'["sup"] = "insert" /\ par'["sup"] = q
      BY <1>21 DEF Subscribe, Typed, ThreadsTyped, Threads
    <3>2. \E s \in subs' : s.n = noted + 1 /\ s.of = q /\ s.conn = client
      <4> DEFINE s == [n |-> noted + 1, of |-> q, conn |-> client, seen |-> plc[q]]
      <4>1. s \in subs'
        BY <1>1, <1>21 DEF Subscribe, NewSub
      <4>2. s.n = noted + 1 /\ s.of = q /\ s.conn = client
        OBVIOUS
      <4> QED
        BY <4>1, <4>2
    <3> QED
      BY <1>1, <1>2, <1>4, <1>5, <3>1, <3>2 DEF FedInv, SupAchieves, SubscribedAs
  <2> QED
    BY <1>9, <2>1, <2>2, <2>3
<1>22. CASE Insert("sup")
  <2>1. \A p \in Early : p # q /\ Fed(p) => Fed(p)'
    <3> SUFFICES ASSUME NEW p \in Early, p # q, Fed(p) PROVE Fed(p)'
        OBVIOUS
    <3>1. p \in Params /\ note[p] \in Nat /\ note'[p] = note[p]
      BY <1>1, <1>22 DEF Insert, Early, Typed, ParamsTyped
    <3>2. note[p] \in DOMAIN notifications =>
            /\ note[p] \in DOMAIN notifications'
            /\ notifications'[note[p]] = notifications[note[p]]
      <4>1. note[p] # got["sup"]
        BY <1>22, <3>1 DEF Insert, Carrying, FedInv, OwnNumbers, Refreshers
      <4> QED
        BY <1>22, <4>1 DEF Insert, With
    <3>3. SubscribedAs(note[p], p) => SubscribedAs(note[p], p)'
      BY <1>2, <1>22, <3>1, SameStays DEF Insert, SubsStay
    <3>4. p \in bulk => slots' = slots
      BY <1>22 DEF Insert
    <3> QED
      BY <1>2, <3>1, <3>2, <3>3, <3>4, FedStays
  <2>2. OwnNumbers'
    BY <1>3, <1>22, NumbersFrame DEF Insert, FedInv, Typed, Carrying
  <2>3. SupAchieves'
    <3>1. /\ pc["sup"] = "insert" /\ pc'["sup"] = "mark" /\ got' = got /\ par' = par
          /\ UNCHANGED <<subs, up, need>> /\ notifications' = With(notifications, got["sup"], q)
      BY <1>22 DEF Insert, Typed, ThreadsTyped, Threads
    <3>2. got["sup"] \in DOMAIN notifications' /\ notifications'[got["sup"]] = q
      BY <3>1 DEF With
    <3> QED
      BY <1>1, <1>2, <1>5, <3>1, <3>2 DEF FedInv, SupAchieves, SubscribedAs
  <2> QED
    BY <1>9, <2>1, <2>2, <2>3
<1>23. CASE Mark("sup")
  <2>1. \A p \in Early : p # q /\ Fed(p) => Fed(p)'
    <3> SUFFICES ASSUME NEW p \in Early, p # q, Fed(p) PROVE Fed(p)'
        OBVIOUS
    <3>1. p \in Params /\ note[p] \in Nat /\ note'[p] = note[p]
      BY <1>1, <1>23 DEF Mark, Early, Typed, ParamsTyped
    <3>2. note[p] \in DOMAIN notifications =>
            /\ note[p] \in DOMAIN notifications'
            /\ notifications'[note[p]] = notifications[note[p]]
      BY <1>23 DEF Mark
    <3>3. SubscribedAs(note[p], p) => SubscribedAs(note[p], p)'
      BY <1>2, <1>23, <3>1, SameStays DEF Mark, SubsStay
    <3>4. p \in bulk => slots' = slots
      BY <1>23 DEF Mark
    <3> QED
      BY <1>2, <3>1, <3>2, <3>3, <3>4, FedStays
  <2>2. OwnNumbers'
    <3>1. note'[q] = got["sup"] /\ pc["sup"] \in Carrying /\ pc'["sup"] \notin Carrying
      BY <1>1, <1>23 DEF Mark, Typed, ThreadsTyped, ParamsTyped, Threads, Carrying
    <3>2. \A p \in Params : p # q => note'[p] = note[p]
      BY <1>23 DEF Mark, Typed
    <3> QED
      BY <1>1, <1>3, <3>1, <3>2 DEF FedInv, OwnNumbers, Refreshers
  <2>3. SupAchieves'
    <3>1. /\ pc["sup"] = "mark" /\ pc'["sup"] = "sample" /\ par' = par /\ note'[q] = got["sup"]
          /\ UNCHANGED <<subs, up, need, notifications>>
      BY <1>1, <1>23 DEF Mark, Typed, ThreadsTyped, ParamsTyped, Threads
    <3>2. q \notin bulk
      BY <3>1 DEF Typed, RefreshTyped, Refreshers
    <3>3. q \in Early => Subscribed(q)'
      BY <1>1, <1>2, <3>1 DEF FedInv, SupAchieves, SubscribedAs, Subscribed
    <3> QED
      BY <1>1, <1>2, <1>5, <3>1, <3>2, <3>3 DEF FedInv, SupAchieves, Fed
  <2> QED
    BY <1>9, <2>1, <2>2, <2>3
<1>24. CASE pc["sup"] = "enrol" /\ Enrol("sup")
  <2>1. \A p \in Early : p # q /\ Fed(p) => Fed(p)'
    <3> SUFFICES ASSUME NEW p \in Early, p # q, Fed(p) PROVE Fed(p)'
        OBVIOUS
    <3>1. p \in Params /\ note[p] \in Nat /\ note'[p] = note[p]
      BY <1>1, <1>24 DEF Enrol, Early, Typed, ParamsTyped
    <3>2. note[p] \in DOMAIN notifications =>
            /\ note[p] \in DOMAIN notifications'
            /\ notifications'[note[p]] = notifications[note[p]]
      BY <1>24 DEF Enrol
    <3>3. SubscribedAs(note[p], p) => SubscribedAs(note[p], p)'
      BY <1>2, <1>24, <3>1, SameStays DEF Enrol, SubsStay
    <3>4. p \in bulk => Fed(p)'
      BY <1>1, <1>24, <3>1, EnrolKeepsFed DEF Refreshers
    <3> QED
      BY <1>2, <3>1, <3>2, <3>3, <3>4, FedStays
  <2>2. OwnNumbers'
    BY <1>3, <1>24, NumbersFrame DEF Enrol, FedInv, Typed, ThreadsTyped, Refreshers, Carrying
  <2>3. SupAchieves'
    <3>1. /\ pc'["sup"] \in {"sample", "seat"} /\ par' = par /\ need' = need /\ handle' = handle
      BY <1>24 DEF Enrol, Typed, ThreadsTyped, Threads
    <3>2. q \in bulk
      BY <1>24 DEF Typed, RefreshTyped, Refreshers
    <3>3. ASSUME q \in Early, OnFirst PROVE Polled(q)'
      <4>1. handle[q] = client /\ slots \in Seq(BulkSlots)
        BY <1>1, <1>24, <3>3 DEF FedInv, SupAchieves, Typed, FeedsTyped
      <4> DEFINE f == feed[q]
      <4>2. CASE f \in DOMAIN slots /\ slots' = [slots EXCEPT ![f].of = q, ![f].handle = handle[q]]
        <5>1. slots[f] \in BulkSlots /\ slots[f].reason = q
          <6>1. slots[f] \in BulkSlots /\ f > 0
            BY <4>1, <4>2
          <6> QED
            BY <1>1, <3>3, <6>1 DEF OwnSeats, HasSlot
        <5>2. [slots[f] EXCEPT !.of = q, !.handle = handle[q]]
                = [reason |-> q, of |-> q, handle |-> client]
          <6>1. handle[q] \in Nat
            BY <1>1 DEF Typed, ParamsTyped
          <6> QED
            BY <1>1, <4>1, <5>1, <6>1, SlotUpdated
        <5>3. f \in DOMAIN slots' /\ slots'[f] = [reason |-> q, of |-> q, handle |-> client]
          BY <4>2, <5>2
        <5> QED
          BY <1>2, <3>1, <5>3 DEF Polled
      <4>3. CASE slots' = Append(slots, Slot(q))
        <5> DEFINE n == Len(slots) + 1
        <5>1. Slot(q) = [reason |-> q, of |-> q, handle |-> client]
          BY <4>1 DEF Slot
        <5>2. n \in DOMAIN slots' /\ slots'[n] = Slot(q)
          BY <4>1, <4>3
        <5> QED
          BY <1>2, <3>1, <5>1, <5>2 DEF Polled
      <4> QED
        BY <1>24, <4>2, <4>3 DEF Enrol
    <3> QED
      BY <1>1, <1>2, <1>5, <3>1, <3>2, <3>3 DEF FedInv, SupAchieves, Fed, OnFirst
  <2> QED
    BY <1>9, <2>1, <2>2, <2>3
<1>25. CASE pc["sup"] = "enrol" /\ EnrolPanics("sup")
  <2>1. \A p \in Early : p # q /\ Fed(p) => Fed(p)'
    <3> SUFFICES ASSUME NEW p \in Early, p # q, Fed(p) PROVE Fed(p)'
        OBVIOUS
    <3>1. p \in Params /\ note[p] \in Nat /\ note'[p] = note[p]
      BY <1>1, <1>25 DEF EnrolPanics, Early, Typed, ParamsTyped
    <3>2. note[p] \in DOMAIN notifications =>
            /\ note[p] \in DOMAIN notifications'
            /\ notifications'[note[p]] = notifications[note[p]]
      BY <1>25 DEF EnrolPanics
    <3>3. SubscribedAs(note[p], p) => SubscribedAs(note[p], p)'
      BY <1>2, <1>25, <3>1, KeepStays DEF EnrolPanics, SubsStay
    <3>4. p \in bulk => slots' = slots
      BY <1>25 DEF EnrolPanics
    <3> QED
      BY <1>2, <3>1, <3>2, <3>3, <3>4, FedStays
  <2>2. OwnNumbers'
    BY <1>3, <1>25, NumbersFrame DEF EnrolPanics, FedInv, Typed, Carrying
  <2>3. SupAchieves'
    BY <1>25 DEF EnrolPanics, SupAchieves, Refreshing, Typed, ThreadsTyped, Threads
  <2> QED
    BY <1>9, <2>1, <2>2, <2>3
<1> QED
  BY <1>10, <1>11, <1>12, <1>13, <1>14, <1>15, <1>16, <1>17, <1>18, <1>19, <1>20, <1>21, <1>22,
     <1>23, <1>24, <1>25 DEF Refresh

--------------------------------------------------------------------------------
\* What the supervisor leaves alone between refreshes.
LEMMA PassFrame ==
  ASSUME Typed, FedInv, UNCHANGED <<client, setup, conns, note, notifications, slots>>,
         SubsStay,
         need \subseteq need', pc["sup"] \notin {"clear", "drop"}
  PROVE  EarlyAreFed'
<1>1. Early' = Early
  BY DEF Early, late
<1>2. ASSUME NEW p \in Early, p \notin need' PROVE Fed(p)'
  <2>1. note[p] \in Nat /\ p \in Params /\ Fed(p)
    BY <1>2 DEF Early, Typed, ParamsTyped, PlcTyped, FedInv, EarlyAreFed
  <2>2. SubscribedAs(note[p], p) => SubscribedAs(note[p], p)'
    BY <2>1 DEF SubsStay
  <2> QED
    BY <2>1, <2>2, FedStays
<1> QED
  BY <1>1, <1>2 DEF EarlyAreFed

\* Nothing is fed that is to be refreshed.
LEMMA NeededFrame == ASSUME Early' = Early, Early \subseteq need' PROVE EarlyAreFed'
BY DEF EarlyAreFed

\* The supervisor's other steps have no parameter in hand.
LEMMA IdleSupFrame ==
  ASSUME Typed, FedInv, setup' = setup, \A p \in Params : note'[p] \in {0, note[p]},
         UNCHANGED <<pc["act"], par["act"], got["act"]>>, pc'["sup"] \notin Refreshing
  PROVE  ActorIsLate' /\ OwnNumbers' /\ SupAchieves' /\ Early' = Early /\ late' = late
<1>1. pc["act"] \in Carrying => got["act"] # 0
  BY DEF Typed, RefreshTyped, Refreshers
<1>2. OwnNumbers'
  BY <1>1 DEF FedInv, OwnNumbers, Refreshers, Refreshing, Carrying
<1> QED
  BY <1>2 DEF FedInv, ActorIsLate, SupAchieves, Early, late

\* A connection is given up with all to be refreshed.
LEMMA DisconnectKeepsFed ==
  ASSUME Typed, FedInv, Disconnecting
  PROVE  FedInv'
<1>1. CASE TakeClient
  <2>1. ActorIsLate' /\ OwnNumbers' /\ SupAchieves' /\ Early' = Early /\ late' = late
    <3>1. /\ setup' = setup /\ UNCHANGED <<pc["act"], par["act"], got["act"]>>
          /\ pc'["sup"] \notin Refreshing
      BY <1>1 DEF TakeClient, Keep, Refreshing, Typed, ThreadsTyped
    <3>2. \A p \in Params : note'[p] \in {0, note[p]}
      BY <1>1 DEF TakeClient
    <3> QED
      BY <3>1, <3>2, IdleSupFrame
  <2>2. GivingUp'
    BY <1>1, <2>1 DEF TakeClient, Keep, FedInv, GivingUp, Typed, ThreadsTyped, Threads
  <2>3. SupDoes'
    BY <1>1, <2>1 DEF TakeClient, Keep, SupDoes, Refreshing, Typed
  <2>4. EarlyAreFed'
    BY <1>1 DEF TakeClient, Keep, EarlyAreFed, Typed, ThreadsTyped, Threads
  <2> QED
    BY <2>1, <2>2, <2>3, <2>4 DEF FedInv
<1>2. CASE ClearFeeds
  <2>1. ActorIsLate' /\ OwnNumbers' /\ SupAchieves' /\ Early' = Early /\ late' = late
    <3>1. /\ setup' = setup /\ UNCHANGED <<pc["act"], par["act"], got["act"]>>
          /\ pc'["sup"] \notin Refreshing
      BY <1>2 DEF ClearFeeds, Refreshing, Typed, ThreadsTyped
    <3>2. \A p \in Params : note'[p] \in {0, note[p]}
      BY <1>2 DEF ClearFeeds
    <3> QED
      BY <3>1, <3>2, IdleSupFrame
  <2>2. GivingUp'
    BY <1>2, <2>1 DEF ClearFeeds, FedInv, GivingUp, Early, Typed
  <2>3. SupDoes'
    BY <1>2, <2>1 DEF ClearFeeds, FedInv, SupDoes, Refreshing, Typed
  <2>4. EarlyAreFed'
    BY <1>2 DEF ClearFeeds, EarlyAreFed, Typed, ThreadsTyped
  <2> QED
    BY <2>1, <2>2, <2>3, <2>4 DEF FedInv
<1>3. CASE Invalidate
  <2>1. ActorIsLate' /\ OwnNumbers' /\ SupAchieves' /\ Early' = Early /\ late' = late
    <3>1. /\ setup' = setup /\ UNCHANGED <<pc["act"], par["act"], got["act"]>>
          /\ pc'["sup"] \notin Refreshing
      BY <1>3 DEF Invalidate, Refreshing, Typed, ThreadsTyped
    <3>2. \A p \in Params : note'[p] \in {0, note[p]}
      BY <1>3 DEF Invalidate
    <3> QED
      BY <3>1, <3>2, IdleSupFrame
  <2>2. GivingUp'
    BY <1>3, <2>1 DEF Invalidate, FedInv, GivingUp, Early, Typed, NeedTyped
  <2>3. SupDoes'
    BY <1>3, <2>1 DEF Invalidate, FedInv, SupDoes, Refreshing, Typed
  <2>4. EarlyAreFed'
    BY <1>3, <2>1, NeededFrame DEF Invalidate, Early, Typed, NeedTyped
  <2> QED
    BY <2>1, <2>2, <2>3, <2>4 DEF FedInv
<1>4. CASE DropHandles
  <2>1. ActorIsLate' /\ OwnNumbers' /\ SupAchieves' /\ Early' = Early /\ late' = late
    <3>1. /\ setup' = setup /\ UNCHANGED <<pc["act"], par["act"], got["act"]>>
          /\ pc'["sup"] \notin Refreshing
      BY <1>4 DEF DropHandles, Refreshing, Typed, ThreadsTyped
    <3>2. \A p \in Params : note'[p] \in {0, note[p]}
      BY <1>4 DEF DropHandles
    <3> QED
      BY <3>1, <3>2, IdleSupFrame
  <2>2. GivingUp'
    BY <1>4, <2>1 DEF DropHandles, FedInv, GivingUp, Early, Typed
  <2>3. SupDoes'
    BY <1>4, <2>1 DEF DropHandles, FedInv, SupDoes, Refreshing, Typed
  <2>4. EarlyAreFed'
    BY <1>4, <2>1, NeededFrame DEF DropHandles, FedInv, GivingUp, Typed
  <2> QED
    BY <2>1, <2>2, <2>3, <2>4 DEF FedInv
<1>5. CASE ForgetSubscriptions
  <2>1. ActorIsLate' /\ OwnNumbers' /\ SupAchieves' /\ Early' = Early /\ late' = late
    <3>1. /\ setup' = setup /\ UNCHANGED <<pc["act"], par["act"], got["act"]>>
          /\ pc'["sup"] \notin Refreshing
      BY <1>5 DEF ForgetSubscriptions, Refreshing, Typed, ThreadsTyped
    <3>2. \A p \in Params : note'[p] \in {0, note[p]}
      BY <1>5 DEF ForgetSubscriptions
    <3> QED
      BY <3>1, <3>2, IdleSupFrame
  <2>2. GivingUp'
    BY <1>5, <2>1 DEF ForgetSubscriptions, FedInv, GivingUp, Early, Typed
  <2>3. SupDoes'
    BY <1>5, <2>1 DEF ForgetSubscriptions, FedInv, SupDoes, Refreshing, Typed
  <2>4. EarlyAreFed'
    BY <1>5, <2>1, NeededFrame DEF ForgetSubscriptions, FedInv, GivingUp, Typed
  <2> QED
    BY <2>1, <2>2, <2>3, <2>4 DEF FedInv
<1>6. CASE RaiseAlarms
  <2>1. ActorIsLate' /\ OwnNumbers' /\ SupAchieves' /\ Early' = Early /\ late' = late
    <3>1. /\ setup' = setup /\ UNCHANGED <<pc["act"], par["act"], got["act"]>>
          /\ pc'["sup"] \notin Refreshing
      BY <1>6 DEF RaiseAlarms, Refreshing, Typed, ThreadsTyped
    <3>2. \A p \in Params : note'[p] \in {0, note[p]}
      BY <1>6 DEF RaiseAlarms
    <3> QED
      BY <3>1, <3>2, IdleSupFrame
  <2>2. GivingUp'
    BY <1>6, <2>1 DEF RaiseAlarms, FedInv, GivingUp, Early, Typed
  <2>3. SupDoes'
    BY <1>6, <2>1 DEF RaiseAlarms, FedInv, SupDoes, Refreshing, Typed
  <2>4. EarlyAreFed'
    BY <1>6, <2>1, NeededFrame DEF RaiseAlarms, FedInv, GivingUp, Typed
  <2> QED
    BY <2>1, <2>2, <2>3, <2>4 DEF FedInv
<1>7. CASE ResetPort
  <2>1. ActorIsLate' /\ OwnNumbers' /\ SupAchieves' /\ Early' = Early /\ late' = late
    <3>1. /\ setup' = setup /\ UNCHANGED <<pc["act"], par["act"], got["act"]>>
          /\ pc'["sup"] \notin Refreshing
      BY <1>7 DEF ResetPort, Refreshing, Typed, ThreadsTyped
    <3>2. \A p \in Params : note'[p] \in {0, note[p]}
      BY <1>7 DEF ResetPort
    <3> QED
      BY <3>1, <3>2, IdleSupFrame
  <2>2. GivingUp'
    BY <1>7, <2>1 DEF ResetPort, FedInv, GivingUp, Early, Typed
  <2>3. SupDoes'
    BY <1>7, <2>1 DEF ResetPort, SupDoes, Refreshing, Typed, ThreadsTyped
  <2>4. EarlyAreFed'
    BY <1>7, <2>1, NeededFrame DEF ResetPort, FedInv, GivingUp, Typed
  <2> QED
    BY <2>1, <2>2, <2>3, <2>4 DEF FedInv
<1> QED
  BY <1>1, <1>2, <1>3, <1>4, <1>5, <1>6, <1>7 DEF Disconnecting

\* A pass keeps what is fed, and takes what is to be refreshed.
LEMMA PassKeepsFed ==
  ASSUME Typed, FedInv,
         \/ BeginPass \/ Connect \/ ReadState \/ ListParams \/ NextParam
         \/ Renew \/ Renewed \/ EndPass
  PROVE  FedInv'
<1>1. CASE BeginPass
  <2>1. ActorIsLate' /\ OwnNumbers' /\ SupAchieves' /\ Early' = Early /\ late' = late
    <3>1. /\ setup' = setup /\ UNCHANGED <<pc["act"], par["act"], got["act"]>>
          /\ pc'["sup"] \notin Refreshing
      BY <1>1 DEF BeginPass, Refreshing, Typed, ThreadsTyped, Threads
    <3>2. \A p \in Params : note'[p] \in {0, note[p]}
      BY <1>1 DEF BeginPass
    <3> QED
      BY <3>1, <3>2, IdleSupFrame
  <2>2. GivingUp'
    BY <1>1, <2>1 DEF BeginPass, FedInv, GivingUp, Typed, ThreadsTyped
  <2>3. SupDoes'
    BY <1>1, <2>1 DEF BeginPass, SupDoes, Refreshing, Typed, ThreadsTyped
  <2>4. EarlyAreFed'
    <3>1. SubsStay
      BY <1>1, SameStays DEF BeginPass
    <3>2. /\ UNCHANGED <<client, setup, conns, note, notifications, slots>>
          /\ need \subseteq need'
          /\ pc["sup"] \notin {"clear", "drop"}
      BY <1>1 DEF BeginPass
    <3> QED
      BY <3>1, <3>2, PassFrame
  <2> QED
    BY <2>1, <2>2, <2>3, <2>4 DEF FedInv
<1>2. CASE Connect
  <2>1. ActorIsLate' /\ OwnNumbers' /\ SupAchieves' /\ Early' = Early /\ late' = late
    <3>1. /\ setup' = setup /\ UNCHANGED <<pc["act"], par["act"], got["act"]>>
          /\ pc'["sup"] \notin Refreshing
      BY <1>2 DEF Connect, Refreshing, Typed, ThreadsTyped, Threads
    <3>2. \A p \in Params : note'[p] \in {0, note[p]}
      BY <1>2 DEF Connect
    <3> QED
      BY <3>1, <3>2, IdleSupFrame
  <2>2. GivingUp'
    BY <1>2, <2>1 DEF Connect, FedInv, GivingUp, Typed, ThreadsTyped, Threads
  <2>3. SupDoes'
    BY <1>2, <2>1 DEF Connect, SupDoes, Refreshing, Typed, ThreadsTyped
  <2>4. EarlyAreFed'
    BY <1>2, <2>1, NeededFrame DEF Connect, FedInv, GivingUp, Typed
  <2> QED
    BY <2>1, <2>2, <2>3, <2>4 DEF FedInv
<1>3. CASE ReadState
  <2>1. ActorIsLate' /\ OwnNumbers' /\ SupAchieves' /\ Early' = Early /\ late' = late
    <3>1. /\ setup' = setup /\ UNCHANGED <<pc["act"], par["act"], got["act"]>>
          /\ pc'["sup"] \notin Refreshing
      BY <1>3 DEF ReadState, Refreshing, Typed, ThreadsTyped, Threads
    <3>2. \A p \in Params : note'[p] \in {0, note[p]}
      BY <1>3 DEF ReadState
    <3> QED
      BY <3>1, <3>2, IdleSupFrame
  <2>2. GivingUp'
    BY <1>3, <2>1 DEF ReadState, FedInv, GivingUp, Typed, ThreadsTyped
  <2>3. SupDoes'
    BY <1>3, <2>1 DEF ReadState, SupDoes, Refreshing, Typed, ThreadsTyped
  <2>4. EarlyAreFed'
    <3>1. SubsStay
      BY <1>3, SameStays DEF ReadState
    <3>2. /\ UNCHANGED <<client, setup, conns, note, notifications, slots>>
          /\ need \subseteq need'
          /\ pc["sup"] \notin {"clear", "drop"}
      BY <1>3 DEF ReadState
    <3> QED
      BY <3>1, <3>2, PassFrame
  <2> QED
    BY <2>1, <2>2, <2>3, <2>4 DEF FedInv
<1>4. CASE ListParams
  <2>1. ActorIsLate' /\ OwnNumbers' /\ SupAchieves' /\ Early' = Early /\ late' = late
    <3>1. /\ setup' = setup /\ UNCHANGED <<pc["act"], par["act"], got["act"]>>
          /\ pc'["sup"] \notin Refreshing
      BY <1>4 DEF ListParams, Refreshing, Typed, ThreadsTyped
    <3>2. \A p \in Params : note'[p] \in {0, note[p]}
      BY <1>4 DEF ListParams
    <3> QED
      BY <3>1, <3>2, IdleSupFrame
  <2>2. GivingUp'
    BY <1>4, <2>1 DEF ListParams, FedInv, GivingUp, Early, Typed
  <2>3. SupDoes'
    BY <1>4, <2>1 DEF ListParams, FedInv, SupDoes, Refreshing, Typed
  <2>4. EarlyAreFed'
    <3>1. SubsStay
      BY <1>4, SameStays DEF ListParams
    <3>2. /\ UNCHANGED <<client, setup, conns, note, notifications, slots>>
          /\ need \subseteq need'
          /\ pc["sup"] \notin {"clear", "drop"}
      BY <1>4 DEF ListParams
    <3> QED
      BY <3>1, <3>2, PassFrame
  <2> QED
    BY <2>1, <2>2, <2>3, <2>4 DEF FedInv
<1>5. CASE NextParam
  <2>1. /\ UNCHANGED <<setup, note, need, client, conns, after, slots, notifications, subs, up>>
        /\ UNCHANGED <<pc["act"], par["act"], got["act"]>> /\ pc["sup"] = "next"
    BY <1>5 DEF NextParam, Typed, ThreadsTyped, Threads
  <2>2. Early' = Early /\ late' = late
    BY <2>1 DEF Early, late
  <2>3. ActorIsLate' /\ OwnNumbers'
    <3>1. pc'["sup"] \notin Carrying
      BY <1>5 DEF NextParam, Carrying, Typed, ThreadsTyped
    <3>2. OwnNumbers'
      BY <2>1, <3>1, NumbersFrame DEF FedInv, Refreshers
    <3> QED
      BY <2>1, <2>2, <3>2 DEF FedInv, ActorIsLate
  <2>4. GivingUp'
    BY <1>5, <2>1, <2>2 DEF NextParam, FedInv, GivingUp, Typed, ThreadsTyped
  <2>5. todo \ late \subseteq need
    BY <2>1 DEF FedInv, SupDoes
  <2>6. \/ /\ todo # {} /\ pc'["sup"] = "info" /\ par'["sup"] \in todo
           /\ todo' = todo \ {par'["sup"]}
        \/ pc'["sup"] \in {"renew", "list", "end"}
    BY <1>5 DEF NextParam, Typed, ThreadsTyped, Threads
  <2>7. SupDoes'
    BY <2>1, <2>2, <2>5, <2>6 DEF SupDoes, Refreshing
  <2>8. SupAchieves'
    BY <2>1, <2>2, <2>5, <2>6 DEF SupAchieves, Refreshing, Early
  <2>9. EarlyAreFed'
    <3>1. SubsStay
      BY <2>1, SameStays
    <3> QED
      BY <2>1, <3>1, PassFrame
  <2> QED
    BY <2>3, <2>4, <2>7, <2>8, <2>9 DEF FedInv
<1>6. CASE Renew
  <2>1. ActorIsLate' /\ OwnNumbers' /\ SupAchieves' /\ Early' = Early /\ late' = late
    <3>1. /\ setup' = setup /\ UNCHANGED <<pc["act"], par["act"], got["act"]>>
          /\ pc'["sup"] \notin Refreshing
      BY <1>6 DEF Renew, NewSub, Refreshing, Typed, ThreadsTyped, Threads
    <3>2. \A p \in Params : note'[p] \in {0, note[p]}
      BY <1>6 DEF Renew
    <3> QED
      BY <3>1, <3>2, IdleSupFrame
  <2>2. GivingUp'
    BY <1>6, <2>1 DEF Renew, FedInv, GivingUp, Typed, ThreadsTyped, Threads
  <2>3. SupDoes'
    BY <1>6, <2>1 DEF Renew, SupDoes, Refreshing, Typed, ThreadsTyped
  <2>4. EarlyAreFed'
    <3>1. SubsStay
      BY <1>6, NewStays, SameStays DEF Renew
    <3>2. /\ UNCHANGED <<client, setup, conns, note, notifications, slots>>
          /\ need \subseteq need'
          /\ pc["sup"] \notin {"clear", "drop"}
      BY <1>6 DEF Renew, NewSub
    <3> QED
      BY <3>1, <3>2, PassFrame
  <2> QED
    BY <2>1, <2>2, <2>3, <2>4 DEF FedInv
<1>7. CASE Renewed
  <2>1. ActorIsLate' /\ OwnNumbers' /\ SupAchieves' /\ Early' = Early /\ late' = late
    <3>1. /\ setup' = setup /\ UNCHANGED <<pc["act"], par["act"], got["act"]>>
          /\ pc'["sup"] \notin Refreshing
      BY <1>7 DEF Renewed, Refreshing, Typed, ThreadsTyped
    <3>2. \A p \in Params : note'[p] \in {0, note[p]}
      BY <1>7 DEF Renewed
    <3> QED
      BY <3>1, <3>2, IdleSupFrame
  <2>2. GivingUp'
    BY <1>7, <2>1 DEF Renewed, FedInv, GivingUp, Early, Typed
  <2>3. SupDoes'
    BY <1>7, <2>1 DEF Renewed, FedInv, SupDoes, Refreshing, Typed
  <2>4. EarlyAreFed'
    <3>1. SubsStay
      BY <1>7, SameStays DEF Renewed
    <3>2. /\ UNCHANGED <<client, setup, conns, note, notifications, slots>>
          /\ need \subseteq need'
          /\ pc["sup"] \notin {"clear", "drop"}
      BY <1>7 DEF Renewed
    <3> QED
      BY <3>1, <3>2, PassFrame
  <2> QED
    BY <2>1, <2>2, <2>3, <2>4 DEF FedInv
<1>8. CASE EndPass
  <2>1. ActorIsLate' /\ OwnNumbers' /\ SupAchieves' /\ Early' = Early /\ late' = late
    <3>1. /\ setup' = setup /\ UNCHANGED <<pc["act"], par["act"], got["act"]>>
          /\ pc'["sup"] \notin Refreshing
      BY <1>8 DEF EndPass, Keep, Refreshing, Typed, ThreadsTyped
    <3>2. \A p \in Params : note'[p] \in {0, note[p]}
      BY <1>8 DEF EndPass
    <3> QED
      BY <3>1, <3>2, IdleSupFrame
  <2>2. GivingUp'
    BY <1>8, <2>1 DEF EndPass, Keep, FedInv, GivingUp, Typed
  <2>3. SupDoes'
    BY <1>8, <2>1 DEF EndPass, Keep, SupDoes, Refreshing, Typed
  <2>4. EarlyAreFed'
    <3>1. SubsStay
      BY <1>8, KeepStays DEF EndPass
    <3>2. /\ UNCHANGED <<client, setup, conns, note, notifications, slots>>
          /\ need \subseteq need'
          /\ pc["sup"] \notin {"clear", "drop"}
      BY <1>8 DEF EndPass, Keep
    <3> QED
      BY <3>1, <3>2, PassFrame
  <2> QED
    BY <2>1, <2>2, <2>3, <2>4 DEF FedInv
<1> QED
  BY <1>1, <1>2, <1>3, <1>4, <1>5, <1>6, <1>7, <1>8

--------------------------------------------------------------------------------
\* Seats are kept while no slot is given and none is taken.
LEMMA SeatsFrame ==
  ASSUME OwnSeats, UNCHANGED <<slots, conns>>, OnFirst' => OnFirst,
         \A p \in Params : feed'[p] = feed[p] \/ ~(feed'[p] > 0),
         \A t \in Refreshers :
           pc'[t] = "seat" => pc[t] = "seat" /\ got'[t] = got[t] /\ par'[t] = par[t]
  PROVE  OwnSeats'
<1> SUFFICES ASSUME OnFirst' PROVE OwnSeats'
    BY DEF OwnSeats
<1>1. OnFirst
  OBVIOUS
<1>2. \A k, p : HasSlot(k, p)' <=> HasSlot(k, p)
  BY DEF HasSlot
<1>3. \A p \in Params : feed'[p] > 0 => HasSlot(feed'[p], p)
  BY <1>1 DEF OwnSeats
<1>4. \A t \in Refreshers : pc'[t] = "seat" => HasSlot(got'[t], par'[t])
  BY <1>1 DEF OwnSeats
<1> QED
  BY <1>1, <1>3, <1>4 DEF OwnSeats, HasSlot

\* A refresh keeps the seats, and gives its own parameter one.
LEMMA RefreshKeepsSeats ==
  ASSUME Typed, OwnSeats, NEW t \in Refreshers, Refresh(t)
  PROVE  OwnSeats'
<1> DEFINE q == par[t]
<1>1. \A u \in Refreshers : u # t => pc'[u] = pc[u] /\ got'[u] = got[u] /\ par'[u] = par[u]
  <2> SUFFICES ASSUME NEW u \in Refreshers, u # t
               PROVE  pc'[u] = pc[u] /\ got'[u] = got[u] /\ par'[u] = par[u]
      OBVIOUS
  <2>1. \E x : pc' = [pc EXCEPT ![t] = x]
    BY DEF Refresh, RefreshFails, Refused, GetInfo, GetHandle, SetHandle, Leave, Cancel,
       Subscribe, Insert, Mark, Enrol, EnrolPanics, Seat, Sample, PublishFirst, Done, Return,
       Idle
  <2>2. got' = got \/ \E x : got' = [got EXCEPT ![t] = x]
    BY DEF Refresh, RefreshFails, Refused, GetInfo, GetHandle, SetHandle, Leave, Cancel,
       Subscribe, Insert, Mark, Enrol, EnrolPanics, Seat, Sample, PublishFirst, Done, Return,
       Idle
  <2>3. par' = par \/ \E x : par' = [par EXCEPT ![t] = x]
    BY DEF Refresh, RefreshFails, Refused, GetInfo, GetHandle, SetHandle, Leave, Cancel,
       Subscribe, Insert, Mark, Enrol, EnrolPanics, Seat, Sample, PublishFirst, Done, Return,
       Idle
  <2> QED
    BY <2>1, <2>2, <2>3 DEF Typed, ThreadsTyped, Threads, Refreshers
<1>2. UNCHANGED <<client, conns>> /\ (OnFirst' <=> OnFirst)
  BY DEF Refresh, RefreshFails, Refused, GetInfo, GetHandle, SetHandle, Leave, Cancel,
     Subscribe, NewSub, Insert, Mark, Enrol, EnrolPanics, Seat, Sample, PublishFirst, Done,
     Return, Idle, Keep, OnFirst
<1>3. t \in Threads
  BY DEF Refreshers, Threads
<1>4. CASE \/ RefreshFails(t) \/ Refused(t) \/ GetInfo(t) \/ GetHandle(t) \/ SetHandle(t)
           \/ Cancel(t) \/ Subscribe(t) \/ Insert(t) \/ EnrolPanics(t) \/ Sample(t)
           \/ PublishFirst(t) \/ Done(t)
  <2>1. UNCHANGED <<slots, feed>>
    BY <1>4 DEF RefreshFails, Refused, GetInfo, GetHandle, SetHandle, Cancel, Subscribe,
       Insert, EnrolPanics, Sample, PublishFirst, Done
  <2>2. pc'[t] # "seat"
    BY <1>3, <1>4 DEF RefreshFails, Refused, GetInfo, GetHandle, SetHandle, Cancel, Subscribe,
       Insert, EnrolPanics, Sample, PublishFirst, Done, Return, Idle, Typed, ThreadsTyped
  <2> QED
    BY <1>1, <1>2, <2>1, <2>2, SeatsFrame
<1>5. CASE Leave(t) \/ Mark(t)
  <2>1. slots' = slots /\ pc'[t] # "seat"
    BY <1>3, <1>5 DEF Leave, Mark, Typed, ThreadsTyped
  <2>2. \A p \in Params : feed'[p] = feed[p] \/ feed'[p] \in {NoFeed, Notified}
    BY <1>5 DEF Leave, Mark, Typed, ParamsTyped
  <2>3. \A p \in Params : feed'[p] = feed[p] \/ ~(feed'[p] > 0)
    BY <2>2 DEF NoFeed, Notified
  <2> QED
    BY <1>1, <1>2, <2>1, <2>3, SeatsFrame
<1>6. CASE Seat(t)
  <2>1. /\ UNCHANGED <<slots, par>> /\ pc[t] = "seat" /\ pc'[t] # "seat"
        /\ feed' = [feed EXCEPT ![q] = got[t]]
    BY <1>3, <1>6 DEF Seat, Typed, ThreadsTyped
  <2> SUFFICES ASSUME OnFirst PROVE OwnSeats'
      BY <1>2 DEF OwnSeats
  <2>2. HasSlot(got[t], q)
    BY <2>1 DEF OwnSeats
  <2>3. \A p \in Params : feed'[p] > 0 => HasSlot(feed'[p], p)
    BY <2>1, <2>2 DEF OwnSeats, Typed, ParamsTyped
  <2>4. \A u \in Refreshers : pc'[u] = "seat" => HasSlot(got'[u], par'[u])
    BY <1>1, <2>1 DEF OwnSeats
  <2> QED
    BY <1>2, <2>1, <2>3, <2>4 DEF OwnSeats, HasSlot
<1>7. CASE pc[t] = "enrol" /\ Enrol(t)
  <2> SUFFICES ASSUME OnFirst PROVE OwnSeats'
      BY <1>2 DEF OwnSeats
  <2>1. /\ UNCHANGED <<feed, par>> /\ handle[q] # 0 /\ q \in Params
        /\ slots \in Seq(BulkSlots) /\ feed \in [Params -> Int]
    BY <1>7 DEF Enrol, Typed, RefreshTyped, FeedsTyped, ParamsTyped, Refreshing
  <2>2. conns' # 0
    BY <1>2, <2>1 DEF Typed, ParamsTyped
  <2>3. \A k, p : HasSlot(k, p) => HasSlot(k, p)'
    <3> SUFFICES ASSUME NEW k, NEW p, HasSlot(k, p) PROVE HasSlot(k, p)'
        OBVIOUS
    <3>1. k \in DOMAIN slots /\ slots[k] \in BulkSlots /\ slots[k].reason = p
      BY <2>1 DEF HasSlot
    <3>2. CASE slots' = [slots EXCEPT ![feed[q]].of = q, ![feed[q]].handle = handle[q]]
      <4>1. k \in DOMAIN slots' /\ slots'[k].reason = p
        BY <3>1, <3>2 DEF BulkSlots
      <4> QED
        BY <4>1 DEF HasSlot
    <3>3. CASE slots' = Append(slots, Slot(q))
      <4>1. k \in DOMAIN slots' /\ slots'[k] = slots[k]
        BY <2>1, <3>1, <3>3
      <4> QED
        BY <3>1, <4>1 DEF HasSlot
    <3> QED
      BY <1>7, <3>2, <3>3 DEF Enrol
  <2>4. pc'[t] = "seat" => got'[t] \in DOMAIN slots' /\ slots'[got'[t]].reason = q
    <3> DEFINE n == Len(slots) + 1
    <3>1. pc'[t] = "seat" => slots' = Append(slots, Slot(q)) /\ got'[t] = n
      BY <1>3, <1>7 DEF Enrol, Typed, ThreadsTyped
    <3>2. slots' = Append(slots, Slot(q)) => n \in DOMAIN slots' /\ slots'[n] = Slot(q)
      BY <2>1
    <3>3. Slot(q).reason = q
      BY DEF Slot
    <3> HIDE DEF n
    <3> QED
      BY <3>1, <3>2, <3>3
  <2>5. \A p \in Params : (feed[p] > 0 => HasSlot(feed[p], p))'
    <3>1. \A p \in Params : feed[p] > 0 => HasSlot(feed[p], p)
      BY DEF OwnSeats
    <3> QED
      BY <2>1, <2>3, <3>1 DEF HasSlot
  <2>6. \A u \in Refreshers : (pc[u] = "seat" => HasSlot(got[u], par[u]))'
    <3> SUFFICES ASSUME NEW u \in Refreshers, pc'[u] = "seat"
                 PROVE  HasSlot(got[u], par[u])'
        OBVIOUS
    <3>1. CASE u = t
      BY <2>1, <2>4, <3>1 DEF HasSlot
    <3>2. CASE u # t
      <4>1. HasSlot(got[u], par[u])
        BY <1>1, <3>2 DEF OwnSeats
      <4> QED
        BY <1>1, <2>3, <3>2, <4>1 DEF HasSlot
    <3> QED
      BY <3>1, <3>2
  <2> QED
    BY <2>2, <2>5, <2>6 DEF OwnSeats, HasSlot
<1> QED
  BY <1>4, <1>5, <1>6, <1>7 DEF Refresh

\* Every step does: slots are lost with the client only, and the port is on its
\* first connection no more.
LEMMA SeatsStep == Typed /\ FedInv /\ OwnSeats /\ [Next]_vars => OwnSeats'
<1> SUFFICES ASSUME Typed, FedInv, OwnSeats, [Next]_vars PROVE OwnSeats'
    OBVIOUS
<1>1. CASE Refresh("sup") \/ Refresh("act")
  BY <1>1, RefreshKeepsSeats DEF Refreshers
<1>2. CASE ClearFeeds
  <2>1. client = 0 /\ UNCHANGED <<client, conns, feed, got, par>> /\ slots' = <<>>
    BY <1>2 DEF ClearFeeds, FedInv, GivingUp
  <2>2. \A t \in Refreshers : pc'[t] = "seat" => pc[t] = "seat"
    BY <1>2 DEF ClearFeeds, Typed, ThreadsTyped, Threads, Refreshers
  <2>3. OnFirst => slots = <<>>
    BY <2>1 DEF OnFirst, OwnSeats
  <2> QED
    BY <2>1, <2>2, <2>3 DEF OnFirst, OwnSeats, HasSlot
<1>3. CASE Connect
  <2>1. UNCHANGED <<slots, feed, got, par>>
    BY <1>3 DEF Connect
  <2>2. \A t \in Refreshers : pc'[t] = "seat" => pc[t] = "seat"
    BY <1>3 DEF Connect, Typed, ThreadsTyped, Threads, Refreshers
  <2>3. \/ UNCHANGED <<client, conns>>
        \/ client' = conns + 1 /\ conns' = conns + 1
    BY <1>3 DEF Connect
  <2>4. (OnFirst' => OnFirst) /\ (conns' = 0 => conns = 0)
    BY <2>3 DEF OnFirst, Typed, PlcTyped
  <2> QED
    BY <2>1, <2>2, <2>4 DEF OwnSeats, HasSlot
<1>4. CASE TakeClient
  <2>1. UNCHANGED <<slots, conns, feed, got, par>> /\ client' = 0
    BY <1>4 DEF TakeClient, Keep
  <2>2. \A t \in Refreshers : pc'[t] = "seat" => pc[t] = "seat"
    BY <1>4 DEF TakeClient, Typed, ThreadsTyped, Threads, Refreshers
  <2>3. OnFirst' => OnFirst
    BY <2>1 DEF OnFirst, Typed, PlcTyped
  <2> QED
    BY <2>1, <2>2, <2>3, SeatsFrame
<1>5. CASE \/ Invalidate \/ DropHandles \/ ForgetSubscriptions \/ RaiseAlarms \/ ResetPort
           \/ BeginPass \/ ReadState \/ ListParams \/ NextParam \/ Renew \/ Renewed \/ EndPass
  <2>1. UNCHANGED <<slots, conns, client, feed>>
    BY <1>5 DEF Invalidate, DropHandles, ForgetSubscriptions, RaiseAlarms, ResetPort, BeginPass,
       ReadState, ListParams, NextParam, Renew, NewSub, Renewed, EndPass, Keep
  <2>2. pc'["sup"] # "seat"
    BY <1>5 DEF Invalidate, DropHandles, ForgetSubscriptions, RaiseAlarms, ResetPort, BeginPass,
       ReadState, ListParams, NextParam, Renew, Renewed, EndPass, Typed, ThreadsTyped, Threads
  <2>3. pc'["act"] = pc["act"] /\ got'["act"] = got["act"] /\ par'["act"] = par["act"]
    BY <1>5 DEF Invalidate, DropHandles, ForgetSubscriptions, RaiseAlarms, ResetPort, BeginPass,
       ReadState, ListParams, NextParam, Renew, Renewed, EndPass, Typed, ThreadsTyped, Threads
  <2> QED
    BY <2>1, <2>2, <2>3, SeatsFrame DEF OnFirst, Refreshers
<1>6. CASE Poller \/ Reader \/ PublishWritten \/ Push \/ Environment
  <2>1. UNCHANGED <<slots, conns, client, feed>>
    BY <1>6 DEF Poller, PollSlots, PublishPolled, EndPoll, Idle, Reader, TakeSample,
       PublishSample, PublishWritten, Push, Environment, Bind, Rebind, Write, WriteFails,
       PlcChanges, Download, StopOrRun, LinkLost, driver, Keep
  <2>2. pc'["sup"] = pc["sup"] /\ got'["sup"] = got["sup"] /\ par'["sup"] = par["sup"]
    BY <1>6 DEF Poller, PollSlots, PublishPolled, EndPoll, Idle, Reader, TakeSample,
       PublishSample, PublishWritten, Push, Environment, Bind, Rebind, Write, WriteFails,
       PlcChanges, Download, StopOrRun, LinkLost, driver, Typed, ThreadsTyped, Threads
  <2>3. pc'["act"] = "seat" =>
          pc["act"] = "seat" /\ got'["act"] = got["act"] /\ par'["act"] = par["act"]
    BY <1>6 DEF Poller, PollSlots, PublishPolled, EndPoll, Idle, Reader, TakeSample,
       PublishSample, PublishWritten, Push, Environment, Bind, Rebind, Write, WriteFails,
       PlcChanges, Download, StopOrRun, LinkLost, driver, Typed, ThreadsTyped, Threads
  <2> QED
    BY <2>1, <2>2, <2>3, SeatsFrame DEF OnFirst, Refreshers
<1>7. CASE UNCHANGED vars
  BY <1>7, SeatsFrame DEF vars, OnFirst
<1> QED
  BY <1>1, <1>2, <1>3, <1>4, <1>5, <1>6, <1>7 DEF Next, Supervisor, Disconnecting, Actor

\* Every step keeps what is fed.
LEMMA FedStep == Typed /\ FedInv /\ OwnSeats /\ [Next]_vars => FedInv'
<1> SUFFICES ASSUME Typed, FedInv, OwnSeats, [Next]_vars PROVE FedInv'
    OBVIOUS
<1>1. CASE Refresh("sup")
  BY <1>1, SupRefreshKeepsFed
<1>2. CASE Refresh("act")
  BY <1>2, ActorKeepsFed
<1>3. CASE Disconnecting
  BY <1>3, DisconnectKeepsFed
<1>4. CASE \/ BeginPass \/ Connect \/ ReadState \/ ListParams \/ NextParam
           \/ Renew \/ Renewed \/ EndPass
  BY <1>4, PassKeepsFed
<1>5. CASE Poller \/ Reader
  BY <1>5, PublishersKeepFed
<1>6. CASE PublishWritten \/ Push \/ Environment
  BY <1>6, OthersKeepFed
<1>7. CASE UNCHANGED vars
  <2>1. SupSame /\ SubsStay /\ UNCHANGED <<note, notifications, slots, need, handle>>
    BY <1>7, SameStays DEF vars, SupSame
  <2>2. ActorIsLate' /\ OwnNumbers'
    BY <1>7 DEF vars, FedInv, ActorIsLate, OwnNumbers, late
  <2> QED
    BY <2>1, <2>2, QuietFrame DEF FedInv
<1> QED
  BY <1>1, <1>2, <1>3, <1>4, <1>5, <1>6, <1>7 DEF Next, Supervisor, Actor

\* A parameter that is there from the start and whose `refresh_needed` is clear
\* is fed on the client's connection, by a slot with a handle of it or by a
\* notification that the PLC and this side know, unless the connection is being
\* given up: neither a failed refresh (`refresh_param`), nor another parameter's
\* bind, nor a lost link or a reconnect (`disconnect`, `cyclic_pass`) leaves one
\* behind.  Any number of parameters are polled; of their slots this is so on the
\* port's first connection, whose slots `add_to_bulk` gives up to none.
THEOREM RefreshedAreFed == Spec => []RefreshedIsFed
<1>1. Typed /\ FedInv => RefreshedIsFed
  <2> SUFFICES ASSUME Typed, FedInv, pc["sup"] \notin {"clear", "drop"},
                      NEW p \in bound \ (need \cup late)
               PROVE  IF p \in bulk THEN conns <= 1 => Polled(p) ELSE Subscribed(p)
      BY DEF RefreshedIsFed
  <2>1. p \in Early \ need
    BY DEF Early, Typed, NeedTyped
  <2>2. Fed(p)
    BY <2>1 DEF FedInv, EarlyAreFed
  <2>3. conns <= 1 => OnFirst
    <3>1. client # 0
      BY <2>1 DEF FedInv, GivingUp
    <3> QED
      BY <3>1 DEF OnFirst, Typed, PlcTyped
  <2> QED
    BY <2>2, <2>3 DEF Fed
<1>2. Init => Typed /\ FedInv /\ OwnSeats
  <2>1. Init => OwnSeats
    BY DEF Init, OwnSeats, OnFirst, NoFeed, Threads, Refreshers
  <2> QED
    BY <2>1, InitTyped, InitFed
<1>3. Typed /\ FedInv /\ OwnSeats /\ [Next]_vars => (Typed /\ FedInv /\ OwnSeats)'
  BY TypedStep, FedStep, SeatsStep
<1> QED
  BY <1>1, <1>2, <1>3, PTL DEF Spec
================================================================================
