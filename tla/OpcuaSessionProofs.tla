--------------------------- MODULE OpcuaSessionProofs ---------------------------
(***************************************************************************)
(* What holds of a session for any number of items, whatever their         *)
(* options, and any number of connections, orders and requests: the states *)
(* of the session and its items go through a connection together.          *)
(***************************************************************************)
EXTENDS OpcuaSession, TLAPS

(***************************************************************************)
(* Leaves.  The proofs only look at a leaf's state: IsLeaf says that it is *)
(* a record with the four fields, whatever the others hold.                *)
(***************************************************************************)
IsLeaf(l) == l = [state |-> l.state, updates |-> l.updates,
                  dirty |-> l.dirty, typed |-> l.typed]

\* A record written field by field is a leaf (`Item`'s fields).
LEMMA LeafFields ==
  ASSUME NEW s, NEW u, NEW d, NEW t
  PROVE  IsLeaf([state |-> s, updates |-> u, dirty |-> d, typed |-> t])
  BY DEF IsLeaf

\* Setting one field of a leaf leaves a leaf, with the state it had unless that
\* field is the state.
LEMMA LeafExcept ==
  ASSUME NEW l, IsLeaf(l), NEW x
  PROVE  /\ IsLeaf([l EXCEPT !.typed = x]) /\ [l EXCEPT !.typed = x].state = l.state
         /\ IsLeaf([l EXCEPT !.state = x]) /\ [l EXCEPT !.state = x].state = x
         /\ IsLeaf([l EXCEPT !.updates = x]) /\ [l EXCEPT !.updates = x].state = l.state
         /\ IsLeaf([l EXCEPT !.dirty = x]) /\ [l EXCEPT !.dirty = x].state = l.state
<1>1. [l EXCEPT !.typed = x] = [state |-> l.state, updates |-> l.updates, dirty |-> l.dirty, typed |-> x]
  BY DEF IsLeaf
<1>2. [l EXCEPT !.state = x] = [state |-> x, updates |-> l.updates, dirty |-> l.dirty, typed |-> l.typed]
  BY DEF IsLeaf
<1>3. [l EXCEPT !.updates = x] = [state |-> l.state, updates |-> x, dirty |-> l.dirty, typed |-> l.typed]
  BY DEF IsLeaf
<1>4. [l EXCEPT !.dirty = x] = [state |-> l.state, updates |-> l.updates, dirty |-> x, typed |-> l.typed]
  BY DEF IsLeaf
<1>5. QED BY <1>1, <1>2, <1>3, <1>4, LeafFields

\* An update changes nothing but the queue (`Leaf::push`).
LEMMA QueuedKeepsState ==
  ASSUME NEW l, IsLeaf(l), NEW reason
  PROVE  IsLeaf(Queued(l, reason)) /\ Queued(l, reason).state = l.state
  BY LeafExcept DEF Queued

\* A value moves a leaf on from the initial read, and from no other state
\* (`Item::set_incoming_data`).
LEMMA DataKeepsState ==
  ASSUME NEW i \in Items, NEW l, IsLeaf(l)
  PROVE  /\ IsLeaf(IncomingData(i, l))
         /\ l.state # "InitialRead" => IncomingData(i, l).state = l.state
         /\ l.state = "InitialRead" => IncomingData(i, l).state \in {"Up", "InitialWrite"}
<1> DEFINE typed == [l EXCEPT !.typed = TRUE]
           up == [typed EXCEPT !.state = "Up"]
           writing == [typed EXCEPT !.state = "InitialWrite"]
<1>0. /\ IsLeaf(typed) /\ typed.state = l.state
      /\ IsLeaf(up) /\ up.state = "Up"
      /\ IsLeaf(writing) /\ writing.state = "InitialWrite"
  <2> HIDE DEF up, writing
  <2>1. IsLeaf(typed) /\ typed.state = l.state
    BY LeafExcept
  <2> HIDE DEF typed
  <2>2. up = [typed EXCEPT !.state = "Up"] /\ writing = [typed EXCEPT !.state = "InitialWrite"]
    BY DEF up, writing
  <2>3. IsLeaf(up) /\ up.state = "Up"
    BY <2>1, <2>2, LeafExcept
  <2>4. IsLeaf(writing) /\ writing.state = "InitialWrite"
    BY <2>1, <2>2, LeafExcept
  <2>5. QED BY <2>1, <2>3, <2>4
<1>4. IncomingData(i, l) =
        IF l.state # "InitialRead" THEN Queued(typed, "data")
        ELSE CASE Bini[i] = "read"   -> Queued(up, "data")
               [] Bini[i] = "ignore" -> up
               [] Bini[i] = "write"  -> Queued(writing, "writeRequest")
  BY DEF IncomingData
<1>5. Bini[i] \in {"read", "ignore", "write"}
  BY SessionAssumption
<1> HIDE DEF typed, up, writing
<1>6. CASE l.state # "InitialRead"
  BY <1>0, <1>4, <1>6, QueuedKeepsState
<1>7. CASE l.state = "InitialRead" /\ Bini[i] = "read"
  BY <1>0, <1>4, <1>7, QueuedKeepsState
<1>8. CASE l.state = "InitialRead" /\ Bini[i] = "ignore"
  BY <1>0, <1>4, <1>8
<1>9. CASE l.state = "InitialRead" /\ Bini[i] = "write"
  BY <1>0, <1>4, <1>9, QueuedKeepsState
<1>10. QED BY <1>5, <1>6, <1>7, <1>8, <1>9

\* Of the events only a connection loss has a state of its own
\* (`Item::set_incoming_event`).
LEMMA EventKeepsState ==
  ASSUME NEW l, IsLeaf(l), NEW reason
  PROVE  /\ IsLeaf(IncomingEvent(l, reason))
         /\ reason # "loss" => IncomingEvent(l, reason).state = l.state
         /\ reason = "loss" => IncomingEvent(l, reason).state = "Down"
<1> DEFINE down == [l EXCEPT !.state = "Down"]
           lost == [down EXCEPT !.typed = FALSE]
<1>1. IsLeaf(lost) /\ lost.state = "Down"
  <2> HIDE DEF lost
  <2>1. IsLeaf(down) /\ down.state = "Down"
    BY LeafExcept
  <2> HIDE DEF down
  <2>2. lost = [down EXCEPT !.typed = FALSE]
    BY DEF lost
  <2>3. QED BY <2>1, <2>2, LeafExcept
<1> HIDE DEF lost
<1>2. IncomingEvent(l, reason) = Queued(IF reason = "loss" THEN lost ELSE l, reason)
  BY DEF IncomingEvent, lost, down
<1>3. CASE reason = "loss"
  BY <1>1, <1>2, <1>3, QueuedKeepsState
<1>4. CASE reason # "loss"
  BY <1>2, <1>4, QueuedKeepsState
<1>5. QED BY <1>3, <1>4

--------------------------------------------------------------------------------
(***************************************************************************)
(* The phases of the worker, and what holds in each.                       *)
(***************************************************************************)
WorkerStates == Unconnected \cup Closing
                  \cup {"activating", "calling", "delivering", "monitor", "serve"}

IsDown == wpc \in Unconnected \cup {"activating"}
IsReading == wpc \in {"calling", "delivering"} /\ call = "initialRead"
IsUp == \/ wpc \in {"monitor", "serve"} \cup Closing
        \/ wpc \in {"calling", "delivering"} /\ call # "initialRead"

Shape == /\ leaf = [i \in Items |-> leaf[i]]
         /\ \A i \in Items : IsLeaf(leaf[i])

DownInv == IsDown => /\ status = "Down" /\ reads = <<>> /\ writes = <<>>
                     /\ watched = {}
                     /\ \A i \in Items : leaf[i].state = "Down"

ReadingInv == IsReading =>
                /\ status = "InitialRead" /\ watched = {}
                /\ \A i \in Items : leaf[i].state \in {"InitialRead", "InitialWrite", "Up"}

UpInv == IsUp => /\ status = "Up"
                 /\ \A i \in Items : leaf[i].state = "Up"
                                      \/ (leaf[i].state = "Down" /\ i \in Monitored \ watched)

\* An item whose monitored item is still to be created has not been refused it.
MonitorInv == wpc = "monitor" =>
                /\ unmonitored \subseteq Monitored \ watched
                /\ \A i \in unmonitored : leaf[i].state = "Up"

SessionInv == /\ wpc \in WorkerStates /\ Shape
              /\ DownInv /\ ReadingInv /\ UpInv /\ MonitorInv

(***************************************************************************)
(* Most steps change no leaf's state, or move one on from the initial read.*)
(***************************************************************************)
Quiet == \A i \in Items : leaf'[i].state = leaf[i].state

Answers == \E i \in Items : /\ leaf[i].state = "InitialRead"
                            /\ leaf'[i].state \in {"Up", "InitialWrite"}
                            /\ \A j \in Items : j # i => leaf'[j].state = leaf[j].state

Moves == Shape' /\ (Quiet \/ Answers)

SamePhase == /\ wpc' \in WorkerStates
             /\ IsDown => (IsDown' /\ UNCHANGED <<reads, writes>>)
             /\ IsReading => IsReading'
             /\ IsUp => IsUp'
             /\ wpc' = "monitor" => (wpc = "monitor" /\ UNCHANGED unmonitored)
             /\ UNCHANGED <<status, watched>>

\* A step that leaves the leaves alone moves no state.
LEMMA UnchangedMoves == ASSUME Shape, UNCHANGED leaf PROVE Moves
  BY DEF Moves, Quiet, Shape

\* One leaf is replaced by another that is quiet or answers.
LEMMA OneLeafMoves ==
  ASSUME Shape, NEW i, NEW l,
         leaf' = [leaf EXCEPT ![i] = l],
         i \in Items => /\ IsLeaf(l)
                        /\ \/ l.state = leaf[i].state
                           \/ leaf[i].state = "InitialRead" /\ l.state \in {"Up", "InitialWrite"}
  PROVE  Moves
<1>1. leaf' = [j \in Items |-> IF j = i THEN l ELSE leaf[j]]
  BY DEF Shape
<1>2. Shape'
  BY <1>1 DEF Shape
<1>3. Quiet \/ Answers
  BY <1>1 DEF Quiet, Answers
<1>4. QED BY <1>2, <1>3 DEF Moves

\* The worker is in exactly one phase.
LEMMA OnePhase ==
  ASSUME wpc \in WorkerStates
  PROVE  /\ IsDown \/ IsReading \/ IsUp
         /\ ~(IsDown /\ IsReading) /\ ~(IsDown /\ IsUp) /\ ~(IsReading /\ IsUp)
  BY DEF WorkerStates, Unconnected, Closing, IsDown, IsReading, IsUp

\* A step within a phase keeps what holds in it.
LEMMA SamePhaseKeepsInv ==
  ASSUME SessionInv, Moves, SamePhase
  PROVE  SessionInv'
<1>1. wpc \in WorkerStates /\ wpc' \in WorkerStates /\ Shape'
  BY DEF SessionInv, SamePhase, Moves
<1>2. IsDown' => IsDown
  BY <1>1, OnePhase DEF SamePhase, WorkerStates, Unconnected, Closing, IsDown, IsReading, IsUp
<1>3. IsReading' => IsReading
  BY <1>1, OnePhase DEF SamePhase, WorkerStates, Unconnected, Closing, IsDown, IsReading, IsUp
<1>4. IsUp' => IsUp
  BY <1>1, OnePhase DEF SamePhase, WorkerStates, Unconnected, Closing, IsDown, IsReading, IsUp
<1>5. DownInv'
  BY <1>2 DEF SessionInv, DownInv, SamePhase, Moves, Quiet, Answers
<1>6. ReadingInv'
  BY <1>3 DEF SessionInv, ReadingInv, SamePhase, Moves, Quiet, Answers
<1>7. UpInv'
  BY <1>4 DEF SessionInv, UpInv, SamePhase, Moves, Quiet, Answers
<1>8. MonitorInv'
  <2> SUFFICES ASSUME wpc' = "monitor"
               PROVE  /\ unmonitored' \subseteq Monitored \ watched'
                      /\ \A i \in unmonitored' : leaf'[i].state = "Up"
    BY DEF MonitorInv
  <2>1. wpc = "monitor" /\ unmonitored' = unmonitored /\ watched' = watched
    BY DEF SamePhase
  <2>2. unmonitored \subseteq Items /\ unmonitored \subseteq Monitored \ watched
        /\ \A i \in unmonitored : leaf[i].state = "Up"
    BY <2>1, SessionAssumption DEF SessionInv, MonitorInv
  <2>3. \A i \in Items : leaf[i].state = "Up" => leaf'[i].state = "Up"
    BY DEF Moves, Quiet, Answers
  <2>4. QED BY <2>1, <2>2, <2>3
<1>9. QED BY <1>1, <1>5, <1>6, <1>7, <1>8 DEF SessionInv
--------------------------------------------------------------------------------
(***************************************************************************)
(* The steps.                                                              *)
(***************************************************************************)
\* The steps of the worker and of everyone else that leave the leaves alone.
StillStep == \/ OrderWhileDown
             \/ ExitWhileDown
             \/ RetryTimer
             \/ SecuritySetUp
             \/ AttemptFails
             \/ Connected
             \/ InitialReadGoesOn
             \/ ConnectReturns
             \/ ServeExit
             \/ ServeOrder
             \/ ServeClosed
             \/ ServeRequest
             \/ FlushReads
             \/ CallAnswered
             \/ ServedCall
             \/ ServerInactive
             \/ Publish
             \/ ConnectionCloses
             \/ GiveOrder
             \/ Exit

\* They stay within a phase of the worker: connecting, reading or serving.
LEMMA StillStepSamePhase ==
  ASSUME SessionInv, StillStep
  PROVE  UNCHANGED leaf /\ SamePhase
<1>0. wpc \in WorkerStates
  BY DEF SessionInv
<1> USE <1>0 DEF SamePhase, WorkerStates, IsDown, IsReading, IsUp, Unconnected, Closing,
        worker, link, orders, queues, records
<1>1. CASE OrderWhileDown
  BY <1>1 DEF OrderWhileDown
<1>2. CASE ExitWhileDown
  BY <1>2 DEF ExitWhileDown, Return
<1>3. CASE RetryTimer
  BY <1>3 DEF RetryTimer
<1>4. CASE SecuritySetUp
  BY <1>4 DEF SecuritySetUp
<1>5. CASE AttemptFails
  BY <1>5 DEF AttemptFails
<1>6. CASE Connected
  BY <1>6 DEF Connected
<1>7. CASE InitialReadGoesOn
  BY <1>7 DEF InitialReadGoesOn, ReadNextOf
<1>8. CASE ConnectReturns
  BY <1>8 DEF ConnectReturns
<1>9. CASE ServeExit
  BY <1>9 DEF ServeExit
<1>10. CASE ServeOrder
  BY <1>10 DEF ServeOrder
<1>11. CASE ServeClosed
  BY <1>11 DEF ServeClosed, NothingOrdered
<1>12. CASE ServeRequest
  BY <1>12 DEF ServeRequest, NothingOrdered
<1>13. CASE FlushReads
  BY <1>13 DEF FlushReads, RequestsTaken, NothingOrdered
<1>14. CASE CallAnswered
  BY <1>14 DEF CallAnswered
<1>15. CASE ServedCall
  BY <1>15 DEF ServedCall
<1>16. CASE ServerInactive
  BY <1>16 DEF ServerInactive, RequestsTaken, NothingOrdered
<1>17. CASE Publish
  BY <1>17 DEF Publish
<1>18. CASE ConnectionCloses
  BY <1>18 DEF ConnectionCloses
<1>19. CASE GiveOrder
  BY <1>19 DEF GiveOrder
<1>20. CASE Exit
  BY <1>20 DEF Exit
<1>21. QED BY <1>1, <1>2, <1>3, <1>4, <1>5, <1>6, <1>7, <1>8, <1>9, <1>10, <1>11, <1>12, <1>13, <1>14, <1>15, <1>16, <1>17, <1>18, <1>19, <1>20 DEF StillStep

\* The steps that change a leaf, within a phase.
LeafStep == FlushWrites \/ DeliverResult \/ Record \/ Dispatch

\* Each keeps to the phase it finds (`flush`, `deliver_read`, the dispatcher,
\* the records).
LEMMA LeafStepSamePhase ==
  ASSUME SessionInv, LeafStep
  PROVE  SamePhase
<1>0. wpc \in WorkerStates
  BY DEF SessionInv
<1> USE <1>0 DEF SamePhase, WorkerStates, IsDown, IsReading, IsUp, Unconnected, Closing,
                 worker, link, orders, queues, records
<1>1. CASE FlushWrites
  BY <1>1 DEF FlushWrites, RequestsTaken, NothingOrdered
<1>2. CASE DeliverResult
  BY <1>2 DEF DeliverResult
<1>3. CASE Record
  BY <1>3 DEF Record, Process, TakeUpdate, Ask
<1>4. CASE Dispatch
  BY <1>4 DEF Dispatch
<1>5. QED BY <1>1, <1>2, <1>3, <1>4 DEF LeafStep

\* What a value makes of a leaf is a move of that leaf (`set_incoming_data`).
LEMMA DataMoves ==
  ASSUME Shape, NEW i, leaf' = [leaf EXCEPT ![i] = IncomingData(i, leaf[i])]
  PROVE  Moves
<1>1. i \in Items => IsLeaf(leaf[i])
  BY DEF Shape
<1>2. i \in Items => /\ IsLeaf(IncomingData(i, leaf[i]))
                     /\ \/ IncomingData(i, leaf[i]).state = leaf[i].state
                        \/ leaf[i].state = "InitialRead"
                           /\ IncomingData(i, leaf[i]).state \in {"Up", "InitialWrite"}
  BY <1>1, DataKeepsState
<1>3. QED BY <1>2, OneLeafMoves

\* What an event other than the loss makes of it is quiet (`set_incoming_event`).
LEMMA EventMoves ==
  ASSUME Shape, NEW i, NEW reason, reason # "loss",
         leaf' = [leaf EXCEPT ![i] = IncomingEvent(leaf[i], reason)]
  PROVE  Moves
<1>1. i \in Items => IsLeaf(leaf[i])
  BY DEF Shape
<1>2. i \in Items => /\ IsLeaf(IncomingEvent(leaf[i], reason))
                     /\ IncomingEvent(leaf[i], reason).state = leaf[i].state
  BY <1>1, EventKeepsState
<1>3. QED BY <1>2, OneLeafMoves

\* No step within a phase moves a leaf but on from the initial read.
LEMMA LeafStepMoves ==
  ASSUME SessionInv, LeafStep
  PROVE  Moves
<1>0. Shape /\ \A i \in Items : IsLeaf(leaf[i])
  BY DEF SessionInv, Shape
<1>1. CASE FlushWrites
  <2> DEFINE taken == ToSet(ItemsOf(Taken(writes, WriteLimit)))
  <2>1. leaf' = [i \in Items |-> IF i \in taken THEN [leaf[i] EXCEPT !.dirty = 0] ELSE leaf[i]]
    BY <1>1 DEF FlushWrites
  <2> HIDE DEF taken
  <2>2. \A i \in Items : /\ IsLeaf([leaf[i] EXCEPT !.dirty = 0])
                         /\ [leaf[i] EXCEPT !.dirty = 0].state = leaf[i].state
    BY <1>0, LeafExcept
  <2>3. \A i \in Items : IsLeaf(leaf'[i]) /\ leaf'[i].state = leaf[i].state
    BY <1>0, <2>1, <2>2
  <2>4. leaf' = [i \in Items |-> leaf'[i]]
    BY <2>1
  <2>5. QED BY <2>3, <2>4 DEF Moves, Shape, Quiet
<1>2. CASE DeliverResult
  <2> DEFINE i == Head(batch)
  <2>1. \/ leaf' = [leaf EXCEPT ![i] = IncomingData(i, leaf[i])]
        \/ leaf' = [leaf EXCEPT ![i] = IncomingEvent(leaf[i], "written")]
        \/ leaf' = [leaf EXCEPT ![i] = IncomingEvent(leaf[i], "failure")]
    BY <1>2 DEF DeliverResult
  <2> HIDE DEF i
  <2>2. CASE leaf' = [leaf EXCEPT ![i] = IncomingData(i, leaf[i])]
    BY <1>0, <2>2, DataMoves
  <2>3. CASE leaf' = [leaf EXCEPT ![i] = IncomingEvent(leaf[i], "written")]
    BY <1>0, <2>3, "written" # "loss", EventMoves
  <2>4. CASE leaf' = [leaf EXCEPT ![i] = IncomingEvent(leaf[i], "failure")]
    BY <1>0, <2>4, "failure" # "loss", EventMoves
  <2>5. QED BY <2>1, <2>2, <2>3, <2>4
<1>3. CASE Record
  <2>1. PICK i \in Items : Process(i) \/ TakeUpdate(i) \/ Ask(i)
    BY <1>3 DEF Record
  <2>2. CASE Process(i)
    BY <1>0, <2>2, UnchangedMoves DEF Process
  <2>3. CASE TakeUpdate(i)
    <3> DEFINE rest == Tail(leaf[i].updates)
    <3>1. leaf' = [leaf EXCEPT ![i] = [leaf[i] EXCEPT !.updates = rest]]
      BY <2>3 DEF TakeUpdate
    <3> HIDE DEF rest
    <3>2. QED BY <1>0, <3>1, LeafExcept, OneLeafMoves
  <2>4. CASE Ask(i)
    <3>1. CASE i \in Outputs
      <4>1. leaf' = [leaf EXCEPT ![i] = [leaf[i] EXCEPT !.dirty = asking[i]]]
        BY <2>4, <3>1 DEF Ask
      <4>2. QED BY <1>0, <4>1, LeafExcept, OneLeafMoves
    <3>2. CASE i \notin Outputs
      BY <1>0, <2>4, <3>2, UnchangedMoves DEF Ask
    <3>3. QED BY <3>1, <3>2
  <2>5. QED BY <2>1, <2>2, <2>3, <2>4
<1>4. CASE Dispatch
  <2>1. PICK n \in published : leaf' = [leaf EXCEPT ![n.item] = IncomingData(n.item, leaf[n.item])]
    BY <1>4 DEF Dispatch
  <2>2. QED BY <1>0, <2>1, DataMoves
<1>5. QED BY <1>1, <1>2, <1>3, <1>4 DEF LeafStep

\* `Item::set_state` for every item.
LEMMA InStateLeaves ==
  ASSUME Shape, NEW s, leaf' = InState(leaf, s)
  PROVE  Shape' /\ \A i \in Items : leaf'[i].state = s
<1>1. \A i \in Items : IsLeaf([leaf[i] EXCEPT !.state = s]) /\ [leaf[i] EXCEPT !.state = s].state = s
  BY LeafExcept DEF Shape
<1>2. leaf' = [i \in Items |-> [leaf[i] EXCEPT !.state = s]]
  BY DEF InState
<1>3. \A i \in Items : leaf'[i] = [leaf[i] EXCEPT !.state = s]
  BY <1>2
<1>4. \A i \in Items : IsLeaf(leaf'[i]) /\ leaf'[i].state = s
  BY <1>1, <1>3
<1>5. leaf' = [i \in Items |-> leaf'[i]]
  BY <1>2
<1>6. QED BY <1>4, <1>5 DEF Shape

\* `mark_connection_loss` leaves no item but Down.
LEMMA LostLeaves ==
  ASSUME Shape, MarkConnectionLoss
  PROVE  Shape' /\ \A i \in Items : leaf'[i].state = "Down"
<1>1. \A i \in Items : IsLeaf(IncomingEvent(leaf[i], "loss")) /\ IncomingEvent(leaf[i], "loss").state = "Down"
  BY EventKeepsState DEF Shape
<1>2. leaf' = [i \in Items |-> IncomingEvent(leaf[i], "loss")]
  BY DEF MarkConnectionLoss
<1>3. \A i \in Items : leaf'[i] = IncomingEvent(leaf[i], "loss")
  BY <1>2
<1>4. \A i \in Items : IsLeaf(leaf'[i]) /\ leaf'[i].state = "Down"
  BY <1>1, <1>3
<1>5. leaf' = [i \in Items |-> leaf'[i]]
  BY <1>2
<1>6. QED BY <1>4, <1>5 DEF Shape

\* The initial read begins for every item at once (`connect`).
LEMMA StartInitialReadKeepsInv ==
  ASSUME SessionInv, StartInitialRead
  PROVE  SessionInv'
<1>1. Shape' /\ \A i \in Items : leaf'[i].state = "InitialRead"
  BY InStateLeaves DEF SessionInv, StartInitialRead
<1>2. wpc' = "calling" /\ call' = "initialRead" /\ status' = "InitialRead" /\ watched' = {}
  BY DEF SessionInv, DownInv, IsDown, StartInitialRead, ReadNextOf, link
<1>3. QED BY <1>1, <1>2 DEF SessionInv, WorkerStates, DownInv, ReadingInv, UpInv, MonitorInv,
                            IsDown, IsReading, IsUp, Unconnected, Closing

\* Then every item is Up, and those with a monitored item wait for it (`connect`).
LEMMA InitialReadEndsKeepsInv ==
  ASSUME SessionInv, InitialReadEnds
  PROVE  SessionInv'
<1>1. Shape' /\ \A i \in Items : leaf'[i].state = "Up"
  BY InStateLeaves DEF SessionInv, InitialReadEnds
<1>2. wpc' = "monitor" /\ status' = "Up" /\ watched' = {} /\ unmonitored' = Monitored
  BY DEF SessionInv, ReadingInv, IsReading, InitialReadEnds, link
<1>3. \A i \in Monitored : i \in Items
  BY SessionAssumption
<1>4. QED BY <1>1, <1>2, <1>3 DEF SessionInv, WorkerStates, DownInv, ReadingInv, UpInv, MonitorInv,
                                  IsDown, IsReading, IsUp, Unconnected, Closing

\* A monitored item is created, or its record told of a loss (`add_monitored_items`).
LEMMA MonitorItemKeepsInv ==
  ASSUME SessionInv, MonitorItem
  PROVE  SessionInv'
<1>1. PICK i \in unmonitored :
        /\ unmonitored' = unmonitored \ {i}
        /\ \/ watched' = watched \cup {i} /\ UNCHANGED leaf
           \/ leaf' = [leaf EXCEPT ![i] = IncomingEvent(leaf[i], "loss")] /\ UNCHANGED watched
  BY DEF MonitorItem
<1>2. /\ wpc = "monitor" /\ wpc' = "monitor" /\ call' = call /\ status' = status
      /\ unmonitored \subseteq Monitored \ watched /\ Monitored \subseteq Items
      /\ \A j \in unmonitored : leaf[j].state = "Up"
      /\ IsUp /\ status = "Up" /\ Shape
  BY SessionAssumption DEF SessionInv, MonitorInv, UpInv, IsUp, MonitorItem
<1>3. \A j \in Items : leaf[j].state = "Up" \/ (leaf[j].state = "Down" /\ j \in Monitored \ watched)
  BY <1>2 DEF SessionInv, UpInv
<1>4. /\ Shape'
      /\ \A j \in Items \ {i} : leaf'[j].state = leaf[j].state
      /\ \/ leaf'[i].state = "Down" /\ watched' = watched
         \/ leaf'[i].state = "Up" /\ watched' = watched \cup {i}
  <2>1. CASE watched' = watched \cup {i} /\ UNCHANGED leaf
    BY <1>2, <2>1 DEF Shape
  <2>2. CASE leaf' = [leaf EXCEPT ![i] = IncomingEvent(leaf[i], "loss")] /\ UNCHANGED watched
    <3> DEFINE l == IncomingEvent(leaf[i], "loss")
    <3>1. IsLeaf(l) /\ l.state = "Down"
      BY <1>2, EventKeepsState DEF Shape
    <3> HIDE DEF l
    <3>2. leaf' = [j \in Items |-> IF j = i THEN l ELSE leaf[j]]
      BY <1>2, <2>2 DEF Shape, l
    <3>3. QED BY <1>2, <2>2, <3>1, <3>2 DEF Shape
  <2>3. QED BY <1>1, <2>1, <2>2
<1>5. UpInv'
  BY <1>1, <1>2, <1>3, <1>4 DEF UpInv
<1>6. MonitorInv'
  BY <1>1, <1>2, <1>4 DEF MonitorInv
<1>7. QED BY <1>2, <1>4, <1>5, <1>6 DEF SessionInv, WorkerStates, DownInv, ReadingInv,
                                        IsDown, IsReading, Unconnected, Closing

\* The end of a connection takes the whole session Down (`disconnect`).
LEMMA DisconnectedKeepsInv ==
  ASSUME SessionInv, Disconnected
  PROVE  SessionInv'
<1>1. Shape' /\ (\A i \in Items : leaf'[i].state = "Down") /\ reads' = <<>> /\ writes' = <<>>
  BY LostLeaves DEF SessionInv, Disconnected, MarkConnectionLoss
<1>2. status' = "Down" /\ watched' = {} /\ wpc' \in {"stopped", "idle", "connecting"}
  BY DEF Disconnected, Return
<1>3. QED BY <1>1, <1>2 DEF SessionInv, WorkerStates, DownInv, ReadingInv, UpInv, MonitorInv,
                            IsDown, IsReading, IsUp, Unconnected, Closing

--------------------------------------------------------------------------------
(***************************************************************************)
(* The invariant, and what it says of the session.                         *)
(***************************************************************************)
\* Every step stays within a phase or takes the session from one to another.
LEMMA StepCases ==
  ASSUME Next
  PROVE  \/ StillStep \/ LeafStep
         \/ StartInitialRead \/ InitialReadEnds \/ MonitorItem \/ Disconnected
  BY DEF Next, Worker, Connecting, Serving, StillStep, LeafStep

\* A step within a phase moves leaves at most on from the initial read.
LEMMA WithinPhase ==
  ASSUME SessionInv, StillStep \/ LeafStep \/ UNCHANGED vars
  PROVE  Moves /\ SamePhase
<1>0. Shape /\ wpc \in WorkerStates
  BY DEF SessionInv
<1>1. CASE StillStep
  BY <1>0, <1>1, StillStepSamePhase, UnchangedMoves
<1>2. CASE LeafStep
  BY <1>2, LeafStepSamePhase, LeafStepMoves
<1>3. CASE UNCHANGED vars
  <2>1. UNCHANGED leaf
    BY <1>3 DEF vars, records
  <2>2. SamePhase
    BY <1>0, <1>3 DEF vars, worker, link, queues, SamePhase, IsDown, IsReading, IsUp
  <2>3. QED BY <1>0, <2>1, <2>2, UnchangedMoves
<1>4. QED BY <1>1, <1>2, <1>3

\* A session starts Down (`Registry::start`).
LEMMA InitSessionInv == Init => SessionInv
<1> SUFFICES ASSUME Init PROVE SessionInv
  OBVIOUS
<1>1. Shape /\ \A i \in Items : leaf[i].state = "Down"
  <2>1. IsLeaf([state |-> "Down", updates |-> <<NewUpdate("loss")>>, dirty |-> 0, typed |-> FALSE])
    BY LeafFields
  <2>2. QED BY <2>1 DEF Init, Shape
<1>2. wpc = "idle" /\ status = "Down" /\ reads = <<>> /\ writes = <<>> /\ watched = {}
  BY DEF Init
<1>3. QED BY <1>1, <1>2 DEF SessionInv, WorkerStates, DownInv, ReadingInv, UpInv, MonitorInv,
                            IsDown, IsReading, IsUp, Unconnected, Closing

\* No step of the worker, a record, the dispatcher, the server or the IOC breaks it.
LEMMA NextSessionInv == SessionInv /\ [Next]_vars => SessionInv'
<1> SUFFICES ASSUME SessionInv, [Next]_vars PROVE SessionInv'
  OBVIOUS
<1>1. CASE StillStep \/ LeafStep \/ UNCHANGED vars
  BY <1>1, WithinPhase, SamePhaseKeepsInv
<1>2. CASE StartInitialRead
  BY <1>2, StartInitialReadKeepsInv
<1>3. CASE InitialReadEnds
  BY <1>3, InitialReadEndsKeepsInv
<1>4. CASE MonitorItem
  BY <1>4, MonitorItemKeepsInv
<1>5. CASE Disconnected
  BY <1>5, DisconnectedKeepsInv
<1>6. QED BY <1>1, <1>2, <1>3, <1>4, <1>5, StepCases

\* The phases hold in every state of a session.
LEMMA Phases == Spec => []SessionInv
<1>1. QED BY InitSessionInv, NextSessionInv, PTL DEF Spec

\* Without a connection the session and every one of its items are Down and no
\* request waits, whatever was on its way when it went (`disconnect`,
\* `mark_connection_loss`).
THEOREM DownWithoutConnection == Spec => []DownTogether
<1>1. SessionInv => DownTogether
  BY DEF SessionInv, DownInv, IsDown, DownTogether
<1>2. QED BY <1>1, Phases, PTL

\* Once the initial read is behind the session no leaf is left in it or in the
\* initial write (`connect`'s last `set_state`).
THEOREM NoneLeftBehind == Spec => []NoLeafLeftBehind
<1>1. SessionInv => NoLeafLeftBehind
  BY DEF SessionInv, UpInv, IsUp, NoLeafLeftBehind, Closing
<1>2. QED BY <1>1, Phases, PTL

--------------------------------------------------------------------------------
(***************************************************************************)
(* The items go through a connection together: a session implements        *)
(* OpcuaItemLife.                                                          *)
(***************************************************************************)
States == [i \in Items |-> leaf[i].state]

\* A step within a phase is an item's answer to the initial read, or none of an
\* item's (`set_incoming_data`).
LEMMA WithinPhaseRefines ==
  ASSUME SessionInv, Moves, SamePhase
  PROVE  [Life!Next]_(Life!lifevars)
<1>1. status' = status
  BY DEF SamePhase
<1>2. CASE Quiet
  <2>1. States' = States
    BY <1>2 DEF States, Quiet
  <2>2. QED BY <1>1, <2>1 DEF Life!lifevars, States
<1>3. CASE Answers
  <2>1. PICK i \in Items : /\ leaf[i].state = "InitialRead"
                           /\ leaf'[i].state \in {"Up", "InitialWrite"}
                           /\ \A j \in Items : j # i => leaf'[j].state = leaf[j].state
    BY <1>3 DEF Answers
  <2>2. status = "InitialRead"
    BY <2>1, OnePhase DEF SessionInv, DownInv, ReadingInv, UpInv
  <2>3. States' = [States EXCEPT ![i] = leaf'[i].state]
    BY <2>1 DEF States
  <2>4. States[i] = "InitialRead"
    BY <2>1 DEF States
  <2>5. Life!Answer(i)
    BY <1>1, <2>1, <2>2, <2>3, <2>4 DEF Life!Answer, States
  <2>6. QED BY <2>5 DEF Life!Next
<1>4. QED BY <1>2, <1>3 DEF Moves

\* Each of the four other steps is one of the items' (`connect`, `disconnect`).
LEMMA BetweenPhasesRefines ==
  ASSUME SessionInv, StartInitialRead \/ InitialReadEnds \/ MonitorItem \/ Disconnected
  PROVE  [Life!Next]_(Life!lifevars)
<1>0. Shape /\ wpc \in WorkerStates
  BY DEF SessionInv
<1>1. CASE StartInitialRead
  <2>1. \A i \in Items : leaf'[i].state = "InitialRead"
    BY <1>0, <1>1, InStateLeaves DEF StartInitialRead
  <2>2. /\ status = "Down" /\ status' = "InitialRead"
        /\ \A i \in Items : leaf[i].state = "Down"
    BY <1>1 DEF SessionInv, DownInv, IsDown, StartInitialRead
  <2>3. States' = [i \in Items |-> "InitialRead"] /\ \A i \in Items : States[i] = "Down"
    BY <2>1, <2>2 DEF States
  <2>4. Life!Begin
    BY <2>2, <2>3 DEF Life!Begin, Life!Together, States
  <2>5. QED BY <2>4 DEF Life!Next
<1>2. CASE InitialReadEnds
  <2>1. \A i \in Items : leaf'[i].state = "Up"
    BY <1>0, <1>2, InStateLeaves DEF InitialReadEnds
  <2>2. /\ status = "InitialRead" /\ status' = "Up"
        /\ \A i \in Items : leaf[i].state # "Down"
    BY <1>2 DEF SessionInv, ReadingInv, IsReading, InitialReadEnds
  <2>3. States' = [i \in Items |-> "Up"] /\ \A i \in Items : States[i] # "Down"
    BY <2>1, <2>2 DEF States
  <2>4. Life!Finish
    BY <2>2, <2>3 DEF Life!Finish, Life!Together, States
  <2>5. QED BY <2>4 DEF Life!Next
<1>3. CASE MonitorItem
  <2>1. PICK i \in unmonitored :
          \/ UNCHANGED leaf
          \/ leaf' = [leaf EXCEPT ![i] = IncomingEvent(leaf[i], "loss")]
    BY <1>3 DEF MonitorItem
  <2>2. /\ status = "Up" /\ status' = status
        /\ i \in Monitored /\ i \in Items /\ leaf[i].state = "Up"
    BY <1>3, SessionAssumption DEF SessionInv, UpInv, IsUp, MonitorInv, MonitorItem
  <2>3. CASE UNCHANGED leaf
    BY <2>2, <2>3 DEF Life!lifevars
  <2>4. CASE leaf' = [leaf EXCEPT ![i] = IncomingEvent(leaf[i], "loss")]
    <3> DEFINE l == IncomingEvent(leaf[i], "loss")
    <3>1. l.state = "Down"
      BY <1>0, <2>2, EventKeepsState DEF Shape
    <3> HIDE DEF l
    <3>2. leaf' = [j \in Items |-> IF j = i THEN l ELSE leaf[j]]
      BY <1>0, <2>4 DEF Shape, l
    <3>3. \A j \in Items : leaf'[j].state = IF j = i THEN "Down" ELSE leaf[j].state
      BY <3>1, <3>2
    <3>4. States' = [States EXCEPT ![i] = "Down"] /\ States[i] = "Up"
      BY <2>2, <3>3 DEF States
    <3>5. Life!Refuse(i)
      BY <2>2, <3>4 DEF Life!Refuse, States
    <3>6. QED BY <2>2, <3>5 DEF Life!Next
  <2>5. QED BY <2>1, <2>3, <2>4
<1>4. CASE Disconnected
  <2>1. \A i \in Items : leaf'[i].state = "Down"
    BY <1>0, <1>4, LostLeaves DEF Disconnected
  <2>2. /\ status = "Up" /\ status' = "Down"
        /\ \A i \in Items : leaf[i].state \in {"Up", "Down"}
    BY <1>4 DEF SessionInv, UpInv, IsUp, Disconnected
  <2>3. States' = [i \in Items |-> "Down"] /\ \A i \in Items : States[i] \in {"Up", "Down"}
    BY <2>1, <2>2 DEF States
  <2>4. Life!Lose
    BY <2>2, <2>3 DEF Life!Lose, Life!Together, States
  <2>5. QED BY <2>4 DEF Life!Next
<1>5. QED BY <1>1, <1>2, <1>3, <1>4

\* The items of a session go through each connection together, whatever the
\* server answers, records ask and iocsh orders meanwhile (`connect`,
\* `disconnect`): a session implements OpcuaItemLife.
THEOREM SessionIsItemLife == Spec => LifeSpec
<1>1. Init => Life!Init
  <2> SUFFICES ASSUME Init PROVE Life!Init
    OBVIOUS
  <2>1. status = "Down" /\ \A i \in Items : leaf[i].state = "Down"
    BY InitSessionInv DEF Init, SessionInv, DownInv, IsDown, Unconnected
  <2>2. QED BY <2>1 DEF Life!Init
<1>2. SessionInv /\ [Next]_vars => [Life!Next]_(Life!lifevars)
  <2> SUFFICES ASSUME SessionInv, [Next]_vars PROVE [Life!Next]_(Life!lifevars)
    OBVIOUS
  <2>1. CASE StillStep \/ LeafStep \/ UNCHANGED vars
    BY <2>1, WithinPhase, WithinPhaseRefines
  <2>2. CASE StartInitialRead \/ InitialReadEnds \/ MonitorItem \/ Disconnected
    BY <2>2, BetweenPhasesRefines
  <2>3. QED BY <2>1, <2>2, StepCases
<1>3. QED BY <1>1, <1>2, Phases, PTL DEF Spec, LifeSpec, Life!Spec
================================================================================
