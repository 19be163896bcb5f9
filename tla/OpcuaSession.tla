------------------------------ MODULE OpcuaSession ------------------------------
(***************************************************************************)
(* An OPC UA session (opcua/src/session.rs): the worker task that connects,*)
(* reads every item once, serves the records' requests and reconnects; the *)
(* items and the one record bound to each (item.rs); the passes by which   *)
(* records ask for reads and writes (device_support.rs); the dispatcher    *)
(* that delivers what the server publishes; iocsh orders and the IOC's     *)
(* exit; and a server that may refuse, fail, time out or hang up.          *)
(*                                                                         *)
(* A step of the worker ends where the code awaits.  A request carries the *)
(* number of the connection whose state the record saw when it asked.      *)
(***************************************************************************)
EXTENDS OpcuaUpdates, SequencesExt

CONSTANTS ItemCount,        \* items are numbered 1 .. ItemCount (`Item::index`)
          Bini,             \* each item's bini option: "read", "ignore" or "write"
          Monitored,        \* items whose link asks for a monitored item
          Outputs,          \* items whose record is an output record
          Autoconnect,      \* the session's autoconnect option
          ReadLimit,        \* items one Read may carry
          WriteLimit,       \* items one Write may carry
          MaxConnections,   \* bound on the connections of a behaviour
          MaxOrders,        \* bound on the orders given from iocsh
          MaxRequests       \* bound on the requests records have under way

Items == 1 .. ItemCount

ASSUME SessionAssumption ==
  /\ {ItemCount, ReadLimit, WriteLimit} \subseteq Nat \ {0}
  /\ {MaxConnections, MaxOrders, MaxRequests} \subseteq Nat
  /\ Bini \in [Items -> {"read", "ignore", "write"}]
  /\ Monitored \subseteq Items /\ Outputs \subseteq Items
  /\ Autoconnect \in BOOLEAN

VARIABLES wpc,          \* where the worker is
          held,         \* it holds the `done` of the order it carries out
          call,         \* what the service call under way is for
          batch,        \* the items of that call still to be told its result
          answer,       \* the result: "ok", "failed", or a connection error, "lost"
          todo,         \* items the initial read has not come to
          unmonitored,  \* items whose monitored item is still to be created
          conn,         \* number of the connection, 0 before the first
          closed,       \* `UaConnection::closed` has resolved
          watched,      \* items the server publishes for on this connection
          published,    \* notifications on their way: [conn, item]
          control,      \* orders the worker has not taken
          ordersLeft,   \* orders still to be given
          exit,         \* `SessionHandle::exit` was called
          status,       \* `SessionHandle::status`
          commands,     \* requests the worker has not taken
          reads,        \* requests it has, waiting for a service call
          writes,
          leaf,         \* each item's record: state, updates, dirty, typed
          asking        \* connection a record saw up before it asks, 0 if it does not

worker == <<wpc, call, batch, answer, todo, unmonitored>>
link == <<conn, closed, watched, published>>
orders == <<control, ordersLeft, held, exit>>
queues == <<commands, reads, writes>>
records == <<leaf, asking>>
vars == <<worker, link, orders, status, queues, records>>

--------------------------------------------------------------------------------
(***************************************************************************)
(* A record's leaf.  Updates are queued as OpcuaUpdates says, and told     *)
(* apart by reason: "data", "failure", "written", "writeRequest", "loss".  *)
(***************************************************************************)
Forget(q) == [k \in DOMAIN q |-> NewUpdate(q[k].content)]

Queued(l, reason) ==
  [l EXCEPT !.updates = Forget(PushUpdate(@, NewUpdate(reason)))]

\* Mutant: any value brings the leaf up.
IncomingDataBringsUp(i, l) == Queued([l EXCEPT !.typed = TRUE, !.state = "Up"], "data")

\* `Item::set_incoming_data`: in the initial read `bini` says what becomes of it.
IncomingData(i, l) ==
  LET typed == [l EXCEPT !.typed = TRUE]
      up == [typed EXCEPT !.state = "Up"]
  IN  IF l.state # "InitialRead" THEN Queued(typed, "data")
      ELSE CASE Bini[i] = "read"   -> Queued(up, "data")
             [] Bini[i] = "ignore" -> up
             [] Bini[i] = "write"  -> Queued([typed EXCEPT !.state = "InitialWrite"], "writeRequest")

\* Mutant: a record with updates queued is not told of the loss.
IncomingEventUnlessQueued(l, reason) ==
  IF reason = "loss" THEN [l EXCEPT !.state = "Down", !.typed = FALSE,
                                    !.updates = IF @ = <<>> THEN <<NewUpdate("loss")>> ELSE @]
                     ELSE Queued(l, reason)

\* `Item::set_incoming_event`.
IncomingEvent(l, reason) ==
  Queued(IF reason = "loss" THEN [l EXCEPT !.state = "Down", !.typed = FALSE] ELSE l, reason)

\* Mutant: a leaf in its initial write stays there.
InStateButInitialWrite(ls, s) ==
  [i \in Items |-> IF ls[i].state = "InitialWrite" THEN ls[i] ELSE [ls[i] EXCEPT !.state = s]]

\* `Item::set_state` for every item.
InState(ls, s) == [i \in Items |-> [ls[i] EXCEPT !.state = s]]

--------------------------------------------------------------------------------
Init == /\ wpc = "idle"
        /\ call = "none" /\ batch = <<>> /\ answer = "ok"
        /\ todo = <<>> /\ unmonitored = {}
        /\ conn = 0 /\ closed = FALSE /\ watched = {} /\ published = {}
        /\ control = IF Autoconnect THEN <<"connect">> ELSE <<>>
        /\ ordersLeft = MaxOrders
        /\ held = FALSE /\ exit = FALSE
        /\ status = "Down"
        /\ commands = <<>> /\ reads = <<>> /\ writes = <<>>
           \* `Registry::start` marks every connection lost before the first
        /\ leaf = [i \in Items |-> [state |-> "Down", updates |-> <<NewUpdate("loss")>>,
                                    dirty |-> 0, typed |-> FALSE]]
        /\ asking = [i \in Items |-> 0]

(***************************************************************************)
(* The worker: connecting.                                                 *)
(***************************************************************************)
\* The worker returns: its channels close, and who waits on them is released.
Return == /\ wpc' = "stopped"
          /\ held' = FALSE
          /\ control' = <<>>
          /\ commands' = <<>>

\* An order while the session is down, idle or between two attempts.
OrderWhileDown ==
  /\ wpc \in {"idle", "retry"}
  /\ control # <<>>
  /\ control' = Tail(control)
  /\ \/ /\ Head(control) = "connect"
        /\ wpc' = "setup" /\ held' = TRUE
     \/ /\ Head(control) = "disconnect"
        /\ UNCHANGED <<wpc, held>>
  /\ UNCHANGED <<call, batch, answer, todo, unmonitored, ordersLeft, exit, link, status, queues, records>>

\* Mutant: an idle worker does not look for the exit.
ExitWhileTrying ==
  /\ wpc \in {"retry", "setup", "connecting"} /\ exit
  /\ Return
  /\ UNCHANGED <<call, batch, answer, todo, unmonitored, ordersLeft, exit, link, status, reads, writes, records>>

\* The exit, unless an activation is under way or the session is served.
ExitWhileDown ==
  /\ wpc \in {"idle", "retry", "setup", "connecting"}
  /\ exit
  /\ Return
  /\ UNCHANGED <<call, batch, answer, todo, unmonitored, ordersLeft, exit, link, status, reads, writes, records>>

RetryTimer ==
  /\ wpc = "retry"
  /\ wpc' = IF Autoconnect THEN "setup" ELSE "idle"
  /\ UNCHANGED <<call, batch, answer, todo, unmonitored, link, orders, status, queues, records>>

SecuritySetUp ==
  /\ wpc = "setup"
  /\ wpc' = "connecting"
  /\ UNCHANGED <<call, batch, answer, todo, unmonitored, link, orders, status, queues, records>>

\* Mutant: the caller of a failed attempt is not released.
AttemptFailsHolding ==
  /\ wpc \in {"setup", "connecting"}
  /\ wpc' = "retry"
  /\ UNCHANGED <<call, batch, answer, todo, unmonitored, link, orders, status, queues, records>>

AttemptFails ==
  /\ wpc \in {"setup", "connecting"}
  /\ wpc' = "retry" /\ held' = FALSE
  /\ UNCHANGED <<call, batch, answer, todo, unmonitored, control, ordersLeft, exit, link, status, queues, records>>

Connected ==
  /\ wpc = "connecting"
  /\ conn < MaxConnections
  /\ conn' = conn + 1
  /\ closed' = FALSE
  /\ wpc' = "activating"
  /\ UNCHANGED <<call, batch, answer, todo, unmonitored, watched, published, orders, status, queues, records>>

(***************************************************************************)
(* The worker: the initial read and the monitored items.                   *)
(***************************************************************************)
\* The first items of a queue that one service call may carry, and the others.
Taken(q, limit) == SubSeq(q, 1, IF limit < Len(q) THEN limit ELSE Len(q))
Left(q, limit) == SubSeq(q, Len(Taken(q, limit)) + 1, Len(q))

\* `read_batch` takes the next chunk of what is left.
ReadNextOf(s) == /\ wpc' = "calling"
                 /\ call' = "initialRead"
                 /\ batch' = Taken(s, ReadLimit)
                 /\ todo' = Left(s, ReadLimit)

\* Limits, namespaces, registrations and subscriptions are made, whatever the
\* server answers; then every item is in its initial read.
StartInitialRead ==
  /\ wpc = "activating"
  /\ leaf' = InState(leaf, "InitialRead")
  /\ status' = "InitialRead"
  /\ ReadNextOf([k \in Items |-> k])
  /\ UNCHANGED <<answer, unmonitored, link, orders, queues, asking>>

\* A chunk is through.  A connection error ends the reading; otherwise the next
\* chunk follows.  Then everything is Up (`connect` ignores `read_batch`'s result).
InitialReadGoesOn ==
  /\ wpc = "delivering" /\ batch = <<>> /\ call = "initialRead"
  /\ answer # "lost" /\ todo # <<>>
  /\ ReadNextOf(todo)
  /\ UNCHANGED <<answer, unmonitored, link, orders, status, queues, records>>

InitialReadEnds ==
  /\ wpc = "delivering" /\ batch = <<>> /\ call = "initialRead"
  /\ answer = "lost" \/ todo = <<>>
  /\ leaf' = InState(leaf, "Up")
  /\ status' = "Up"
  /\ unmonitored' = Monitored
  /\ wpc' = "monitor"
  /\ UNCHANGED <<call, batch, answer, todo, link, orders, queues, asking>>

\* One CreateMonitoredItems per item, in order; a refused one tells the item's
\* record that its connection is lost.
MonitorItem ==
  /\ wpc = "monitor"
  /\ \E i \in unmonitored :
       /\ \A j \in unmonitored : i <= j
       /\ unmonitored' = unmonitored \ {i}
       /\ \/ watched' = watched \cup {i} /\ UNCHANGED leaf
          \/ leaf' = [leaf EXCEPT ![i] = IncomingEvent(@, "loss")] /\ UNCHANGED watched
  /\ UNCHANGED <<wpc, call, batch, answer, todo, conn, closed, published, orders, status, queues, asking>>

ConnectReturns ==
  /\ wpc = "monitor" /\ unmonitored = {}
  /\ wpc' = "serve" /\ held' = FALSE
  /\ UNCHANGED <<call, batch, answer, todo, unmonitored, control, ordersLeft, exit, link, status, queues, records>>

(***************************************************************************)
(* The worker: serving.  The select is biased, so each arm waits for those *)
(* before it to have nothing.                                              *)
(***************************************************************************)
Closing == {"closingExit", "closingRequested", "closingLost"}

ServeExit ==
  /\ wpc = "serve" /\ exit
  /\ wpc' = "closingExit"
  /\ UNCHANGED <<call, batch, answer, todo, unmonitored, link, orders, status, queues, records>>

ServeOrder ==
  /\ wpc = "serve" /\ ~exit /\ control # <<>>
  /\ control' = Tail(control)
  /\ \/ /\ Head(control) = "disconnect"
        /\ wpc' = "closingRequested" /\ held' = TRUE
     \/ /\ Head(control) = "connect"
        /\ UNCHANGED <<wpc, held>>
  /\ UNCHANGED <<call, batch, answer, todo, unmonitored, ordersLeft, exit, link, status, queues, records>>

NothingOrdered == wpc = "serve" /\ ~exit /\ control = <<>>

ServeClosed ==
  /\ NothingOrdered /\ closed
  /\ wpc' = "closingLost"
  /\ UNCHANGED <<call, batch, answer, todo, unmonitored, link, orders, status, queues, records>>

ServeRequest ==
  /\ NothingOrdered /\ ~closed /\ commands # <<>>
  /\ commands' = Tail(commands)
  /\ IF Head(commands).kind = "read"
       THEN reads' = Append(reads, Head(commands)) /\ UNCHANGED writes
       ELSE writes' = Append(writes, Head(commands)) /\ UNCHANGED reads
  /\ UNCHANGED <<worker, link, orders, status, records>>

RequestsTaken == NothingOrdered /\ ~closed /\ commands = <<>>

\* The connectivity check timed out.
ServerInactive ==
  /\ RequestsTaken
  /\ wpc' = "closingLost"
  /\ UNCHANGED <<call, batch, answer, todo, unmonitored, link, orders, status, queues, records>>

ItemsOf(q) == [k \in DOMAIN q |-> q[k].item]

\* Writes go first.  Each item's value is taken once, whatever the number of
\* requests; items with nothing to write are passed over, and with none left
\* there is no call (`write_chunk`, `Item::take_outgoing`).
FlushWrites ==
  /\ RequestsTaken /\ writes # <<>>
  /\ LET taken == ToSet(ItemsOf(Taken(writes, WriteLimit)))
         written == {i \in taken : leaf[i].dirty # 0}
     IN  /\ leaf' = [i \in Items |-> IF i \in taken THEN [leaf[i] EXCEPT !.dirty = 0] ELSE leaf[i]]
         /\ IF written = {} THEN UNCHANGED <<wpc, call, batch>>
            ELSE /\ wpc' = "calling" /\ call' = "write"
                 /\ batch' = SetToSeq(written)
  /\ writes' = Left(writes, WriteLimit)
  /\ UNCHANGED <<answer, todo, unmonitored, link, orders, status, commands, reads, asking>>

FlushReads ==
  /\ RequestsTaken /\ writes = <<>> /\ reads # <<>>
  /\ wpc' = "calling" /\ call' = "read"
  /\ batch' = ItemsOf(Taken(reads, ReadLimit))
  /\ reads' = Left(reads, ReadLimit)
  /\ UNCHANGED <<answer, todo, unmonitored, link, orders, status, commands, writes, records>>

(***************************************************************************)
(* The worker: a service call's result, item by item.                      *)
(***************************************************************************)
CallAnswered ==
  /\ wpc = "calling"
  /\ wpc' = "delivering"
  /\ answer' \in {"ok", "failed", "lost"}
  /\ UNCHANGED <<call, batch, todo, unmonitored, link, orders, status, queues, records>>

DeliverResult ==
  /\ wpc = "delivering" /\ batch # <<>>
  /\ LET i == Head(batch)
         success == IF call = "write" THEN IncomingEvent(leaf[i], "written")
                                      ELSE IncomingData(i, leaf[i])
     IN  \/ answer = "ok" /\ leaf' = [leaf EXCEPT ![i] = success]
         \/ leaf' = [leaf EXCEPT ![i] = IncomingEvent(@, "failure")]
  /\ batch' = Tail(batch)
  /\ UNCHANGED <<wpc, call, answer, todo, unmonitored, link, orders, status, queues, asking>>

ServedCall ==
  /\ wpc = "delivering" /\ batch = <<>> /\ call \in {"read", "write"}
  /\ wpc' = IF answer = "lost" THEN "closingLost" ELSE "serve"
  /\ UNCHANGED <<call, batch, answer, todo, unmonitored, link, orders, status, queues, records>>

(***************************************************************************)
(* The worker: the end of a connection.                                    *)
(***************************************************************************)
\* Mutant: requests wait for the next connection.
MarkLossKeepingRequests == /\ UNCHANGED <<reads, writes>>
                           /\ leaf' = [i \in Items |-> IncomingEvent(leaf[i], "loss")]

\* `mark_connection_loss`.
MarkConnectionLoss ==
  /\ reads' = <<>> /\ writes' = <<>>
  /\ leaf' = [i \in Items |-> IncomingEvent(leaf[i], "loss")]

Disconnected ==
  /\ wpc \in Closing
  /\ status' = "Down"
  /\ MarkConnectionLoss
  /\ watched' = {}
  /\ \/ wpc = "closingExit" /\ Return
     \/ /\ wpc = "closingRequested"
        /\ wpc' = "idle" /\ held' = FALSE /\ UNCHANGED <<control, commands>>
     \/ /\ wpc = "closingLost"      \* reconnect, whatever autoconnect says
        /\ wpc' = "connecting" /\ UNCHANGED <<held, control, commands>>
  /\ UNCHANGED <<call, batch, answer, todo, unmonitored, ordersLeft, exit, conn, closed, published, asking>>

--------------------------------------------------------------------------------
(***************************************************************************)
(* The records.                                                            *)
(***************************************************************************)
\* `OpcuaDevice::send` goes on: the state lets it, and the node's type is known.
Sendable(l) == l.state \in {"InitialWrite", "Up"} /\ l.typed

\* A scan or a put: an input record wants a value, an output record sends its own.
\* The state is checked here and the request made a step later.
Process(i) ==
  /\ asking[i] = 0
  /\ Len(commands) + Len(reads) + Len(writes) < MaxRequests
  /\ IF i \in Outputs THEN Sendable(leaf[i]) ELSE leaf[i].state # "Down"
  /\ asking' = [asking EXCEPT ![i] = conn]
  /\ UNCHANGED <<worker, link, orders, status, queues, leaf>>

\* The pass of an update's wake-up takes it; an output record sends its value on
\* a write request.
TakeUpdate(i) ==
  /\ asking[i] = 0
  /\ leaf[i].updates # <<>>
  /\ leaf' = [leaf EXCEPT ![i].updates = Tail(@)]
  /\ asking' = IF /\ Head(leaf[i].updates).content = "writeRequest"
                  /\ i \in Outputs /\ Sendable(leaf[i])
                 THEN [asking EXCEPT ![i] = conn] ELSE asking
  /\ UNCHANGED <<worker, link, orders, status, queues>>

\* Mutant: a value still to be written is taken to have its request already.
AskUnlessDirty(i) ==
  /\ asking[i] # 0
  /\ commands' = IF wpc = "stopped" \/ leaf[i].dirty # 0 THEN commands
                 ELSE Append(commands, [item |-> i, kind |-> IF i \in Outputs THEN "write" ELSE "read",
                                        conn |-> asking[i]])
  /\ leaf' = IF i \in Outputs THEN [leaf EXCEPT ![i].dirty = asking[i]] ELSE leaf
  /\ asking' = [asking EXCEPT ![i] = 0]
  /\ UNCHANGED <<worker, link, orders, status, reads, writes>>

\* `Item::request`; the value of an output record is the item's to send from here.
\* A worker that is gone takes no request.
Ask(i) ==
  /\ asking[i] # 0
  /\ LET output == i \in Outputs
         request == [item |-> i, kind |-> IF output THEN "write" ELSE "read", conn |-> asking[i]]
     IN  /\ commands' = IF wpc = "stopped" THEN commands ELSE Append(commands, request)
         /\ leaf' = IF output THEN [leaf EXCEPT ![i].dirty = asking[i]] ELSE leaf
  /\ asking' = [asking EXCEPT ![i] = 0]
  /\ UNCHANGED <<worker, link, orders, status, reads, writes>>

Record == \E i \in Items : Process(i) \/ TakeUpdate(i) \/ Ask(i)

(***************************************************************************)
(* The dispatcher, the server, and the IOC.                                *)
(***************************************************************************)
\* The dispatcher outlives its connection: it ends when it has delivered
\* everything that was on its way.
Dispatch ==
  \E n \in published :
    /\ published' = published \ {n}
    /\ leaf' = [leaf EXCEPT ![n.item] = IncomingData(n.item, @)]
    /\ UNCHANGED <<worker, conn, closed, watched, orders, status, queues, asking>>

\* At most one notification per item and connection is on its way.
Publish ==
  \E i \in watched :
    /\ ~closed
    /\ [conn |-> conn, item |-> i] \notin published
    /\ published' = published \cup {[conn |-> conn, item |-> i]}
    /\ UNCHANGED <<worker, conn, closed, watched, orders, status, queues, records>>

Unconnected == {"idle", "setup", "connecting", "retry", "stopped"}

ConnectionCloses ==
  /\ wpc \notin Unconnected \cup Closing
  /\ ~closed
  /\ closed' = TRUE
  /\ UNCHANGED <<worker, conn, watched, published, orders, status, queues, records>>

GiveOrder ==
  /\ ordersLeft > 0 /\ wpc # "stopped"
  /\ ordersLeft' = ordersLeft - 1
  /\ \E order \in {"connect", "disconnect"} : control' = Append(control, order)
  /\ UNCHANGED <<worker, held, exit, link, status, queues, records>>

Exit ==
  /\ ~exit
  /\ exit' = TRUE
  /\ UNCHANGED <<worker, held, control, ordersLeft, link, status, queues, records>>

Connecting == \/ OrderWhileDown \/ ExitWhileDown \/ RetryTimer
              \/ SecuritySetUp \/ AttemptFails \/ Connected
              \/ StartInitialRead \/ InitialReadGoesOn \/ InitialReadEnds
              \/ MonitorItem \/ ConnectReturns

Serving == \/ ServeExit \/ ServeOrder \/ ServeClosed \/ ServeRequest
           \/ FlushWrites \/ FlushReads
           \/ CallAnswered \/ DeliverResult \/ ServedCall \/ Disconnected

Worker == Connecting \/ Serving

Next == \/ Worker
        \/ Record
        \/ Dispatch
        \/ Publish \/ ConnectionCloses \/ ServerInactive
        \/ GiveOrder \/ Exit

Spec == Init /\ [][Next]_vars

\* The runtime runs the worker; a service call ends (a timeout, if nothing else);
\* a select that is not biased takes each arm that is ready again and again.  No
\* fairness for records, iocsh or the server, which need never go away.
FairSpec == Spec /\ WF_vars(Worker) /\ SF_vars(OrderWhileDown) /\ SF_vars(ExitWhileDown)

--------------------------------------------------------------------------------
Reasons == {"data", "failure", "written", "writeRequest", "loss"}
Conns == 0 .. MaxConnections
Requests == [item : Items, kind : {"read", "write"}, conn : Conns]
Leaves == [state : {"Down", "InitialRead", "InitialWrite", "Up"},
           updates : Seq([content : Reasons, overrides : {0}]),
           dirty : Conns,
           typed : BOOLEAN]

\* The types of the worker's, the session's and the leaves' fields.
TypeOK ==
  /\ wpc \in Unconnected \cup Closing
            \cup {"activating", "calling", "delivering", "monitor", "serve"}
  /\ call \in {"none", "initialRead", "read", "write"}
  /\ batch \in Seq(Items) /\ todo \in Seq(Items)
  /\ answer \in {"ok", "failed", "lost"}
  /\ unmonitored \subseteq Monitored /\ watched \subseteq Monitored
  /\ conn \in Conns /\ closed \in BOOLEAN
  /\ published \subseteq [conn : Conns, item : Items]
  /\ control \in Seq({"connect", "disconnect"}) /\ ordersLeft \in 0 .. MaxOrders
  /\ held \in BOOLEAN /\ exit \in BOOLEAN
  /\ status \in {"Down", "InitialRead", "Up"}
  /\ {commands, reads, writes} \subseteq Seq(Requests)
  /\ leaf \in [Items -> Leaves] /\ asking \in [Items -> Conns]
  /\ \A i \in Items : Len(leaf[i].updates) <= Capacity

\* Without a connection everything says so: the session, every leaf, and no
\* request waits for a service call; and nothing that was on its way when the
\* connection went - a dispatched value, a call's result, a record's pass -
\* brings any of it back (`disconnect`, `mark_connection_loss`).
DownTogether ==
  wpc \in Unconnected \cup {"activating"} =>
    /\ status = "Down" /\ reads = <<>> /\ writes = <<>>
    /\ \A i \in Items : leaf[i].state = "Down"

\* The items go through a connection together (OpcuaItemLife).
Life == INSTANCE OpcuaItemLife WITH
          Refusable <- Monitored,
          session <- status,
          state <- [i \in Items |-> leaf[i].state]

LifeSpec == Life!Spec

\* Once the initial read is behind the session no leaf is left in it or in the
\* initial write, where a put is dropped: it is Up, or Down since its monitored
\* item was refused.
NoLeafLeftBehind ==
  (wpc \in {"monitor", "serve"} \cup Closing \/ (wpc = "delivering" /\ call # "initialRead")) =>
    /\ status = "Up"
    /\ \A i \in Items : leaf[i].state = "Up" \/ (leaf[i].state = "Down" /\ i \in Monitored \ watched)

\* A value sent on this connection is still to be written only if a request that
\* will write it is queued: none is forgotten between `send`, the worker's queues
\* and `take_outgoing`, whatever is written together.
DirtyHasRequest ==
  \A i \in Items :
    (leaf[i].dirty = conn /\ conn # 0 /\ wpc \notin Unconnected) =>
      \E r \in ToSet(commands) \cup ToSet(writes) : r.item = i /\ r.kind = "write"

\* The last update queued for a record that has not taken it is the connection loss.
LossIsLastFor(i) == leaf[i].updates # <<>> => Last(leaf[i].updates).content = "loss"

\* A record whose item is not monitored learns of the loss of its connection after
\* all that came over it: no result of a call is queued behind it, and none that
\* waits keeps it out (`disconnect` after the calls of `serve`).
LossEndsConnection == status = "Down" => \A i \in Items \ Monitored : LossIsLastFor(i)

\* Every request waiting for a service call was made on this connection
\* (session.rs, `mark_connection_loss`'s comment).
RequestsOfThisConnection ==
  \A r \in ToSet(reads) \cup ToSet(writes) : r.conn = conn

\* The exit ends the worker, from wherever it is.
ExitEndsWorker == exit ~> wpc = "stopped"

\* Whoever waits for an order it gave is released: no order is left in the
\* channel or held for ever, whatever becomes of the connection.
OrdersAnswered == (control # <<>> \/ held) ~> (control = <<>> /\ ~held)

\* A value sent on this connection reaches a service call, or the record's connection
\* is lost, though values of an earlier one may be left unsent (`send`, `flush`).
PutReachesServer ==
  \A i \in Items : (conn # 0 /\ leaf[i].dirty = conn) ~>
                     (leaf[i].dirty = 0 \/ leaf[i].state = "Down")
================================================================================
