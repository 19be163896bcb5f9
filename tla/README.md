# TLA+ models of epics-rs-iocs

The repository is a workspace of EPICS device drivers and the IOC applications
that load them: 68 driver crates under `src/drivers`, 83 IOC crates under
`src/iocs`. This directory holds TLA+ models of the parts of it whose
correctness depends on the order in which several tasks act, what TLC checks of
them on small instances, and what TLAPS proves of them for all.

It covers the core of three drivers. OPC UA (`src/drivers/opcua`): the update
queue of each record, the wake-ups that bring a record to its queue, the session
worker that connects, reads, serves, loses and reconnects, and the way it gathers
requests into service calls. TwinCAT ADS (`src/drivers/twincat-ads`): the client
that shares one socket among callers, and the port that keeps parameters fed
through reconnections and downloads. EtherNet/IP (`src/drivers/ether-ip`): the
scan of a PLC's tags against the records that write them. The plan for the rest
is at the end.

## Inventory

| Component | State | Operations | What is hard | Correct when |
|---|---|---|---|---|
| opcua update queue, `queue.rs` | bounded queue of updates, loss counts | push (two discard policies), pop | overruns, capacity 0 and 1 | every loss is counted once, by the update behind it; the newest survives; nothing is reordered |
| opcua leaf, `item.rs`, and the record's passes, `device_support.rs`, `record.rs` | queue, `owed`, a one-slot channel, `pulse_pass`, the order put to an opcuaItem record | push, pop, `owe_wake`; pulse, pass, reconcile; put to READ/WRITE | pushes during a pass, passes that never reach the device, orders that take an update's pass | a queue that is not empty has exactly one wake-up |
| opcua item, `item.rs` | state, last value; per leaf: state, type of the last value, outgoing value, dirty | `set_incoming_data`, `set_incoming_event`, `set_state`, `take_outgoing`, `request` | four tasks call them; values arrive in any state | states go through a connection together; a value sent is written or lost with the connection |
| opcua session worker, `session.rs` | reads and writes waiting, channels for requests and orders, the exit, the connection, the status | `run`, `connect`, `serve`, `flush`, `disconnect` | every service call may fail, time out or never matter any more; orders, exit, closed connection and requests race | the exit ends it; callers of orders are released; a connection's requests end with it; limits hold |
| opcua dispatcher, `session.rs` | a channel of notifications | one task per subscription | it outlives its connection | after the loss nothing pretends to be connected |
| opcua registry and iocsh, `registry.rs`, `ioc.rs` | sessions, items by name, workers | bind, start, exit, options, connect and disconnect | start and exit block on workers | nobody waits for ever |
| opcua values, links, printing | none | conversions, parsing, text | ranges, enumerations, structures | pure functions |
| ADS client, `drivers/twincat-ads`, `ads/client.rs` | requests by invoke id, the socket, its reader | `request`, `read_loop`, `tear_down`, `close` | late answers after a time-out, two threads that tear down against callers | a call ends once, with its own answer, a time-out or the loss |
| ADS port, `driver.rs` | the client; parameters with handle, feed, `refresh_needed`; subscriptions; bulk groups; the AMS port's state | `cyclic_pass`, `disconnect`, `refresh_param`, `bulk_cycle`, `on_notification`, bind, write | five threads, one lock per table, none held over a request; everything goes stale with the connection | what is marked refreshed is fed; after the last fault everything comes back |
| EtherNet/IP, `drivers/ether-ip`, `driver.rs`, `device.rs` | tags with a buffer, `do_write`, `is_writing`; scan lists; listeners; records in a put's pass | `scan_pass`, `build_multi_request`, `apply_response`, `invalidate_tags`; `stage_write`, `read`, `io_intr_callback` | writes staged at any point of a transfer, requests that fill up, transfers that fail half-way | the last value put is sent, none survives its connection, every put ends, records and PLC come to agree |
| Universal Robots, `drivers/ur-robot` | dashboard, RTDE stream, control script | connect, command, stop | several connections and locks (`doc/ur-robot-lock-audit.md`) | one owner of the control; commands end |
| MCC, `drivers/meascomp` | scaler and MCS state, poller | arm, erase, start, poll | commands between polls | acquisition ends once, counts are its own |
| Area detectors, `drivers/ad` | acquisition state, frame counters | start, stop, trigger | an acquisition task against puts | every start is answered by a stop |
| Motors, `drivers/motor` | axis status, poller | move, stop, home, poll | a poll between a move and its start | done is not reported for a move that has not begun |
| Electrometers, `drivers/quadem` | ring buffer, averaging | read, average, trigger | producer and consumer | every sample is averaged once |
| Analysers, serial instruments, camera | device parameters | request and response | little: one port, one caller | formatting and parsing |
| IOC applications, documents, lints | none | configuration | none | - |

The components call each other as follows. A record's process pass calls device
support, which reads its leaf and asks its item; the item sends a request on the
session's unbounded channel. The session worker is one task: it takes requests,
orders and the exit in one `select`, makes one service call at a time and delivers
the results to items. A dispatcher task per subscription delivers what the server
publishes to the same items. Items push updates on the leaves' queues, and a leaf
wakes its record through a one-slot channel, on which the framework runs a pass.

In the ADS driver one actor thread binds and writes parameters, a supervisor
thread connects and refreshes them, a poller reads the bulk groups, and the
client's reader thread delivers notifications; all make their requests through
the one `AdsClient` and share the tables of `AdsShared`. In the EtherNet/IP
driver a thread per PLC scans its lists and tells the listeners of every tag it
transferred; records stage writes in the tag's buffer under its lock and never
wait for the PLC, except that a put's pass stays open until its tag is told.

## Modules

| Module | Models | Lines it comes from |
|---|---|---|
| `OpcuaUpdates` | the queue's operators: capacity, push with both policies, loss counts | `queue.rs` |
| `OpcuaUpdateQueue` | one queue in use, updates numbered | `queue.rs` |
| `OpcuaLossyMailbox` | abstract: what the queue promises under either policy | - |
| `OpcuaLeaf` | a leaf, its channel and its record's passes; EXTENDS the queue | `item.rs`, `device_support.rs`, `record.rs` |
| `OpcuaSession` | worker, items, records' requests, dispatcher, orders, exit | `session.rs`, `item.rs`, `device_support.rs`, `registry.rs` |
| `OpcuaItemLife` | abstract: the states of a session and its items through a connection | - |
| `OpcuaBatcher` | the six request queues, limits, hold-off, on a clock | `session.rs` |
| `EipScan` | the scan thread of one PLC, its tags, the records' passes and callbacks | `ether-ip/src/driver.rs`, `device.rs` |
| `AdsCalls` | abstract: what each call of the ADS client ends with | - |
| `AdsClient` | callers, request table, socket, reader, tear-downs, `close` | `twincat-ads/src/ads/client.rs` |
| `AdsPort` | supervisor, poller, notification reader and actor on one AMS port's parameters | `twincat-ads/src/driver.rs` |
| `OpcuaUpdateQueueProofs`, `OpcuaLeafProofs`, `OpcuaSessionProofs`, `OpcuaSessionQueueProofs`, `OpcuaBatcherProofs`, `AdsClientProofs`, `AdsPortProofs`, `EipScanProofs` | theorems | |
| `MC*` | the modules as TLC runs them | |

Operators that only serve to show that a property can fail - the code with a
guard dropped or a count short - are commented `Mutant:` and used by no
definition of the models.

### How state and actions correspond

`OpcuaUpdateQueue`. `queue` is `UpdateQueue::queue`. An update keeps its loss
count and, for reason, data, status and time stamp, which are always set
together, one `content`: its number in the order of the pushes.

`OpcuaLeaf`. `token` is the channel, `owed` and `pulsePass` the fields of that
name, `ordered` is `OpcuaItemRecord::pending`. The framework is external: on a
pulse its task takes the wake-up, locks the record, calls
`arm_readback_callback`, runs the pass, calls `reconcile_readback_callback` and
unlocks. The pass may end before it reaches the device. Every other pass runs with
the record locked in one piece, so `OtherPass` is one step; it takes an order, and
nothing else of the leaf. A pulse's pass is several steps because the client does
not need the record's lock to push.

`OpcuaSession`. `wpc` says at which await the worker is:

| `wpc` | the worker awaits |
|---|---|
| idle, retry | an order, the exit and, in retry, the timer (`run`) |
| setup, connecting | the security setup, the connect (`connect`) |
| activating | server information, registrations and subscriptions (`connect`) |
| calling | a Read or Write, `call` says for what |
| delivering | an item's lock, between two items of an answer |
| monitor | CreateMonitoredItems of the next item |
| serve | its biased `select` |
| closingExit, closingRequested, closingLost | `UaConnection::disconnect` |
| stopped | nothing: it has returned |

Steps that follow each other without an await and without a lock that another
task takes in between are one action. Three merges deserve a reason.
`StartInitialRead` sets every item's state and the status in one step, and
`InitialReadEnds`, `MarkConnectionLoss` likewise, though the code locks one item
after the other: what another task does to an item not yet reached commutes with
the states set before, since no task looks at two items. `FlushWrites` takes the
values of a batch in one step for the same reason. `Ask` sets the value to send
and asks for the write in one step: a worker that takes the value in between
leaves a request that finds nothing, as it does when it takes the value for an
earlier request. The check of the state and the request stay two steps
(`Process`, `Ask`), since that is where a connection can be lost unnoticed.

A request carries the connection the record saw up, a value to send the
connection it was sent on: history the code does not have, for the properties
that speak of it. `DeliverResult` tells an item's own result from the call's: a
call that is answered may still carry a bad status for one item.

`OpcuaBatcher`. `asked` numbers the requests, `commands` and `queues` are the
channel and the worker's arrays of queues, `timer` and `check` the ticks to
`flush_at` and to the connectivity check, `checking` whether one is under way. The
worker does what is due before time passes (`Due`), while a call or the answer to a
check may take any time; requests are taken and batches sent while a check is under way.

`EipScan`. `buf`, `valid`, `doWrite`, `isWriting` are the fields of a tag's
`data`; `usable` are the tags whose probe gave them request sizes. `pc` says what
the scan thread does, `cur`, `snap`, `pos` are the list, its copy and the place in
it, `req`, `left`, `reply` the request under way, `notes` and `checking` the
listeners still to be told. A record's `pact` is a put's pass kept open;
`once`, `requested` and `pulsed` are passes the framework still owes it. A record's
pass, a callback, and the application of one tag's answer are each one step under
the tag's lock; between the answer that fills the buffer and the listener that is
told, everybody else may act. Building a request looks at one tag after the
other; it is one step here, since a tag not looked at yet can be staged before
the step and one already looked at after it, with the same request. `unsent`,
`last`, `stale` and `asked` are history.

`AdsClient`. `pc` says where a caller is in `request`:

| `pc` | next |
|---|---|
| check | `is_connected`, then the invoke id |
| register | the slot |
| send, sending | the socket's lock, `write_all` |
| withdraw, withdrawIo | the slot is removed: there was no socket, or the write failed |
| wait | `recv_timeout` |
| giveUp | the slot is removed after a time-out |

`pending` is the table, `inbox` the channels, `tx` and `connected` the fields of
that name. The reader takes a slot and hands over in two steps (`TakeChannel`,
`HandOver`), since that is where a time-out gets between. `Flag`, `Shut`, `Drain`
are the three statements of `tear_down`, run by the reader when it ends - the
link is down, or what came cannot be a frame - and by `close`, which holds the client alone and so begins when nobody is in a request.

`AdsPort`. `pc` says where each of the four threads is, `on` the connection whose
`Arc` it holds, `par` its parameter and `got` what its request returned. Every
handle is the number of the connection it was got on, which is what makes it good
or refused. A request and the local step after it are two actions, so that
`disconnect`, which takes seven of its own, falls between any two. Steps that take
two locks are those whose second table no other thread reads together with the
first: `ClearFeeds` (`notifications`, `bulk`), `ForgetSubscriptions`
(`notifications`, `ports`), `RaiseAlarms` (one parameter at a time). A connection
ends when nobody holds it any more (`Keep`). How a request ends is `AdsClient`'s
affair and here as `AdsCalls` has it: with an answer, or not.

### Left out of these modules

- An item has one leaf here, bound to the node itself. Several element leaves,
  which share their item's last value, are planned.
- In `OpcuaSession` requests have one priority, since records ask only with
  `Priority::Low` (`item.rs:254`); `OpcuaBatcher` has all three. The hold-off is
  time and only in `OpcuaBatcher`; in `OpcuaSession` a flush may come at any time
  after the requests before it are taken.
- In `OpcuaSession` updates do not count losses (`Forget`); `OpcuaUpdateQueue` does.
- One notification per item and connection is on its way at a time, and the
  order in which different items' notifications are delivered is open.
- The channel and session states that `opcuaShow` prints, namespaces, node
  registration and revised intervals change no decision of the worker.
- A connectivity check of `OpcuaBatcher` is answered; one that times out is
  `ServerInactive` of `OpcuaSession`.
- `last_status`, `last_timestamp` and the enumeration choices of an item are data.
- Several sessions share nothing but the registry, which starts them in turn.
- `EipScan`: tags are scalars, so a write never carries other elements of an
  array along; request sizes are abstract units; a put to a record whose pass is
  still open is not made, neither to its value (the framework keeps it for later, RPRO)
  nor to its link; a failed `startup` of the connection leaves everything as it was;
  disabled lists, statistics and the driver's `stop` are not modelled. A record's
  options and scan are chosen in the initial state.
- `AdsClient`: notifications, which need no request (they are in `AdsPort`).
  `Recycled` assumes that nothing is left of the request whose invoke id is given
  out again, 2^32 requests later.
- `AdsPort`: symbolic parameters on one AMS port, all in one bulk group (fewer
  than 500); the AMS state parameters, `.ADR.` addresses, the octet command
  channel, arrays and octets, the group's clock slots, the second try of a first
  sample, `release_symbol_handle`, which nothing waits for, and the exit on
  `GLOBALERR_TARGET_PORT`. A PLC that sends the present value when it is
  subscribed is not assumed. `auto_connect` is on. More records are bound on a
  parameter (`Rebind`) only when it was itself bound while the port runs.

## Runs

Every run is exhaustive within its bounds.

| Run | Instance | Shows |
|---|---|---|
| `QueueNewest` | capacity 3, newest slot discarded, 9 pushes | `TypeOK`, `GapsAccounted`, `NewestSurvives`; the queue implements `OpcuaLossyMailbox` |
| `Leaf` | capacity 3, oldest discarded, 8 pushes, an opcuaItem record | one wake-up exactly (`OneWake`), no pass without its update, order kept; an update is taken or a wake-up is owed (liveness); what the record takes is `OpcuaLossyMailbox`'s, with the oldest given up |
| `SessionTwoItems` | two items (ignore and monitored; write and output), queues of 2, one connection, one order, one request at a time | types; no leaf left in an initial state once the session serves; after the loss no update of an item that is not monitored |
| `SessionReconnect` | a monitored output with `bini=write`, two connections, two orders, two requests, no autoconnect | `DownTogether`, `DirtyHasRequest`; session and items implement `OpcuaItemLife`; the exit ends the worker, callers are released, a value sent is written or lost with the connection |
| `Batcher` | three requests of any kind and priority, read limits 5 and 6 nodes (of 5, two items make 4), write limits none and 1, hold-off 1 to 2 ticks, a check after 3 whose answer takes any time | no request lost, doubled or reordered, limits, urgency, every request sent |
| `EipScan` | two tags on one list, a request takes two reads or one write; an input and an output record, passive, or periodic and forced; two faults, puts or changes | `WritesCarryLatest`, `HandshakeHeld`, `NoStaleWrite`; a put's pass ends, what was staged is sent or given up, records and PLC agree in the end |
| `AdsClient` | two callers, four calls, three invoke ids | no slot left behind, nobody stranded; implements `AdsCalls`; a loss wakes all who wait |
| `AdsPort` | two parameters, one bound late, or one or both polled; two connections, two faults, changes or writes | what is marked refreshed has its own notification or, on the first connection, its own slot; on a connection that stays nothing is left to refresh, and if it is the first, what is polled shows the PLC's values |

Bounds. `MaxPushes` lets a queue overrun several times in a row and between pops.
`MaxConnections` = 2 is what it takes for something of one connection to meet the
next; with `Autoconnect` and a lost connection the worker may try for ever
without another success. `MaxOrders` bounds iocsh, `MaxRequests` the requests
records have under way. `ReadLimit` = 1 makes the initial read of two items take
two calls, so that one can fail after the other. `MaxAsked` = 3 leaves a batch
with a rest in every queue. The queues are checked at a capacity of three only; of 0 and
1 the theorems speak. `Budget` of `EipScan` and `AdsPort` bounds everything
that comes from outside - puts, PLC changes, downloads, failures - together: two
let one thing go wrong while another is under way, and the properties that fail in
the runs below fail with two. `Limit` = 2 and a write of size 2 make a write wait
for the next request behind a read. `IdCount` = 3 for four calls makes the invoke
ids wrap round. Deadlock is not checked where the system really stops: a bounded
number of pushes or calls, a worker that has returned, or nothing left to do.

Fairness. `FairLeafSpec` assumes that the framework goes on with a pass it began
and takes wake-ups; it does not assume that anything is ever pushed or that
passes stop being blocked, so what is proved of a blocked update is that a wake-up
is owed. `FairSpec` of `OpcuaSession` assumes that the runtime runs the worker,
whose service calls end since the client gives each a time-out, and that a
`select` that is not biased does not ignore for ever an arm that is ready again
and again (tokio picks among them at random): an order or the exit in the idle
and retry states. It assumes nothing of records, iocsh or
the server: in particular a connectivity check need never time out
(`ServerInactive` is no step of `Worker`), so a value that is sent may not wait
for the connection to fail.
`FairSpec` of `OpcuaBatcher` assumes the worker, the answers to its calls and
checks, which have time-outs, and the clock.
`FairSpec` of `EipScan` assumes that the scan thread goes on, since each of its
calls has a time-out, that each list is due again and again, and that the
framework runs the passes it has queued; a connection need never succeed.
`FairSpec` of `AdsClient` assumes that each thread goes on and nothing of the PLC:
it need not answer, and the link may never be lost. `FairSpec` of `AdsPort`
assumes the four threads, whose requests end by `AdsCalls`, and that connecting,
tried again and again, succeeds as long as the bound on connections lets it.

### Where the code differs from what the repository says

Each of these runs finds its property violated; the property states the sentence.

| Run | Property | The text | The code |
|---|---|---|---|
| `SessionStaleRequest` | `RequestsOfThisConnection` | `session.rs:1776`: requests for a connection that is gone "would be answered against the next one, so they go" | those still in the channel stay |
| `EipWriteBack` | `PassFindsAgreement` | `ether-ip/src/device.rs:1656`: a record that processes right after a callback "has the PLC's bits already, and its write pass finds nothing to write" | the buffer is filled before the callback has the record's lock; a pass in between writes the old value back |
| `AdsBulkReconnect` | `NeverPanics` | `twincat-ads/src/driver.rs:770`: "A slot is never given up: the handle behind it changes on reconnect, the slot does not" | `disconnect` empties the groups and leaves the parameters their seats: the first refresh afterwards panics |
| `AdsLateBind` | `ReconnectResolves` | `twincat-ads/src/driver.rs:1989`: "drop the bookkeeping so a reconnect re-resolves" | a binding that outlasts the disconnect clears `refresh_needed` after it |

Others were seen while modelling and have no run. In the OPC UA driver: the dispatcher
may queue a value after the connection loss, which clears the record's alarm
(`session.rs:1651`); a connection error in the initial read leaves items unread and
is ignored (`session.rs:1101`); an overrun of published values drops the write
request of `bini=write` (`item.rs:330`); every event restarts the hold-off
(`session.rs:1132`), which is always the maximum (`session.rs:1229`); `next_flush` uses the read options
for writes too, so `write-timeout-min` and `-max` (`ioc.rs:73`) do nothing; and
with a limit of one node `read_limit` still reads one item, which is two nodes
(`session.rs:1249` against the comment at 1270). `WithinLimit` is checked for
limits of two nodes and more. In the EtherNet/IP driver: a write that is too large
for any request is dropped without an alarm while its read fits
(`driver.rs:837`), and the tags behind it on its list are never transferred
(`driver.rs:884`); a tag that moves to another list while `invalidate_tags` goes
through them keeps its write (`driver.rs:329`; TLC finds `NoStaleWrite` violated with
`ListCount` = 2, and the theorem assumes `ListsKept`); a record whose pending put ends with
a disconnect gets no write alarm. In the ADS driver: a poll that was under way when
the connection went publishes afterwards and ends the alarm (`driver.rs:930`); a
first sample or a write's value may overwrite a newer push (`driver.rs:655`,
`driver.rs:1242`); a failed refresh is tried again only after the next drop or
symbol change; two threads that refresh the same parameter may give it two seats
in the bulk group.

## Proofs

What is assumed of the constants is their kind. `QueueAssumption`,
`PushAssumption` and `LeafAssumption`: the queue size is a natural number, 0
included, the policy is one of two, pushes are bounded by any natural number.
`SessionAssumption`: any number of items, each with any `bini`, monitored or not,
input or output; limits of at least one item; any bounds on connections, orders
and requests. `EipAssumption`: any tags, records and values, at least one list, any
sizes of a request; `ListsAssumption`: each tag is in one list, once, as
`Plc::add_tag` leaves it. `ClientAssumption`: any callers, at least one invoke id, any
number of calls. `BatcherAssumption`: any limits, hold-offs and number of requests, a
check interval of at least one step. `PortAssumption`: any parameters and values, any
set of ways the database may poll them and bind them late, any number of connections,
faults and changes.

`OpcuaUpdateQueueProofs`. The invariant is `QueueInv`: types and capacity, the
accounting, the order, the newest. They are proved together because each case of
a push needs the others: that a full queue is not empty, that the first update of
the queue is counted from the one delivered last, that the last is the newest.
Two lemmas say what a push makes of a full queue place by place, one per policy,
a third what it does with room; the preservation proof uses the queue only
through them. From the invariant follow `TypeCorrect`, `LossesCounted` and
`NewestIsQueued`. `QueueIsMailbox` is the refinement: contents are pairwise
different, so as many updates survive as are queued, and each case of a push
stores or displaces one.

`OpcuaLeafProofs`. A leaf pushes and pops and does nothing else to its queue
(the lemma `LeafImplementsQueue`, which follows from the definitions), so a record gets the mailbox from its leaf
(`LeafIsMailbox`). `OneWakeAlways` needs more than `OneWake`: the device's flag is
set only during a pulse's pass, and always when the pass begins (`FlagInPass`,
`ArmedHasFlag`), otherwise an unarmed pass could use up a wake-up. It holds for
every capacity, policy and kind of record, and is the comment at `item.rs:42` made
exact. From the same invariant, a pulse's pass finds its update
(`PulseHasItsUpdate`), and through the refinement the queue's order is the leaf's
(`LeafKeepsOrder`).

`OpcuaSessionProofs`. The worker is in one of three phases, `IsDown`, `IsReading`
and `IsUp`, and `SessionInv` says in each what the status and every leaf may be.
`DownTogether` and `NoLeafLeftBehind` are two of its parts, but neither is
inductive alone: that the initial read is begun from Down and left by all items at
once needs the third, and that a refusal meets an item that is Up and not watched
needs `MonitorInv`. Of the 30 kinds of step 26 stay in a phase (`WithinPhase`):
they leave every leaf's state alone, or move one on from the initial read,
because that is all `set_incoming_data` and `set_incoming_event` do short of a loss
(`DataKeepsState`, `EventKeepsState`). So a value dispatched late, or the result of
a call, cannot bring a leaf up. The other four are proved one by one. The same
split gives the refinement: a step within a phase is an item's answer or a
stutter, each of the four is an action of `OpcuaItemLife`. The proofs use nothing
of a leaf but that it is a record with its four fields, so no type invariant is
needed.

`OpcuaSessionQueueProofs` goes on from there, about what a leaf has queued and what
its record has asked for. `SessionTypeCorrect` includes that no update queue outgrows
its capacity: `Types` is inductive once pushes are bounded, which the queue's lemmas
give. `LossComesLast`: every push leaves the update it pushed at the end of the queue,
under both policies, so nothing may be pushed to a lost item of a record that is not
monitored. Two facts see to that: values are published for monitored items only
(`PublishedAreMonitored`), and a call delivers only while the session is not down,
which is `SessionInv`'s. `NoPutForgotten`: a leaf's mark is never of a later connection
than the session's and, right after a connection is made, strictly of an earlier one
(`NoneOfLater`); so when it is of this connection the record has sent since, its
request was queued with it, and the request leaves the queues only when the worker
takes its item's value, which clears the mark.

`OpcuaBatcherProofs` proves for any limits, hold-offs and number of requests that none
is lost or doubled (`NoneLost`), that those of one queue are sent in order
(`SentInOrder`), that no service call goes ahead of a more urgent request the worker
has (`UrgentFirst`), and that calls keep to the limits (`WithinLimit`; when a read is
allowed a single node it fails, see Bounds, so the theorem assumes that away). The
invariant, `BatcherInv`: requests are taken in the order of their numbers, so what is
on its way are the last ones; a queue holds requests of its kind and priority in
increasing order; what was sent is older than all that waits in its queue; what was
taken was sent or waits. The last two say where a request is, the order of a queue
makes the place unique. That a request's place in its queue is at most its number
(in `Ordered`) bounds the queues without counting them. `BatcherTypeCorrect` adds the
clock and the timer: the hold-off is the minimum and a share of what lies between the
two options, and a lemma about division (`ShareOfSpan`) shows that the share is never
more than the whole, so the timer is never set later than the longer option allows, a
maximum below the minimum included.

`AdsClientProofs` proves for any number of callers, calls and invoke ids
(`ClientAssumption`) that the types hold, that no slot is leaked, that nobody is
stranded, and that the client implements `AdsCalls`. All four come from one
invariant, `ClientInv`, in four parts. `Typed`. `Naming`: a caller has one call and
the call one caller, two numbered requests have different invoke ids, and what is
on the wire with a request's id is of its call; the last needs that an id is given
out only when nothing is left of its last use (`Recycled`), which is where the
width of the counter enters. `Slots`: the channel the reader holds is that of the
call whose answer it has, a channel holds what its own call ends with, a call that
was served has no slot left, and a registered one has its slot or was served. The
last two hold each other up: that a slot is removed by whoever serves makes the
service unique, that nobody else removes it makes it certain. `Ending`: the
tear-down goes flag, socket, drain, in that order in either thread, and after the
drain no slot is left of one who waits, because a caller registers before it takes
the socket and finds none. `NoneStranded` follows from `Woken` and `Reaches`.
There is one lemma per action; those of callers after their registration share
`MovesOn`, those that return `ReturnEffect`. For the refinement, every return is
`Promise!End` (`ReturnEnds`), an answer of the PLC is `Promise!Answer`, a flag or a
lost link `Promise!Lose`, and all else stutters.

`EipScanProofs` proves `WritesCarryLatest` for any number of tags, records, lists and
puts, whatever fits a request, with links that are put and tags that move between
the lists. It takes two facts together: a buffer that is to be written holds the
value last staged (`Staged`), and a request that writes carries it, unless the tag
is to be written again (`Carried`). They are not inductive alone, because the
answer to a read overwrites the buffer unless `do_write` is set, and a tag whose
write half is taken has that flag cleared. `ReadsApart` closes the gap: a request
reads no tag whose write half is taken, since `Build` decides read or write under
the lock that takes the half. `InPlace` carries what the steps need of the lists
and of the thread's place in them, among it that the answer to be applied is one
of the request. `ScanTypeCorrect` adds the types of everything
else to it.

`NoHalfWrite` and `NothingStaleSent` are about the write halves that are taken: each is
of the request under way, or of the tag that is to be first in the next. They need one
assumption on the behaviour, `ListsKept`: no tag moves from one list to another while
`invalidate_tags` walks through the lists. The code copies a list under its lock, then
clears the copy's tags (`driver.rs:329-349`); a tag that a link, put in the meantime,
moves from a list still to be copied to one already cleared is in neither copy and keeps its
flags, and the value it held goes out on the next connection. The run has one list, where
no tag can move, and satisfies the assumption. What is still flagged, or has a value, while
the lists are cleared is in the rest of the copy or in a list to come (`Clearing`); so
nothing is when the next connection is made (`Cleared`).

`AdsPortProofs` proves, for any number of parameters, connections and faults, that the
types hold at every step of the four threads (`PortTypeCorrect`), among them what a
refresh has in hand at each step, and that a parameter which is not to be refreshed is
fed (`RefreshedAreFed`). As in the run, this is of parameters bound when the port starts,
which only the supervisor refreshes (`ActorIsLate`). The invariant, `FedInv`: the number of a
notification is that of one parameter or in the hands of one refresh (`OwnNumbers`), so
that a refresh which cancels, inserts or takes back a number disturbs no other parameter;
without a client, and on the way to the next one, all are to be refreshed (`GivingUp`);
the supervisor's refresh works on the client's connection, for one parameter that stays
marked until the end (`SupDoes`), and what it has achieved at each step is what makes the
parameter fed when it is done (`SupAchieves`).

The parameters that are polled share a bulk group, in which a seat is found by its
number. `OwnSeats` is what makes it safe: on the port's first connection a parameter's
seat, once it has one, is a slot made for it, and so is the one a refresh is about to
store; slots are never removed or exchanged, so `Enrol` writes to a new slot or to its own
(`EnrolKeepsFed`). It is no more than that first connection: `disconnect` drops the slots
and leaves the seats (`driver.rs:1992`), so that on the next one a seat may be that of
another parameter, made anew in the same place, which is then shown the wrong values, or
of nobody, which is the panic that `AdsBulkReconnect` shows. `RefreshedIsFed` therefore
says of polled parameters what happens before the first disconnect; of the others, all.
`AllComeAlive` is restricted likewise: of later connections it claims only that no
refresh is left undone, and of parameters bound late nothing about what feeds them
(`AdsLateBind` shows how one is left behind).

Every invariant that a passing run checks is proved, for every value of the constants but
for the two restrictions named: a read limit of one node (`CallsWithinLimit`) and lists that
change while they are cleared; in each the code fails. Only
model-checked are the properties under fairness (`UpdateTakenOrOwed`, `ExitEndsWorker`,
`OrdersAnswered`, `PutReachesServer`, `EveryRequestSent`, `PutEnds`, `StagedIsSent`,
`Converges`, `LossWakes`, `AllComeAlive`), which are out of the prover's reach.

## Plan

1. Done: queue, leaf, session, batcher and their theorems.
2. OPC UA, the rest: items with several element leaves (values kept from an old
   connection, writes that carry another element's value, WOC); binding of
   records and items in any order, and several sessions started and ended in turn
   (`registry.rs`); numeric conversions of `value.rs` as pure operators against a
   reference.
3. Done: TwinCAT ADS (`AdsClient`, `AdsCalls`, `AdsPort`) and its theorems.
4. Done: EtherNet/IP (`EipScan`) and its theorems. Left of it: arrays, disabled lists,
   stopping.
5. Universal Robots (`UrSession`): ownership of the control and the stream.
6. USB-CTR (`UsbCtr`): scaler and MCS between commands and polls; then the
   acquisition task of the simulation detectors and the motors' common poller.
7. Theorems: abstract specifications of a tag's handshake (`EipScan`) and of a
   parameter's way through a connection (`AdsPort`), and that the modules implement them.

Each composes with what it uses by EXTENDS or INSTANCE, has one run for safety and
one for liveness with two or three actors, and keeps recursion in functions so
that it can be proved about.

## Not modelled

The other drivers and the applications are in the inventory and in the plan or out
of it for a reason: the conversions of values, parsing and printing are pure
functions without state that tasks share; most of the serial, motor and detector
drivers format one instrument's commands over one port with one caller at a time,
and their order is the port's; the RealSense driver wraps a vendor's library;
applications, databases and documents are configuration.
