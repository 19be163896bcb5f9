---------------------------- MODULE OpcuaUpdateQueue ----------------------------
(***************************************************************************)
(* One record's update queue in use: the client pushes, the record pops.   *)
(* The content of an update is its number in the order of the pushes, so   *)
(* that what is missing can be told from what is counted as lost.          *)
(***************************************************************************)
EXTENDS OpcuaUpdates

CONSTANTS MaxPushes   \* bound on the pushes of a behaviour

ASSUME PushAssumption == MaxPushes \in Nat

VARIABLES queue,      \* the updates waiting, oldest first
          pushed,     \* number of updates pushed so far
          delivered   \* the update popped last

qvars == <<queue, pushed, delivered>>

Init == /\ queue = <<>>
        /\ pushed = 0
        /\ delivered = NewUpdate(0)

Push == /\ pushed < MaxPushes
        /\ pushed' = pushed + 1
        /\ queue' = PushUpdate(queue, NewUpdate(pushed + 1))
        /\ UNCHANGED delivered

Pop == /\ queue # <<>>
       /\ delivered' = Head(queue)
       /\ queue' = Tail(queue)
       /\ UNCHANGED pushed

Next == Push \/ Pop

Spec == Init /\ [][Next]_qvars

--------------------------------------------------------------------------------
UpdateRecords == [content : Nat, overrides : Nat]

\* The variables hold what the code's types hold (queue.rs: capacity, overrides).
TypeOK == /\ queue \in Seq(UpdateRecords)
          /\ Len(queue) <= Capacity
          /\ pushed \in Nat
          /\ delivered \in UpdateRecords

\* The update before the i-th one in the order the record sees them.
Before(i) == IF i = 1 THEN delivered ELSE queue[i - 1]

\* Every number missing between two updates the record takes one after the
\* other is counted by the later one, under both discard policies and for every
\* capacity, one included: no loss is silent and none is reported twice
\* (`push`, `take_over_from`, `absorb_lost`).
GapsAccounted ==
  \A i \in 1 .. Len(queue) :
    queue[i].content = Before(i).content + queue[i].overrides + 1

\* Nothing is ever reordered: the record takes updates in the order they were
\* pushed, whichever of them were dropped on the way.
OldestFirst ==
  \A i, j \in 1 .. Len(queue) : i < j => queue[i].content < queue[j].content

\* An overrun costs an older update and never the newest: the last update the
\* record will see is the last one pushed.
NewestSurvives ==
  pushed = IF queue = <<>> THEN delivered.content ELSE queue[Len(queue)].content

\* The queue is a lossy mailbox: the policies differ only in which older update
\* they give up.
Mailbox == INSTANCE OpcuaLossyMailbox WITH
             survivors <- {queue[i].content : i \in 1 .. Len(queue)},
             taken <- delivered

\* The implemented promise, as a property TLC checks.
MailboxSpec == Mailbox!Spec
================================================================================
