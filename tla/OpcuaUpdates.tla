------------------------------- MODULE OpcuaUpdates -------------------------------
(***************************************************************************)
(* An update and the bounded queue of them that every record bound to an   *)
(* OPC UA node owns, as operators (opcua/src/queue.rs).  An update's       *)
(* content stands for its reason, data, status and time stamp, which       *)
(* always move together.                                                   *)
(***************************************************************************)
EXTENDS Naturals, Sequences

CONSTANTS ClientQueueSize,   \* the link's cqsize
          DiscardOldest      \* the link's discard policy

ASSUME QueueAssumption == /\ ClientQueueSize \in Nat
                          /\ DiscardOldest \in BOOLEAN

\* UpdateQueue::new raises a capacity of 0 to 1.
Capacity == IF ClientQueueSize = 0 THEN 1 ELSE ClientQueueSize

NewUpdate(content) == [content |-> content, overrides |-> 0]

\* Mutant: neither `other` nor the losses it had counted are counted.
TakeOverForgetting(update, other) ==
  [content |-> other.content, overrides |-> update.overrides]

\* `other` is lost, its content wins.
TakeOverFrom(update, other) ==
  [content |-> other.content, overrides |-> update.overrides + other.overrides + 1]

\* Mutant: the update that counted the losses is not counted itself.
AbsorbLostShort(update, count) == [update EXCEPT !.overrides = @ + count]

\* `count` updates were lost ahead of this one, and the one that counted them.
AbsorbLost(update, count) == [update EXCEPT !.overrides = @ + count + 1]

\* Mutant: the place of the update that is given up goes to the new one.
PushFullInPlace(q, update) == [q EXCEPT ![1] = AbsorbLost(update, @.overrides)]

\* Mutant: a full queue gives up the new update.
PushFullIgnoring(q, update) == [q EXCEPT ![Len(q)] = AbsorbLost(@, 0)]

PushFull(q, update) ==
  IF DiscardOldest
    THEN IF Len(q) > 1
           THEN Append([Tail(q) EXCEPT ![1] = AbsorbLost(@, q[1].overrides)], update)
           ELSE <<AbsorbLost(update, q[1].overrides)>>
    ELSE [q EXCEPT ![Len(q)] = TakeOverFrom(@, update)]

\* Mutant: one update too many.
PushUpdatePast(q, update) ==
  IF Len(q) <= Capacity THEN Append(q, update) ELSE PushFull(q, update)

PushUpdate(q, update) ==
  IF Len(q) < Capacity THEN Append(q, update) ELSE PushFull(q, update)

\* What `push` returns: the record must be woken for this update.
WasFirst(q) == q = <<>>
================================================================================
