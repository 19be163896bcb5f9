--------------------------- MODULE OpcuaLossyMailbox ---------------------------
(***************************************************************************)
(* What a record is promised about the updates its item queues for it,     *)
(* whatever the discard policy of its link: updates are numbered 1, 2, ... *)
(* in the order they are queued; a full mailbox gives up exactly one of    *)
(* them to a new one, and never the new one; the record takes the oldest   *)
(* update still there, and with it the number of updates it has missed     *)
(* since the one it took before.                                           *)
(***************************************************************************)
EXTENDS Naturals, FiniteSets

CONSTANTS Capacity,   \* updates the mailbox holds
          MaxPushes   \* bound on the updates queued in a behaviour

VARIABLES pushed,     \* number of the newest update queued so far
          survivors,  \* numbers of the updates that can still be taken
          taken       \* the update taken last, and the losses it reported

mvars == <<pushed, survivors, taken>>

Init == /\ pushed = 0
        /\ survivors = {}
        /\ taken = [content |-> 0, overrides |-> 0]

\* There is room: nothing is lost.
Store == /\ Cardinality(survivors) < Capacity
         /\ survivors' = survivors \cup {pushed + 1}

\* There is none: one older update makes way for the new one.
Displace == /\ Cardinality(survivors) = Capacity
            /\ \E lost \in survivors :
                 survivors' = (survivors \ {lost}) \cup {pushed + 1}

Push == /\ pushed < MaxPushes
        /\ pushed' = pushed + 1
        /\ Store \/ Displace
        /\ UNCHANGED taken

Take == \E n \in survivors :
          /\ \A m \in survivors : n <= m
          /\ survivors' = survivors \ {n}
          /\ taken' = [content |-> n, overrides |-> n - taken.content - 1]
          /\ UNCHANGED pushed

Next == Push \/ Take

Spec == Init /\ [][Next]_mvars
================================================================================
