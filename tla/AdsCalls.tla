-------------------------------- MODULE AdsCalls --------------------------------
(***************************************************************************)
(* What the ADS client (twincat-ads/src/ads/client.rs) promises its        *)
(* callers: a call ends once, with the PLC's answer to that very call,     *)
(* with a time-out, or, only when the connection is lost, with an error    *)
(* that says so; a lost connection stays lost.                             *)
(***************************************************************************)
EXTENDS Naturals

CONSTANTS Callers, MaxCalls

Calls == 1 .. MaxCalls
NoCall == 0
Kinds == {"answer", "timeout", "notConnected", "io"}

VARIABLES lost,      \* the connection is lost
          made,      \* calls made so far
          asking,    \* each caller's call that has not ended
          answered,  \* calls the PLC has answered
          outcome    \* what each caller's last call ended with, until the next

vars == <<lost, made, asking, answered, outcome>>

None == [kind |-> "none", call |-> NoCall]

Init == /\ lost = FALSE
        /\ made = 0
        /\ asking = [c \in Callers |-> NoCall]
        /\ answered = {}
        /\ outcome = [c \in Callers |-> None]

Ask(c) == /\ asking[c] = NoCall
          /\ made < MaxCalls
          /\ made' = made + 1
          /\ asking' = [asking EXCEPT ![c] = made + 1]
          /\ outcome' = [outcome EXCEPT ![c] = None]
          /\ UNCHANGED <<lost, answered>>

Answer(n) == /\ n \in 1 .. made
             /\ answered' = answered \cup {n}
             /\ UNCHANGED <<lost, made, asking, outcome>>

End(c) == /\ asking[c] # NoCall
          /\ \E kind \in Kinds :
               /\ kind = "answer" => asking[c] \in answered
               /\ kind \in {"notConnected", "io"} => lost
               /\ outcome' = [outcome EXCEPT ![c] = [kind |-> kind, call |-> asking[c]]]
          /\ asking' = [asking EXCEPT ![c] = NoCall]
          /\ UNCHANGED <<lost, made, answered>>

Lose == /\ ~lost
        /\ lost' = TRUE
        /\ UNCHANGED <<made, asking, answered, outcome>>

Next == \/ \E c \in Callers : Ask(c) \/ End(c)
        \/ \E n \in Calls : Answer(n)
        \/ Lose

Spec == Init /\ [][Next]_vars
================================================================================
