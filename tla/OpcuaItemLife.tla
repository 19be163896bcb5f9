----------------------------- MODULE OpcuaItemLife -----------------------------
(***************************************************************************)
(* What a session promises about the states its records act on: they go    *)
(* through a connection together.  The initial read begins for every item  *)
(* at once; each item answers it in its own time; then every item is Up;   *)
(* an item whose monitored item is refused is Down until the next          *)
(* connection; and the connection ends for every item at once.             *)
(***************************************************************************)
CONSTANTS Items,
          Refusable     \* items that have a monitored item

VARIABLES session,      \* "Down", "InitialRead" or "Up"
          state         \* of each item

lifevars == <<session, state>>

Init == session = "Down" /\ state = [i \in Items |-> "Down"]

\* The session and every item go from one state to the next.
Together(from, to) == /\ session = from /\ session' = to
                      /\ state' = [i \in Items |-> to]

Begin == Together("Down", "InitialRead") /\ \A i \in Items : state[i] = "Down"

\* An item's own answer, with nothing to write or with the record's value.
Answer(i) == /\ session = "InitialRead"
             /\ state[i] = "InitialRead"
             /\ \E s \in {"Up", "InitialWrite"} : state' = [state EXCEPT ![i] = s]
             /\ UNCHANGED session

Finish == Together("InitialRead", "Up") /\ \A i \in Items : state[i] # "Down"

Refuse(i) == /\ session = "Up"
             /\ state[i] = "Up"
             /\ state' = [state EXCEPT ![i] = "Down"]
             /\ UNCHANGED session

Lose == Together("Up", "Down") /\ \A i \in Items : state[i] \in {"Up", "Down"}

Next == \/ Begin \/ Finish \/ Lose
        \/ \E i \in Items : Answer(i)
        \/ \E i \in Refusable : Refuse(i)

Spec == Init /\ [][Next]_lifevars
================================================================================
