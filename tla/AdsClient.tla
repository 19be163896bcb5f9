-------------------------------- MODULE AdsClient -------------------------------
(***************************************************************************)
(* The ADS client (twincat-ads/src/ads/client.rs): threads that call       *)
(* `request` on one TCP connection, the table of the requests in flight,   *)
(* the reader thread that hands each answer to its caller, and the tear-   *)
(* down that the reader and `close` share.  Every step takes one lock, or  *)
(* none.  Notifications, which pass through the reader, are in AdsPort.    *)
(***************************************************************************)
EXTENDS Integers, Sequences, FiniteSets, Functions

CONSTANTS Callers,   \* the threads that share the client
          Nobody,    \* not a caller
          IdCount,   \* invoke ids: 2^32
          MaxCalls   \* bound on calls

ASSUME ClientAssumption ==
  IdCount \in Nat \ {0} /\ MaxCalls \in Nat /\ Nobody \notin Callers

Ids == 0 .. IdCount - 1
Calls == 1 .. MaxCalls
NoCall == 0
Frames == [id : Ids, call : Calls]

VARIABLES pc,         \* where each caller is in `request`
          call, id,   \* its call, numbered in the order they are made, and invoke id
          outcome,    \* what its last call ended with, until the next
          connected,  \* `Shared::connected`
          tx,         \* `Shared::tx` is Some
          writer,     \* who holds its lock
          nextId,     \* `Shared::next_invoke_id`
          pending,    \* `Shared::pending`: id -> the call whose channel it is
          inbox,      \* what each call's channel holds: what the call ends with
          made,       \* calls made
          link,       \* whether the reader can read on
          atPlc,      \* requests the PLC has not answered
          stream,     \* answers on their way
          reader,     \* where the reader thread is
          handing,    \* the channel it took out of the table, and whose answer it has
          closer,     \* where `close` is
          answered    \* history: the calls the PLC has answered

calls == <<pc, call, id, outcome, made>>
shared == <<connected, tx, writer, nextId, pending, inbox>>
wire == <<link, atPlc, stream, answered>>
threads == <<reader, handing, closer>>
vars == <<calls, shared, wire, threads>>

Nothing == [channel |-> NoCall, of |-> NoCall]
None == [kind |-> "none", call |-> NoCall]
Result(kind, n) == [kind |-> kind, call |-> n]

Init == /\ pc = [c \in Callers |-> "idle"]
        /\ call = [c \in Callers |-> NoCall]
        /\ id = [c \in Callers |-> 0]
        /\ outcome = [c \in Callers |-> None]
        /\ connected = TRUE /\ tx = TRUE /\ writer = Nobody
        /\ nextId = 1 % IdCount
        /\ pending = <<>>
        /\ inbox = [n \in Calls |-> None]
        /\ made = 0
        /\ link = "up" /\ atPlc = {} /\ stream = <<>>
        /\ reader = "reading" /\ handing = Nothing
        /\ closer = "open"
        /\ answered = {}

Without(i) == [j \in DOMAIN pending \ {i} |-> pending[j]]

--------------------------------------------------------------------------------
(***************************************************************************)
(* `AdsClient::request`.                                                   *)
(***************************************************************************)
Goes(c, from, to) == pc[c] = from /\ pc' = [pc EXCEPT ![c] = to]

\* The call of c returns; its channel goes with it.
Return(c, from, kind, n) ==
  /\ Goes(c, from, "idle")
  /\ outcome' = [outcome EXCEPT ![c] = Result(kind, n)]
  /\ inbox' = [inbox EXCEPT ![call[c]] = None]
  /\ call' = [call EXCEPT ![c] = NoCall]
  /\ id' = [id EXCEPT ![c] = 0]
  /\ UNCHANGED made

\* `close` has the client to itself.
Begin(c) ==
  /\ closer \in {"open", "closed"}
  /\ made < MaxCalls
  /\ Goes(c, "idle", "check")
  /\ made' = made + 1
  /\ call' = [call EXCEPT ![c] = made + 1]
  /\ outcome' = [outcome EXCEPT ![c] = None]
  /\ UNCHANGED <<id, shared, wire, threads>>

Numbered == {c \in Callers : pc[c] \notin {"idle", "check"}}
FramesUnderWay == atPlc \cup {stream[k] : k \in DOMAIN stream}
IdsInUse == {id[c] : c \in Numbered} \cup DOMAIN pending \cup {f.id : f \in FramesUnderWay}

\* Assumed of the PLC and the time-outs: nothing is left of a request when 2^32
\* later ones have been made.
Recycled(i) == i \notin IdsInUse

\* Mutant: the counter does not wrap.
NextIdUnwrapped == nextId + 1

NextId == (nextId + 1) % IdCount

Refused(c) ==
  /\ ~connected
  /\ Return(c, "check", "notConnected", call[c])
  /\ UNCHANGED <<connected, tx, writer, nextId, pending, wire, threads>>

TakeId(c) ==
  /\ connected
  /\ Goes(c, "check", "register")
  /\ Recycled(nextId)
  /\ id' = [id EXCEPT ![c] = nextId]
  /\ nextId' = NextId
  /\ UNCHANGED <<call, outcome, made, connected, tx, writer, pending, inbox, wire, threads>>

\* The slot is in the table before the request is sent.
Register(c) ==
  /\ Goes(c, "register", "send")
  /\ pending' = [i \in DOMAIN pending \cup {id[c]} |->
                   IF i = id[c] THEN call[c] ELSE pending[i]]
  /\ UNCHANGED <<call, id, outcome, made, connected, tx, writer, nextId, inbox, wire, threads>>

TakeSocket(c) ==
  /\ writer = Nobody /\ tx
  /\ Goes(c, "send", "sending")
  /\ writer' = c
  /\ UNCHANGED <<call, id, outcome, made, connected, tx, nextId, pending, inbox, wire, threads>>

NoSocket(c) ==
  /\ writer = Nobody /\ ~tx
  /\ Goes(c, "send", "withdraw")
  /\ UNCHANGED <<call, id, outcome, made, shared, wire, threads>>

\* On a link that is down the write may still seem to succeed.
Written(c) ==
  /\ Goes(c, "sending", "wait")
  /\ writer' = Nobody
  /\ atPlc' = IF link = "up" THEN atPlc \cup {[id |-> id[c], call |-> call[c]]} ELSE atPlc
  /\ UNCHANGED <<call, id, outcome, made, connected, tx, nextId, pending, inbox, link, stream,
                 answered, threads>>

WriteFails(c) ==
  /\ link = "down"
  /\ Goes(c, "sending", "withdrawIo")
  /\ writer' = Nobody
  /\ UNCHANGED <<call, id, outcome, made, connected, tx, nextId, pending, inbox, wire, threads>>

\* Mutant: the slot of a request that was not sent, or timed out, stays.
SlotKept(c) == pending

SlotDropped(c) == Without(id[c])

\* The slot of a request that was not sent is removed.
Withdraw(c) ==
  /\ \/ Return(c, "withdraw", "notConnected", call[c])
     \/ Return(c, "withdrawIo", "io", call[c])
  /\ pending' = SlotDropped(c)
  /\ UNCHANGED <<connected, tx, writer, nextId, wire, threads>>

Receive(c) ==
  /\ pc[c] = "wait" /\ inbox[call[c]] # None
  /\ Return(c, "wait", inbox[call[c]].kind, inbox[call[c]].call)
  /\ UNCHANGED <<connected, tx, writer, nextId, pending, wire, threads>>

Timeout(c) ==
  /\ Goes(c, "wait", "giveUp")
  /\ inbox[call[c]] = None
  /\ UNCHANGED <<call, id, outcome, made, shared, wire, threads>>

\* An answer handed over since the time-out is lost with the channel.
GiveUp(c) ==
  /\ Return(c, "giveUp", "timeout", call[c])
  /\ pending' = SlotDropped(c)
  /\ UNCHANGED <<connected, tx, writer, nextId, wire, threads>>

--------------------------------------------------------------------------------
(***************************************************************************)
(* The reader thread: `read_loop`, then the tear-down.                     *)
(***************************************************************************)
\* Mutant: answers are taken to come in the order of the requests.
SlotInOrder(f) == CHOOSE i \in DOMAIN pending : \A j \in DOMAIN pending :
                    pending[i] <= pending[j]

SlotOf(f) == f.id

\* The channel of the request that an answer is for is taken out of the table.
TakeChannel ==
  /\ reader = "reading" /\ stream # <<>>
  /\ LET f == Head(stream)
     IN  /\ f.id \in DOMAIN pending
         /\ handing' = [channel |-> pending[SlotOf(f)], of |-> f.call]
         /\ pending' = Without(SlotOf(f))
  /\ reader' = "handing"
  /\ stream' = Tail(stream)
  /\ UNCHANGED <<calls, connected, tx, writer, nextId, inbox, link, atPlc, answered, closer>>

\* An answer without a slot came too late.
TooLate ==
  /\ reader = "reading" /\ stream # <<>>
  /\ Head(stream).id \notin DOMAIN pending
  /\ stream' = Tail(stream)
  /\ UNCHANGED <<calls, shared, link, atPlc, answered, threads>>

\* The send to a caller that has given up is lost.
HandOver ==
  /\ reader = "handing"
  /\ reader' = "reading" /\ handing' = Nothing
  /\ inbox' = IF \E c \in Callers : call[c] = handing.channel
              THEN [inbox EXCEPT ![handing.channel] = Result("answer", handing.of)]
              ELSE inbox
  /\ UNCHANGED <<calls, connected, tx, writer, nextId, pending, wire, closer>>

LoopEnds == /\ reader = "reading"
            /\ reader' = "flag"
            /\ UNCHANGED <<calls, shared, wire, handing, closer>>

\* End of file or a socket error.
ReaderEnds == link = "down" /\ LoopEnds

\* A frame that cannot be one: what comes after it cannot be told apart, and the
\* link is still up.
Desynchronized == link = "up" /\ LoopEnds

\* `Shared::tear_down`: down, then the socket, then the waiters.
Flag == /\ connected' = FALSE
        /\ UNCHANGED <<tx, link, pending, inbox, writer, stream, atPlc>>

Shut == /\ writer = Nobody
        /\ tx' = FALSE
        /\ link' = IF tx THEN "down" ELSE link
        /\ UNCHANGED <<connected, pending, inbox, writer, stream, atPlc>>

Drain == /\ inbox' = [n \in Calls |-> IF n \in Range(pending) THEN Result("notConnected", n)
                                      ELSE inbox[n]]
         /\ pending' = <<>>
         /\ UNCHANGED <<connected, tx, link, writer, stream, atPlc>>

\* Mutant: the waiters are woken before the socket is taken away.
TearDownWakingFirst(at, next) ==
  \/ at = "flag" /\ Flag /\ next = "shut"
  \/ at = "shut" /\ Drain /\ next = "drain"
  \/ at = "drain" /\ Shut /\ next = "down"

\* Mutant: the socket is closed and its waiters left to their time-outs.
TearDownSilently(at, next) ==
  \/ at = "flag" /\ Flag /\ next = "shut"
  \/ at = "shut" /\ Shut /\ next = "down"

TearDown(at, next) ==
  \/ at = "flag" /\ Flag /\ next = "shut"
  \/ at = "shut" /\ Shut /\ next = "drain"
  \/ at = "drain" /\ Drain /\ next = "down"

\* After its tear-down the reader calls the disconnect handler and ends.
ReaderTearsDown ==
  /\ \E next \in {"shut", "drain", "down"} : TearDown(reader, next) /\ reader' = next
  /\ UNCHANGED <<calls, nextId, answered, handing, closer>>

\* `close` (and the drop of the client), which no call is in.
Close == /\ closer = "open" /\ \A c \in Callers : pc[c] = "idle"
         /\ closer' = "flag"
         /\ UNCHANGED <<calls, shared, wire, reader, handing>>

CloserTearsDown ==
  /\ \E next \in {"shut", "drain", "down"} : TearDown(closer, next) /\ closer' = next
  /\ UNCHANGED <<calls, nextId, answered, reader, handing>>

\* It joins the reader.
Closed == /\ closer = "down" /\ reader = "down"
          /\ closer' = "closed"
          /\ UNCHANGED <<calls, shared, wire, reader, handing>>

--------------------------------------------------------------------------------
(***************************************************************************)
(* The PLC and the network: answers in any order, or none, until the link  *)
(* is lost.  Nothing makes them send what cannot be a frame.               *)
(***************************************************************************)
Reply == /\ link = "up"
         /\ \E f \in atPlc : /\ atPlc' = atPlc \ {f}
                             /\ stream' = Append(stream, f)
                             /\ answered' = answered \cup {f.call}
         /\ UNCHANGED <<calls, shared, link, threads>>

\* What is in the receive buffer may still be read.
LinkLost == /\ link = "up"
            /\ link' = "down"
            /\ atPlc' = {}
            /\ UNCHANGED <<calls, shared, stream, answered, threads>>

--------------------------------------------------------------------------------
CallStep(c) == \/ Refused(c) \/ TakeId(c) \/ Register(c) \/ TakeSocket(c) \/ NoSocket(c)
               \/ Written(c) \/ WriteFails(c) \/ Withdraw(c) \/ Receive(c) \/ GiveUp(c)
Reader == TakeChannel \/ TooLate \/ HandOver \/ ReaderEnds \/ ReaderTearsDown
Closer == CloserTearsDown \/ Closed

Next == \/ \E c \in Callers : Begin(c) \/ CallStep(c) \/ Timeout(c)
        \/ Reader \/ Close \/ Closer
        \/ Desynchronized \/ Reply \/ LinkLost

Spec == Init /\ [][Next]_vars

\* Threads that can go on do, and TCP takes or refuses what is written.  No
\* time-out need ever fire and the PLC need not answer.
FairSpec == /\ Spec
            /\ \A c \in Callers : WF_vars(CallStep(c))
            /\ WF_vars(Reader) /\ WF_vars(Closer)

--------------------------------------------------------------------------------
(***************************************************************************)
(* Properties.                                                             *)
(***************************************************************************)
\* Every variable keeps its type.
TypeOK ==
  /\ pc \in [Callers -> {"idle", "check", "register", "send", "sending", "wait", "withdraw",
                          "withdrawIo", "giveUp"}]
  /\ call \in [Callers -> Calls \cup {NoCall}] /\ id \in [Callers -> Ids]
  /\ connected \in BOOLEAN /\ tx \in BOOLEAN /\ writer \in Callers \cup {Nobody}
  /\ nextId \in Ids /\ made \in 0 .. MaxCalls
  /\ DOMAIN pending \subseteq Ids /\ \A i \in DOMAIN pending : pending[i] \in Calls
  /\ link \in {"up", "down"} /\ atPlc \subseteq Frames /\ stream \in Seq(Frames)
  /\ reader \in {"reading", "handing", "flag", "shut", "drain", "down"}
  /\ closer \in {"open", "flag", "shut", "drain", "down", "closed"}
  /\ answered \subseteq Calls

\* A slot belongs to a call that still waits or is about to remove it: neither
\* an unsent request, nor a time-out, nor a late answer leaves one behind
\* (`request`: "Drop the slot, else a late response leaks it forever").
NoSlotLeaked ==
  \A i \in DOMAIN pending : \E c \in Numbered :
    pc[c] # "register" /\ id[c] = i /\ call[c] = pending[i]

\* Once the tear-down has woken the waiters nobody waits without a reason to
\* wake, the calls that were being sent meanwhile included (`tear_down`: "a
\* request blocked on `recv` must not sit there for its full timeout").
NoneStranded ==
  reader = "down" \/ closer \in {"down", "closed"} =>
    \A c \in Callers : pc[c] = "wait" =>
      \/ inbox[call[c]] # None
      \/ reader = "handing" /\ handing.channel = call[c]

\* A call whose link is lost ends although no time-out fires.
LossWakes == \A c \in Callers : link = "down" /\ pc[c] = "wait" ~> pc[c] # "wait"

\* Each call ends once, with its own answer, a time-out or the loss.
Promise == INSTANCE AdsCalls WITH
  lost <- link = "down" \/ ~connected,
  asking <- call
CallsSpec == Promise!Spec
================================================================================
