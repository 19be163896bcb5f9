----------------------------- MODULE AdsClientProofs ----------------------------
(***************************************************************************)
(* Proofs about the ADS client, for any number of callers, calls and       *)
(* invoke ids.                                                             *)
(***************************************************************************)
EXTENDS AdsClient, TLAPS

Elements(s) == {s[k] : k \in DOMAIN s}
Results == [kind : {"none", "answer", "notConnected"}, call : Calls \cup {NoCall}]

Places == {"idle", "check", "register", "send", "sending", "wait", "withdraw", "withdrawIo",
           "giveUp"}
Outcomes == [kind : Promise!Kinds \cup {"none"}, call : Calls \cup {NoCall}]

\* Every variable keeps its type, the channels and what they are handed too.
CallsTyped == /\ pc \in [Callers -> Places]
              /\ call \in [Callers -> Calls \cup {NoCall}]
              /\ id \in [Callers -> Ids]
              /\ outcome \in [Callers -> Outcomes]
              /\ made \in 0 .. MaxCalls
TableTyped == /\ nextId \in Ids
              /\ DOMAIN pending \subseteq Ids
              /\ \A i \in DOMAIN pending : pending[i] \in Calls
InboxTyped == inbox \in [Calls -> Results]
SocketTyped == /\ connected \in BOOLEAN /\ tx \in BOOLEAN
               /\ writer \in Callers \cup {Nobody}
WireTyped == /\ link \in {"up", "down"}
             /\ atPlc \subseteq Frames /\ stream \in Seq(Frames)
             /\ answered \subseteq Calls
ThreadsTyped == /\ reader \in {"reading", "handing", "flag", "shut", "drain", "down"}
                /\ closer \in {"open", "flag", "shut", "drain", "down", "closed"}
                /\ handing \in [channel : Calls \cup {NoCall}, of : Calls \cup {NoCall}]
Typed == CallsTyped /\ TableTyped /\ InboxTyped /\ SocketTyped /\ WireTyped /\ ThreadsTyped

\* A caller has one call, the call one caller and, once numbered, one invoke id.
OneCallEach ==
  \A c \in Callers :
    /\ call[c] = NoCall <=> pc[c] = "idle"
    /\ call[c] <= made
    /\ \A d \in Callers : call[c] = call[d] /\ call[c] # NoCall => c = d

OneIdEach == \A c, d \in Numbered : id[c] = id[d] => c = d

\* What is on the wire with a caller's invoke id is of its call.
FramesAreOwn ==
  \A f \in FramesUnderWay :
    /\ f.call \in 1 .. made
    /\ \A c \in Numbered : id[c] = f.id => call[c] = f.call

StreamAnswered == \A f \in Elements(stream) : f.call \in answered

\* The channel the reader took out of the table is that of the call whose answer
\* it has.
HandsOwn ==
  /\ reader # "handing" => handing.channel = NoCall
  /\ reader = "handing" => /\ handing.channel = handing.of
                           /\ handing.of \in answered /\ handing.of \in 1 .. made

Lost == link = "down" \/ ~connected

\* A channel holds what its own call ends with.
InboxIsOwn ==
  \A n \in Calls : inbox[n] # None =>
    /\ n <= made /\ inbox[n].call = n
    /\ \/ inbox[n].kind = "answer" /\ n \in answered
       \/ inbox[n].kind = "notConnected" /\ Lost

\* A call that was handed something, or is about to be, has no slot left.
Served(c) == inbox[call[c]] # None \/ handing.channel = call[c]
ServedOnce ==
  \A c \in Callers : (call[c] # NoCall /\ Served(c)) =>
    c \in Numbered /\ pc[c] # "register" /\ id[c] \notin DOMAIN pending

\* A request that was registered has its slot until something is handed over.
Reaches ==
  \A c \in Numbered : pc[c] # "register" =>
    id[c] \in DOMAIN pending \/ Served(c)

\* The tear-down goes by its order, and a send holds the socket.
InOrder ==
  /\ reader \in {"shut", "drain", "down"} \/ closer \in {"shut", "drain", "down", "closed"}
       => ~connected
  /\ reader \in {"drain", "down"} \/ closer \in {"drain", "down", "closed"} => ~tx
  /\ ~tx => writer = Nobody /\ ~connected
  /\ \A c \in Callers : /\ pc[c] = "sending" <=> writer = c
                        /\ pc[c] = "withdraw" => ~connected
                        /\ pc[c] = "withdrawIo" => link = "down"

\* Once the waiters were woken, no slot is left of one that waits.
Woken ==
  reader = "down" \/ closer \in {"down", "closed"} =>
    \A c \in Callers : pc[c] = "wait" => id[c] \notin DOMAIN pending

Naming == OneCallEach /\ OneIdEach /\ FramesAreOwn /\ StreamAnswered
Slots == NoSlotLeaked /\ HandsOwn /\ InboxIsOwn /\ ServedOnce /\ Reaches
Ending == InOrder /\ Woken
ClientInv == Typed /\ Naming /\ Slots /\ Ending

--------------------------------------------------------------------------------
USE ClientAssumption

\* What is left of the stream was in it.
LEMMA TailIsLess ==
  ASSUME NEW S, NEW s \in Seq(S), s # <<>>
  PROVE  Elements(Tail(s)) \subseteq Elements(s)
BY DEF Elements

\* The client starts with no call, no slot and no connection.
LEMMA InitClient == Init => ClientInv
<1> SUFFICES ASSUME Init PROVE ClientInv
    OBVIOUS
<1>1. Typed
  <2>1. CallsTyped
    BY DEF Init, CallsTyped, Places, Outcomes, Ids, Calls, NoCall, None, Promise!Kinds
  <2>2. TableTyped
    BY DEF Init, TableTyped, Ids
  <2>3. InboxTyped /\ SocketTyped /\ WireTyped /\ ThreadsTyped
    BY DEF Init, InboxTyped, SocketTyped, WireTyped, ThreadsTyped, Results, Calls, NoCall, None,
       Nothing
  <2> QED BY <2>1, <2>2, <2>3 DEF Typed
<1>2. Naming
  BY DEF Init, Naming, OneCallEach, OneIdEach, FramesAreOwn, StreamAnswered, Numbered,
     FramesUnderWay, Elements, NoCall
<1>3. Slots
  BY DEF Init, Slots, NoSlotLeaked, HandsOwn, InboxIsOwn, ServedOnce, Served, Reaches, Numbered,
     Calls, NoCall,
     Nothing, None
<1>4. Ending
  BY DEF Init, Ending, InOrder, Woken
<1> QED BY <1>1, <1>2, <1>3, <1>4 DEF ClientInv

--------------------------------------------------------------------------------
(***************************************************************************)
(* What moving on and returning change.                                    *)
(***************************************************************************)
\* The invariant's types are the module's, and those of the channels.
LEMMA TypedIsTypeOK == Typed => TypeOK
BY DEF Typed, TypeOK, CallsTyped, TableTyped, SocketTyped, WireTyped, ThreadsTyped, Places

\* What a caller's move changes of where the callers are.
LEMMA GoesEffect ==
  ASSUME CallsTyped, NEW c \in Callers, NEW from, NEW to \in Places, Goes(c, from, to)
  PROVE  /\ pc[c] = from /\ pc'[c] = to
         /\ \A d \in Callers : d # c => pc'[d] = pc[d]
         /\ pc' \in [Callers -> Places]
BY DEF CallsTyped, Goes

\* A caller that returns (`request`) leaves its outcome, and its channel to nobody.
LEMMA ReturnEffect ==
  ASSUME CallsTyped, InboxTyped, OneCallEach, NEW c \in Callers, NEW from, from # "idle",
         NEW kind \in Promise!Kinds, NEW n \in Calls,
         Return(c, from, kind, n)
  PROVE  /\ pc[c] = from /\ pc'[c] = "idle" /\ call[c] \in Calls
         /\ call'[c] = NoCall
         /\ outcome'[c] = Result(kind, n)
         /\ \A d \in Callers : d # c =>
              pc'[d] = pc[d] /\ call'[d] = call[d] /\ id'[d] = id[d] /\ outcome'[d] = outcome[d]
         /\ inbox'[call[c]] = None
         /\ \A m \in Calls : m # call[c] => inbox'[m] = inbox[m]
         /\ made' = made
         /\ CallsTyped' /\ InboxTyped'
<1>1. pc[c] = from /\ pc' = [pc EXCEPT ![c] = "idle"]
  BY DEF Return, Goes
<1>2. call[c] \in Calls
  BY <1>1 DEF CallsTyped, OneCallEach
<1>3. Result(kind, n) \in Outcomes
  BY DEF Outcomes, Result
<1>4. None \in Results
  BY DEF None, Results, NoCall
<1>5. 0 \in Ids
  BY DEF Ids
<1>6. CallsTyped'
  BY <1>1, <1>3, <1>5 DEF CallsTyped, Return, Places
<1>7. InboxTyped'
  BY <1>2, <1>4 DEF InboxTyped, Return
<1> QED BY <1>1, <1>2, <1>6, <1>7 DEF Return, CallsTyped, InboxTyped

\* A caller that moves on after its request was registered.
Registered == Places \ {"idle", "check", "register"}
LEMMA MovesOn ==
  ASSUME ClientInv, NEW c \in Callers, NEW from \in Registered, NEW to \in Registered,
         Goes(c, from, to),
         UNCHANGED <<call, id, outcome, made, nextId, pending, inbox, answered, reader, handing>>,
         Lost => Lost'
  PROVE  /\ Numbered' = Numbered
         /\ CallsTyped' /\ TableTyped' /\ InboxTyped'
         /\ OneCallEach' /\ OneIdEach' /\ Slots'
<1> USE DEF ClientInv, Naming, Slots
<1>1. /\ pc[c] = from /\ pc'[c] = to
      /\ \A d \in Callers : d # c => pc'[d] = pc[d]
      /\ pc' \in [Callers -> Places]
  BY GoesEffect DEF Registered, Typed
<1>2. Numbered' = Numbered
  BY <1>1 DEF Numbered, Registered
<1>3. CallsTyped' /\ TableTyped' /\ InboxTyped'
  BY <1>1 DEF Typed, CallsTyped, TableTyped, InboxTyped
<1>4. OneCallEach' /\ OneIdEach'
  BY <1>1, <1>2 DEF OneCallEach, OneIdEach, Registered
<1>5. \A d \in Callers : pc[d] = "register" <=> pc'[d] = "register"
  BY <1>1 DEF Registered
<1>6. NoSlotLeaked'
  BY <1>2, <1>5 DEF NoSlotLeaked, Numbered
<1>7. HandsOwn' /\ InboxIsOwn'
  BY DEF HandsOwn, InboxIsOwn
<1>8. ServedOnce' /\ Reaches'
  BY <1>2, <1>5 DEF ServedOnce, Reaches, Served, Numbered
<1> QED BY <1>2, <1>3, <1>4, <1>6, <1>7, <1>8

\* A caller begins a request.
LEMMA BeginKeeps ==
  ASSUME ClientInv, NEW c \in Callers, Begin(c)
  PROVE  ClientInv'
<1> USE DEF ClientInv, Naming, Slots, Ending
<1>1. /\ pc[c] = "idle" /\ pc'[c] = "check"
      /\ \A d \in Callers : d # c => pc'[d] = pc[d]
      /\ pc' \in [Callers -> Places]
  BY GoesEffect DEF Begin, Typed, Places
<1>2. None \in Outcomes /\ made + 1 \in Calls
  BY DEF None, Outcomes, Calls, Begin, Typed, CallsTyped
<1>3. CallsTyped'
  <2>1. call' \in [Callers -> Calls \cup {NoCall}] /\ outcome' \in [Callers -> Outcomes]
    BY <1>2 DEF Typed, CallsTyped, Begin
  <2>2. made' \in 0 .. MaxCalls
    BY DEF Typed, CallsTyped, Begin
  <2> QED BY <1>1, <2>1, <2>2 DEF Typed, CallsTyped, Begin
<1>4. TableTyped'
  BY <1>1 DEF Typed, TableTyped, Begin, shared
<1>5. InboxTyped'
  BY <1>1 DEF Typed, InboxTyped, Begin, shared
<1>6. SocketTyped'
  BY <1>1 DEF Typed, SocketTyped, Begin, shared
<1>7. WireTyped'
  BY <1>1 DEF Typed, WireTyped, Begin, wire
<1>8. ThreadsTyped'
  BY <1>1 DEF Typed, ThreadsTyped, Begin, threads
<1>9. OneCallEach'
  BY <1>1 DEF Typed, CallsTyped, NoCall, Calls, OneCallEach, Begin
<1>10. OneIdEach'
  BY <1>1 DEF OneIdEach, Numbered, Begin
<1>11. FramesAreOwn'
  BY <1>1 DEF Typed, CallsTyped, FramesAreOwn, FramesUnderWay, Numbered, Begin, wire
<1>12. StreamAnswered'
  BY <1>1 DEF StreamAnswered, Begin, wire
<1>13. NoSlotLeaked'
  BY <1>1 DEF NoSlotLeaked, Numbered, Begin, shared
<1>14. HandsOwn'
  BY <1>1 DEF Typed, CallsTyped, HandsOwn, Begin, wire, threads
<1>15. InboxIsOwn'
  BY <1>1 DEF Typed, CallsTyped, Calls, InboxIsOwn, Lost, Begin, shared, wire
<1>16. ServedOnce'
  BY <1>1 DEF Typed, CallsTyped, Calls, ServedOnce, Served, HandsOwn, InboxIsOwn, Numbered,
     Begin, shared, threads
<1>17. Reaches'
  BY <1>1 DEF Reaches, Served, Numbered, Begin, shared, threads
<1>18. InOrder'
  BY <1>1 DEF InOrder, Begin, shared, wire, threads
<1>19. Woken'
  BY <1>1 DEF Woken, Begin, shared, threads
<1> QED BY <1>3, <1>4, <1>5, <1>6, <1>7, <1>8, <1>9, <1>10, <1>11, <1>12, <1>13, <1>14, <1>15,
       <1>16, <1>17, <1>18, <1>19 DEF Typed

\* A caller finds the connection lost and returns.
LEMMA RefusedKeeps ==
  ASSUME ClientInv, NEW c \in Callers, Refused(c)
  PROVE  ClientInv'
<1> USE DEF ClientInv, Naming, Slots, Ending
<1>1. "notConnected" \in Promise!Kinds /\ call[c] \in Calls
  BY DEF Refused, Typed, CallsTyped, OneCallEach, Promise!Kinds, Return, Goes
<1>2. /\ pc[c] = "check" /\ pc'[c] = "idle" /\ call[c] \in Calls
      /\ call'[c] = NoCall
      /\ \A d \in Callers : d # c =>
           pc'[d] = pc[d] /\ call'[d] = call[d] /\ id'[d] = id[d]
      /\ inbox'[call[c]] = None
      /\ \A m \in Calls : m # call[c] => inbox'[m] = inbox[m]
      /\ made' = made
      /\ CallsTyped' /\ InboxTyped'
  BY <1>1, ReturnEffect DEF Refused, Typed
<1>3. TableTyped'
  BY <1>2 DEF Typed, TableTyped, Refused
<1>4. SocketTyped'
  BY <1>2 DEF Typed, SocketTyped, Refused
<1>5. WireTyped'
  BY <1>2 DEF Typed, WireTyped, Refused, wire
<1>6. ThreadsTyped'
  BY <1>2 DEF Typed, ThreadsTyped, Refused, threads
<1>7. OneCallEach'
  BY <1>2 DEF CallsTyped, NoCall, OneCallEach
<1>8. OneIdEach'
  BY <1>2 DEF OneIdEach, Numbered
<1>9. FramesAreOwn'
  BY <1>2 DEF FramesAreOwn, FramesUnderWay, Numbered, Refused, wire
<1>10. StreamAnswered'
  BY <1>2 DEF StreamAnswered, Refused, wire
<1>11. NoSlotLeaked'
  BY <1>2 DEF NoSlotLeaked, Numbered, Refused
<1>12. HandsOwn'
  BY <1>2 DEF HandsOwn, Refused, wire, threads
<1>13. InboxIsOwn'
  BY <1>2 DEF InboxIsOwn, Lost, Refused, wire
<1>14. ServedOnce'
  BY <1>2 DEF CallsTyped, ServedOnce, Served, Numbered, Refused, threads
<1>15. Reaches'
  <2> SUFFICES ASSUME NEW d \in Numbered', pc'[d] # "register"
               PROVE  id'[d] \in DOMAIN pending' \/ Served(d)'
    BY DEF Reaches
  <2>1. d \in Numbered /\ d # c /\ pc[d] # "register" /\ id'[d] = id[d] /\ call'[d] = call[d]
    BY <1>2 DEF Numbered
  <2>2. call[d] \in Calls /\ call[d] # call[c]
    BY <1>2, <2>1 DEF Typed, CallsTyped, OneCallEach, Numbered
  <2>3. inbox'[call[d]] = inbox[call[d]]
    BY <1>2, <2>2
  <2>4. UNCHANGED <<pending, handing>>
    BY DEF Refused, threads
  <2>5. id[d] \in DOMAIN pending \/ Served(d)
    BY <2>1 DEF Reaches
  <2> QED BY <2>1, <2>3, <2>4, <2>5 DEF Served
<1>16. InOrder'
  BY <1>2 DEF InOrder, Refused, wire, threads
<1>17. Woken'
  BY <1>2 DEF Woken, Refused, threads
<1> QED BY <1>2, <1>3, <1>4, <1>5, <1>6, <1>7, <1>8, <1>9, <1>10, <1>11, <1>12, <1>13, <1>14,
       <1>15, <1>16, <1>17 DEF Typed

\* A caller takes an invoke id nothing is left of (`next_invoke_id`).
LEMMA TakeIdKeeps ==
  ASSUME ClientInv, NEW c \in Callers, TakeId(c)
  PROVE  ClientInv'
<1> USE DEF ClientInv, Naming, Slots, Ending
<1>1. /\ pc[c] = "check" /\ pc'[c] = "register"
      /\ \A d \in Callers : d # c => pc'[d] = pc[d]
      /\ pc' \in [Callers -> Places]
  BY GoesEffect DEF TakeId, Typed, Places
<1>2. CallsTyped'
  <2>1. id' \in [Callers -> Ids]
    BY DEF Typed, CallsTyped, TableTyped, TakeId
  <2> QED BY <1>1, <2>1 DEF Typed, CallsTyped, TakeId
<1>3. TableTyped'
  BY <1>1 DEF Typed, TableTyped, Ids, TakeId, NextId
<1>4. InboxTyped'
  BY <1>1 DEF Typed, InboxTyped, TakeId
<1>5. SocketTyped'
  BY <1>1 DEF Typed, SocketTyped, TakeId
<1>6. WireTyped'
  BY <1>1 DEF Typed, WireTyped, TakeId, wire
<1>7. ThreadsTyped'
  BY <1>1 DEF Typed, ThreadsTyped, TakeId, threads
<1>8. OneCallEach'
  BY <1>1 DEF OneCallEach, TakeId
<1>9. OneIdEach'
  BY <1>1 DEF Typed, CallsTyped, OneIdEach, Numbered, TakeId, Recycled, IdsInUse
<1>10. FramesAreOwn'
  BY <1>1 DEF Typed, CallsTyped, FramesAreOwn, FramesUnderWay, Numbered, TakeId, Recycled,
     IdsInUse, wire
<1>11. StreamAnswered'
  BY <1>1 DEF StreamAnswered, TakeId, wire
<1>12. NoSlotLeaked'
  BY <1>1 DEF NoSlotLeaked, Numbered, TakeId
<1>13. HandsOwn'
  BY <1>1 DEF HandsOwn, TakeId, wire, threads
<1>14. InboxIsOwn'
  BY <1>1 DEF InboxIsOwn, Lost, TakeId, wire
<1>15. ServedOnce'
  BY <1>1 DEF ServedOnce, Served, Numbered, TakeId, threads
<1>16. Reaches'
  BY <1>1 DEF Reaches, Served, Numbered, TakeId, threads
<1>17. InOrder'
  BY <1>1 DEF InOrder, TakeId, wire, threads
<1>18. Woken'
  BY <1>1 DEF Woken, TakeId, threads
<1> QED BY <1>2, <1>3, <1>4, <1>5, <1>6, <1>7, <1>8, <1>9, <1>10, <1>11, <1>12, <1>13, <1>14,
       <1>15, <1>16, <1>17, <1>18 DEF Typed

\* A caller puts its channel into the table.
LEMMA RegisterKeeps ==
  ASSUME ClientInv, NEW c \in Callers, Register(c)
  PROVE  ClientInv'
<1> USE DEF ClientInv, Naming, Slots, Ending
<1>1. /\ pc[c] = "register" /\ pc'[c] = "send"
      /\ \A d \in Callers : d # c => pc'[d] = pc[d]
      /\ pc' \in [Callers -> Places]
  BY GoesEffect DEF Register, Typed, Places
<1>2. CallsTyped'
  BY <1>1 DEF Typed, CallsTyped, Register
<1>3. TableTyped'
  BY <1>1 DEF Typed, TableTyped, CallsTyped, OneCallEach, Register
<1>4. InboxTyped'
  BY <1>1 DEF Typed, InboxTyped, Register
<1>5. SocketTyped'
  BY <1>1 DEF Typed, SocketTyped, Register
<1>6. WireTyped'
  BY <1>1 DEF Typed, WireTyped, Register, wire
<1>7. ThreadsTyped'
  BY <1>1 DEF Typed, ThreadsTyped, Register, threads
<1>8. OneCallEach'
  BY <1>1 DEF OneCallEach, Register
<1>9. OneIdEach'
  BY <1>1 DEF OneIdEach, Numbered, Register
<1>10. FramesAreOwn'
  BY <1>1 DEF FramesAreOwn, FramesUnderWay, Numbered, Register, wire
<1>11. StreamAnswered'
  BY <1>1 DEF StreamAnswered, Register, wire
<1>12. NoSlotLeaked'
  <2> SUFFICES ASSUME NEW i \in DOMAIN pending'
               PROVE  \E d \in Numbered' : pc'[d] # "register" /\ id'[d] = i
                                            /\ call'[d] = pending'[i]
    BY DEF NoSlotLeaked
  <2>1. CASE i = id[c]
    BY <1>1, <2>1 DEF Numbered, Register
  <2>2. CASE i # id[c]
    <3>1. PICK d \in Numbered : pc[d] # "register" /\ id[d] = i /\ call[d] = pending[i]
      BY <2>2 DEF NoSlotLeaked, Register
    <3>2. pc'[d] = pc[d] /\ pending'[i] = pending[i] /\ d \in Numbered'
      BY <1>1, <2>2, <3>1 DEF Numbered, Register
    <3> QED BY <3>1, <3>2 DEF Register
  <2> QED BY <2>1, <2>2
<1>13. HandsOwn'
  BY <1>1 DEF HandsOwn, Register, wire, threads
<1>14. InboxIsOwn'
  BY <1>1 DEF InboxIsOwn, Lost, Register, wire
<1>15. ServedOnce'
  BY <1>1 DEF ServedOnce, Served, OneIdEach, Numbered, Register, threads
<1>16. Reaches'
  BY <1>1 DEF Reaches, Served, Numbered, Register, threads
<1>17. InOrder'
  BY <1>1 DEF InOrder, Register, wire, threads
<1>18. Woken'
  BY <1>1 DEF Woken, OneIdEach, Numbered, Register, threads
<1> QED BY <1>2, <1>3, <1>4, <1>5, <1>6, <1>7, <1>8, <1>9, <1>10, <1>11, <1>12, <1>13, <1>14,
       <1>15, <1>16, <1>17, <1>18 DEF Typed

\* A caller takes the socket.
LEMMA TakeSocketKeeps ==
  ASSUME ClientInv, NEW c \in Callers, TakeSocket(c)
  PROVE  ClientInv'
<1> USE DEF ClientInv, Naming, Slots, Ending
<1>1. /\ pc[c] = "send" /\ pc'[c] = "sending"
      /\ \A d \in Callers : d # c => pc'[d] = pc[d]
      /\ pc' \in [Callers -> Places]
  BY GoesEffect DEF TakeSocket, Typed, Places
<1>2.  /\ Numbered' = Numbered
      /\ CallsTyped' /\ TableTyped' /\ InboxTyped'
      /\ OneCallEach' /\ OneIdEach' /\ Slots'
  BY MovesOn DEF TakeSocket, wire, threads, Registered, Places, Lost
<1>3. SocketTyped'
  BY <1>1, <1>2 DEF Typed, SocketTyped, TakeSocket
<1>4. WireTyped'
  BY <1>1, <1>2 DEF Typed, WireTyped, TakeSocket, wire
<1>5. ThreadsTyped'
  BY <1>1, <1>2 DEF Typed, ThreadsTyped, TakeSocket, threads
<1>6. FramesAreOwn'
  BY <1>1, <1>2 DEF FramesAreOwn, FramesUnderWay, TakeSocket, wire
<1>7. StreamAnswered'
  BY <1>1, <1>2 DEF StreamAnswered, TakeSocket, wire
<1>8. InOrder'
  BY <1>1, <1>2 DEF InOrder, TakeSocket, wire, threads
<1>9. Woken'
  BY <1>1, <1>2 DEF Woken, TakeSocket, threads
<1> QED BY <1>1, <1>2, <1>3, <1>4, <1>5, <1>6, <1>7, <1>8, <1>9 DEF Typed

\* A caller finds no socket and withdraws.
LEMMA NoSocketKeeps ==
  ASSUME ClientInv, NEW c \in Callers, NoSocket(c)
  PROVE  ClientInv'
<1> USE DEF ClientInv, Naming, Slots, Ending
<1>1. /\ pc[c] = "send" /\ pc'[c] = "withdraw"
      /\ \A d \in Callers : d # c => pc'[d] = pc[d]
      /\ pc' \in [Callers -> Places]
  BY GoesEffect DEF NoSocket, Typed, Places
<1>2.  /\ Numbered' = Numbered
      /\ CallsTyped' /\ TableTyped' /\ InboxTyped'
      /\ OneCallEach' /\ OneIdEach' /\ Slots'
  BY MovesOn DEF NoSocket, shared, wire, threads, Registered, Places, Lost
<1>3. SocketTyped'
  BY <1>1, <1>2 DEF Typed, SocketTyped, NoSocket, shared
<1>4. WireTyped'
  BY <1>1, <1>2 DEF Typed, WireTyped, NoSocket, wire
<1>5. ThreadsTyped'
  BY <1>1, <1>2 DEF Typed, ThreadsTyped, NoSocket, threads
<1>6. FramesAreOwn'
  BY <1>1, <1>2 DEF FramesAreOwn, FramesUnderWay, NoSocket, wire
<1>7. StreamAnswered'
  BY <1>1, <1>2 DEF StreamAnswered, NoSocket, wire
<1>8. InOrder'
  BY <1>1, <1>2 DEF InOrder, NoSocket, shared, wire
<1>9. Woken'
  BY <1>1, <1>2 DEF Woken, NoSocket, shared, threads
<1> QED BY <1>1, <1>2, <1>3, <1>4, <1>5, <1>6, <1>7, <1>8, <1>9 DEF Typed

\* A frame goes out to the PLC.
LEMMA WrittenKeeps ==
  ASSUME ClientInv, NEW c \in Callers, Written(c)
  PROVE  ClientInv'
<1> USE DEF ClientInv, Naming, Slots, Ending
<1>1. /\ pc[c] = "sending" /\ pc'[c] = "wait"
      /\ \A d \in Callers : d # c => pc'[d] = pc[d]
      /\ pc' \in [Callers -> Places]
  BY GoesEffect DEF Written, Typed, Places
<1>2.  /\ Numbered' = Numbered
      /\ CallsTyped' /\ TableTyped' /\ InboxTyped'
      /\ OneCallEach' /\ OneIdEach' /\ Slots'
  BY MovesOn DEF Written, threads, Registered, Places, Lost
<1>3. SocketTyped'
  BY <1>1, <1>2 DEF Typed, SocketTyped, Written
<1>4. [id |-> id[c], call |-> call[c]] \in Frames
  BY <1>1 DEF Frames, Typed, CallsTyped, OneCallEach
<1>5. WireTyped'
  BY <1>4 DEF Typed, WireTyped, Written
<1>6. ThreadsTyped'
  BY <1>1, <1>2 DEF Typed, ThreadsTyped, Written, threads
<1>7. FramesAreOwn'
  <2> DEFINE own == [id |-> id[c], call |-> call[c]]
  <2>1. FramesUnderWay' \subseteq FramesUnderWay \cup {own}
    BY DEF FramesUnderWay, Written
  <2>2. own.call \in 1 .. made /\ \A d \in Numbered : id[d] = own.id => call[d] = own.call
    BY <1>1 DEF Typed, CallsTyped, OneCallEach, OneIdEach, Numbered, Calls
  <2> HIDE DEF own
  <2> QED BY <1>2, <2>1, <2>2 DEF FramesAreOwn, Written
<1>8. StreamAnswered'
  BY <1>1, <1>2 DEF StreamAnswered, Written
<1>9. InOrder'
  BY <1>1, <1>2 DEF InOrder, Written, threads
<1>10. Woken'
  BY <1>1, <1>2 DEF Woken, InOrder, Written, threads
<1> QED BY <1>1, <1>2, <1>3, <1>5, <1>6, <1>7, <1>8, <1>9, <1>10 DEF Typed

\* A frame is not written; the caller withdraws.
LEMMA WriteFailsKeeps ==
  ASSUME ClientInv, NEW c \in Callers, WriteFails(c)
  PROVE  ClientInv'
<1> USE DEF ClientInv, Naming, Slots, Ending
<1>1. /\ pc[c] = "sending" /\ pc'[c] = "withdrawIo"
      /\ \A d \in Callers : d # c => pc'[d] = pc[d]
      /\ pc' \in [Callers -> Places]
  BY GoesEffect DEF WriteFails, Typed, Places
<1>2.  /\ Numbered' = Numbered
      /\ CallsTyped' /\ TableTyped' /\ InboxTyped'
      /\ OneCallEach' /\ OneIdEach' /\ Slots'
  BY MovesOn DEF WriteFails, wire, threads, Registered, Places, Lost
<1>3. SocketTyped'
  BY <1>1, <1>2 DEF Typed, SocketTyped, WriteFails
<1>4. WireTyped'
  BY <1>1, <1>2 DEF Typed, WireTyped, WriteFails, wire
<1>5. ThreadsTyped'
  BY <1>1, <1>2 DEF Typed, ThreadsTyped, WriteFails, threads
<1>6. FramesAreOwn'
  BY <1>1, <1>2 DEF FramesAreOwn, FramesUnderWay, WriteFails, wire
<1>7. StreamAnswered'
  BY <1>1, <1>2 DEF StreamAnswered, WriteFails, wire
<1>8. InOrder'
  BY <1>1, <1>2 DEF InOrder, WriteFails, wire, threads
<1>9. Woken'
  BY <1>1, <1>2 DEF Woken, WriteFails, threads
<1> QED BY <1>1, <1>2, <1>3, <1>4, <1>5, <1>6, <1>7, <1>8, <1>9 DEF Typed

\* A caller takes what its channel holds and returns.
LEMMA ReceiveKeeps ==
  ASSUME ClientInv, NEW c \in Callers, Receive(c)
  PROVE  ClientInv'
<1> USE DEF ClientInv, Naming, Slots, Ending
<1>1. inbox[call[c]].kind \in Promise!Kinds /\ inbox[call[c]].call \in Calls
  BY DEF Receive, Typed, CallsTyped, OneCallEach, InboxIsOwn, Promise!Kinds
<1>2. /\ pc[c] = "wait" /\ pc'[c] = "idle" /\ call[c] \in Calls
      /\ call'[c] = NoCall
      /\ \A d \in Callers : d # c =>
           pc'[d] = pc[d] /\ call'[d] = call[d] /\ id'[d] = id[d]
      /\ inbox'[call[c]] = None
      /\ \A m \in Calls : m # call[c] => inbox'[m] = inbox[m]
      /\ made' = made
      /\ CallsTyped' /\ InboxTyped'
  BY <1>1, ReturnEffect DEF Receive, Typed
<1>3. TableTyped'
  BY <1>2 DEF Typed, TableTyped, Receive
<1>4. SocketTyped'
  BY <1>2 DEF Typed, SocketTyped, Receive
<1>5. WireTyped'
  BY <1>2 DEF Typed, WireTyped, Receive, wire
<1>6. ThreadsTyped'
  BY <1>2 DEF Typed, ThreadsTyped, Receive, threads
<1>7. OneCallEach'
  BY <1>2 DEF CallsTyped, NoCall, OneCallEach
<1>8. OneIdEach'
  BY <1>2 DEF OneIdEach, Numbered
<1>9. FramesAreOwn'
  BY <1>2 DEF FramesAreOwn, FramesUnderWay, Numbered, Receive, wire
<1>10. StreamAnswered'
  BY <1>2 DEF StreamAnswered, Receive, wire
<1>11. NoSlotLeaked'
  BY <1>2 DEF NoSlotLeaked, ServedOnce, Served, OneCallEach, Numbered, Receive
<1>12. HandsOwn'
  BY <1>2 DEF HandsOwn, Receive, wire, threads
<1>13. InboxIsOwn'
  BY <1>2 DEF InboxIsOwn, Lost, Receive, wire
<1>14. ServedOnce'
  BY <1>2 DEF CallsTyped, ServedOnce, Served, Numbered, Receive, threads
<1>15. Reaches'
  BY <1>2 DEF CallsTyped, Reaches, Served, OneCallEach, Numbered, Receive, threads
<1>16. InOrder'
  BY <1>2 DEF InOrder, Receive, wire, threads
<1>17. Woken'
  BY <1>2 DEF Woken, Receive, threads
<1> QED BY <1>2, <1>3, <1>4, <1>5, <1>6, <1>7, <1>8, <1>9, <1>10, <1>11, <1>12, <1>13, <1>14,
       <1>15, <1>16, <1>17 DEF Typed

\* A caller whose time is over takes its slot away and returns.
LEMMA GiveUpKeeps ==
  ASSUME ClientInv, NEW c \in Callers, GiveUp(c)
  PROVE  ClientInv'
<1> USE DEF ClientInv, Naming, Slots, Ending
<1>1. "timeout" \in Promise!Kinds /\ call[c] \in Calls
  BY DEF GiveUp, Typed, CallsTyped, OneCallEach, Promise!Kinds, Return, Goes
<1>2. /\ pc[c] = "giveUp" /\ pc'[c] = "idle" /\ call[c] \in Calls
      /\ call'[c] = NoCall
      /\ \A d \in Callers : d # c =>
           pc'[d] = pc[d] /\ call'[d] = call[d] /\ id'[d] = id[d]
      /\ inbox'[call[c]] = None
      /\ \A m \in Calls : m # call[c] => inbox'[m] = inbox[m]
      /\ made' = made
      /\ CallsTyped' /\ InboxTyped'
  BY <1>1, ReturnEffect DEF GiveUp, Typed
<1>3. TableTyped'
  BY <1>2 DEF Typed, TableTyped, GiveUp, SlotDropped, Without
<1>4. SocketTyped'
  BY <1>2 DEF Typed, SocketTyped, GiveUp
<1>5. WireTyped'
  BY <1>2 DEF Typed, WireTyped, GiveUp, wire
<1>6. ThreadsTyped'
  BY <1>2 DEF Typed, ThreadsTyped, GiveUp, threads
<1>7. OneCallEach'
  BY <1>2 DEF CallsTyped, NoCall, OneCallEach
<1>8. OneIdEach'
  BY <1>2 DEF OneIdEach, Numbered
<1>9. FramesAreOwn'
  BY <1>2 DEF FramesAreOwn, FramesUnderWay, Numbered, GiveUp, wire, threads
<1>10. StreamAnswered'
  BY <1>2 DEF StreamAnswered, GiveUp, wire
<1>11. NoSlotLeaked'
  BY <1>2 DEF NoSlotLeaked, Numbered, GiveUp, SlotDropped, Without
<1>12. HandsOwn'
  BY <1>2 DEF HandsOwn, GiveUp, wire, threads
<1>13. InboxIsOwn'
  BY <1>2 DEF InboxIsOwn, Lost, GiveUp, wire
<1>14. ServedOnce'
  BY <1>2 DEF CallsTyped, ServedOnce, Served, Numbered, GiveUp, SlotDropped, Without, threads
<1>15. Reaches'
  BY <1>2 DEF CallsTyped, Reaches, Served, OneCallEach, OneIdEach, Numbered, GiveUp,
     SlotDropped, Without, threads
<1>16. InOrder'
  BY <1>2 DEF InOrder, GiveUp, wire, threads
<1>17. Woken'
  BY <1>2 DEF Woken, GiveUp, SlotDropped, Without, threads
<1> QED BY <1>2, <1>3, <1>4, <1>5, <1>6, <1>7, <1>8, <1>9, <1>10, <1>11, <1>12, <1>13, <1>14,
       <1>15, <1>16, <1>17 DEF Typed

\* A caller's time is over.
LEMMA TimeoutKeeps ==
  ASSUME ClientInv, NEW c \in Callers, Timeout(c)
  PROVE  ClientInv'
<1> USE DEF ClientInv, Naming, Slots, Ending
<1>1. /\ pc[c] = "wait" /\ pc'[c] = "giveUp"
      /\ \A d \in Callers : d # c => pc'[d] = pc[d]
      /\ pc' \in [Callers -> Places]
  BY GoesEffect DEF Timeout, Typed, Places
<1>2.  /\ Numbered' = Numbered
      /\ CallsTyped' /\ TableTyped' /\ InboxTyped'
      /\ OneCallEach' /\ OneIdEach' /\ Slots'
  BY MovesOn DEF Timeout, shared, wire, threads, Registered, Places, Lost
<1>3. SocketTyped'
  BY <1>1, <1>2 DEF Typed, SocketTyped, Timeout, shared
<1>4. WireTyped'
  BY <1>1, <1>2 DEF Typed, WireTyped, Timeout, wire
<1>5. ThreadsTyped'
  BY <1>1, <1>2 DEF Typed, ThreadsTyped, Timeout, threads
<1>6. FramesAreOwn'
  BY <1>1, <1>2 DEF FramesAreOwn, FramesUnderWay, Timeout, wire
<1>7. StreamAnswered'
  BY <1>1, <1>2 DEF StreamAnswered, Timeout, wire
<1>8. InOrder'
  BY <1>1, <1>2 DEF InOrder, Timeout, shared, wire, threads
<1>9. Woken'
  BY <1>1, <1>2 DEF Woken, Timeout, shared, threads
<1> QED BY <1>1, <1>2, <1>3, <1>4, <1>5, <1>6, <1>7, <1>8, <1>9 DEF Typed

\* The reader takes the channel of the answer's id out of the table (`read_loop`).
LEMMA TakeChannelKeeps ==
  ASSUME ClientInv, TakeChannel
  PROVE  ClientInv'
<1> USE DEF ClientInv, Naming, Slots, Ending
<1>1. CallsTyped'
  BY DEF Typed, CallsTyped, TakeChannel, calls
<1>2. TableTyped'
  BY DEF Typed, TableTyped, TakeChannel, Without
<1>3. InboxTyped'
  BY DEF Typed, InboxTyped, TakeChannel
<1>4. SocketTyped'
  BY DEF Typed, SocketTyped, TakeChannel
<1>5. WireTyped'
  BY DEF Typed, WireTyped, TakeChannel
<1>6. Head(stream) \in Frames
  BY DEF TakeChannel, Typed, WireTyped
<1>7. ThreadsTyped'
  BY <1>6 DEF Typed, ThreadsTyped, TableTyped, TakeChannel, SlotOf, Frames
<1>8. OneCallEach'
  BY DEF OneCallEach, TakeChannel, calls
<1>9. OneIdEach'
  BY DEF OneIdEach, Numbered, TakeChannel, calls
<1>10. FramesAreOwn'
  BY DEF Typed, WireTyped, FramesAreOwn, FramesUnderWay, Numbered, TakeChannel, calls
<1>11. StreamAnswered'
  BY DEF Typed, WireTyped, StreamAnswered, Elements, TakeChannel
<1>12. NoSlotLeaked'
  BY DEF NoSlotLeaked, Numbered, TakeChannel, Without, calls
<1>13. HandsOwn'
  <2> DEFINE f == Head(stream)
  <2>1. f \in Elements(stream) /\ f \in FramesUnderWay
    BY DEF Elements, FramesUnderWay, TakeChannel, Typed, WireTyped
  <2>2. PICK d \in Numbered : id[d] = f.id /\ call[d] = pending[f.id]
    BY DEF NoSlotLeaked, TakeChannel
  <2>3. pending[f.id] = f.call /\ f.call \in 1 .. made /\ f.call \in answered
    BY <2>1, <2>2 DEF FramesAreOwn, StreamAnswered
  <2>4. handing' = [channel |-> pending[f.id], of |-> f.call]
    BY DEF TakeChannel, SlotOf
  <2> HIDE DEF f
  <2> QED BY <2>3, <2>4 DEF HandsOwn, TakeChannel, calls
<1>14. InboxIsOwn'
  BY DEF InboxIsOwn, Lost, TakeChannel, calls
<1>15. ServedOnce'
  BY DEF ServedOnce, Served, NoSlotLeaked, OneCallEach, Numbered, TakeChannel, SlotOf, Without,
     calls
<1>16. Reaches'
  <2> SUFFICES ASSUME NEW c \in Numbered, pc[c] # "register"
               PROVE  id[c] \in DOMAIN pending' \/ Served(c)'
    BY DEF Reaches, Numbered, TakeChannel, calls
  <2> DEFINE i == Head(stream).id
  <2>1. i \in DOMAIN pending /\ pending' = Without(i) /\ handing'.channel = pending[i]
    BY DEF TakeChannel, SlotOf
  <2>2. handing.channel # call[c]
    BY DEF HandsOwn, TakeChannel, Numbered, OneCallEach
  <2>3. UNCHANGED <<call, inbox>>
    BY DEF TakeChannel, calls
  <2> HIDE DEF i
  <2>4. CASE id[c] = i
    <3>1. pending[i] = call[c]
      BY <2>1, <2>4 DEF NoSlotLeaked, OneIdEach
    <3> QED BY <2>1, <2>3, <3>1 DEF Served
  <2>5. CASE id[c] # i
    BY <2>1, <2>2, <2>3, <2>5 DEF Reaches, Served, Without
  <2> QED BY <2>4, <2>5
<1>17. InOrder'
  BY DEF InOrder, TakeChannel, calls
<1>18. Woken'
  BY DEF Woken, TakeChannel, Without, calls
<1> QED BY <1>1, <1>2, <1>3, <1>4, <1>5, <1>7, <1>8, <1>9, <1>10, <1>11, <1>12, <1>13, <1>14,
       <1>15, <1>16, <1>17, <1>18 DEF Typed

\* The reader drops an answer nobody waits for.
LEMMA TooLateKeeps ==
  ASSUME ClientInv, TooLate
  PROVE  ClientInv'
<1> USE DEF ClientInv, Naming, Slots, Ending
<1>1. CallsTyped'
  BY DEF Typed, CallsTyped, TooLate, calls
<1>2. TableTyped'
  BY DEF Typed, TableTyped, TooLate, shared
<1>3. InboxTyped'
  BY DEF Typed, InboxTyped, TooLate, shared
<1>4. SocketTyped'
  BY DEF Typed, SocketTyped, TooLate, shared
<1>5. WireTyped'
  BY DEF Typed, WireTyped, TooLate
<1>6. ThreadsTyped'
  BY DEF Typed, ThreadsTyped, TooLate, threads
<1>7. OneCallEach'
  BY DEF OneCallEach, TooLate, calls
<1>8. OneIdEach'
  BY DEF OneIdEach, Numbered, TooLate, calls
<1>9. FramesAreOwn'
  BY DEF FramesAreOwn, FramesUnderWay, Numbered, TooLate, calls
<1>10. StreamAnswered'
  <2>1. Elements(stream') \subseteq Elements(stream)
    BY TailIsLess DEF Typed, WireTyped, TooLate
  <2> QED BY <2>1 DEF StreamAnswered, TooLate
<1>11. NoSlotLeaked'
  BY DEF NoSlotLeaked, Numbered, TooLate, calls, shared
<1>12. HandsOwn'
  BY DEF HandsOwn, TooLate, threads
<1>13. InboxIsOwn'
  BY DEF InboxIsOwn, Lost, TooLate, calls, shared
<1>14. ServedOnce'
  BY DEF ServedOnce, Served, Numbered, TooLate, calls, shared, threads
<1>15. Reaches'
  BY DEF Reaches, Served, Numbered, TooLate, calls, shared, threads
<1>16. InOrder'
  BY DEF InOrder, TooLate, calls, shared, threads
<1>17. Woken'
  BY DEF Woken, TooLate, calls, shared, threads
<1> QED BY <1>1, <1>2, <1>3, <1>4, <1>5, <1>6, <1>7, <1>8, <1>9, <1>10, <1>11, <1>12, <1>13,
       <1>14, <1>15, <1>16, <1>17 DEF Typed

\* The reader hands the answer to the channel it took.
LEMMA HandOverKeeps ==
  ASSUME ClientInv, HandOver
  PROVE  ClientInv'
<1> USE DEF ClientInv, Naming, Slots, Ending
<1>1. CallsTyped'
  BY DEF Typed, CallsTyped, HandOver, calls
<1>2. TableTyped'
  BY DEF Typed, TableTyped, HandOver
<1>3. Result("answer", handing.of) \in Results
  BY DEF Result, Results, Typed, ThreadsTyped
<1>4. InboxTyped'
  BY <1>3 DEF Typed, InboxTyped, HandOver
<1>5. SocketTyped'
  BY DEF Typed, SocketTyped, HandOver
<1>6. WireTyped'
  BY DEF Typed, WireTyped, HandOver, wire
<1>7. ThreadsTyped'
  BY DEF Typed, ThreadsTyped, Nothing, HandOver
<1>8. OneCallEach'
  BY DEF OneCallEach, HandOver, calls
<1>9. OneIdEach'
  BY DEF OneIdEach, Numbered, HandOver, calls
<1>10. FramesAreOwn'
  BY DEF FramesAreOwn, FramesUnderWay, Numbered, HandOver, calls, wire
<1>11. StreamAnswered'
  BY DEF StreamAnswered, HandOver, wire
<1>12. NoSlotLeaked'
  BY DEF NoSlotLeaked, Numbered, HandOver, calls
<1>13. HandsOwn'
  BY DEF HandsOwn, Nothing, HandOver
<1>14. InboxIsOwn'
  BY DEF InboxIsOwn, HandsOwn, Lost, Result, HandOver, calls, wire
<1>15. ServedOnce'
  BY DEF ServedOnce, Served, Numbered, Nothing, HandOver, calls
<1>16. Reaches'
  BY DEF Typed, CallsTyped, InboxTyped, Reaches, Served, Numbered, None, Nothing, Result,
     HandOver, calls
<1>17. InOrder'
  BY DEF InOrder, HandOver, calls, wire
<1>18. Woken'
  BY DEF Woken, HandOver, calls
<1> QED BY <1>1, <1>2, <1>4, <1>5, <1>6, <1>7, <1>8, <1>9, <1>10, <1>11, <1>12, <1>13, <1>14,
       <1>15, <1>16, <1>17, <1>18 DEF Typed

\* The reader finds the connection lost, or no frame.
LEMMA LoopEndsKeeps ==
  ASSUME ClientInv, LoopEnds
  PROVE  ClientInv'
<1> USE DEF ClientInv, Naming, Slots, Ending
<1>1. CallsTyped'
  BY DEF Typed, CallsTyped, LoopEnds, calls
<1>2. TableTyped'
  BY DEF Typed, TableTyped, LoopEnds, shared
<1>3. InboxTyped'
  BY DEF Typed, InboxTyped, LoopEnds, shared
<1>4. SocketTyped'
  BY DEF Typed, SocketTyped, LoopEnds, shared
<1>5. WireTyped'
  BY DEF Typed, WireTyped, LoopEnds, wire
<1>6. ThreadsTyped'
  BY DEF Typed, ThreadsTyped, LoopEnds
<1>7. OneCallEach'
  BY DEF OneCallEach, LoopEnds, calls
<1>8. OneIdEach'
  BY DEF OneIdEach, Numbered, LoopEnds, calls
<1>9. FramesAreOwn'
  BY DEF FramesAreOwn, FramesUnderWay, Numbered, LoopEnds, calls, wire
<1>10. StreamAnswered'
  BY DEF StreamAnswered, LoopEnds, wire
<1>11. NoSlotLeaked'
  BY DEF NoSlotLeaked, Numbered, LoopEnds, calls, shared
<1>12. HandsOwn'
  BY DEF HandsOwn, LoopEnds
<1>13. InboxIsOwn'
  BY DEF InboxIsOwn, Lost, LoopEnds, calls, shared, wire
<1>14. ServedOnce'
  BY DEF ServedOnce, Served, Numbered, LoopEnds, calls, shared
<1>15. Reaches'
  BY DEF Reaches, Served, Numbered, LoopEnds, calls, shared
<1>16. InOrder'
  BY DEF InOrder, LoopEnds, calls, shared, wire
<1>17. Woken'
  BY DEF Woken, LoopEnds, calls, shared
<1> QED BY <1>1, <1>2, <1>3, <1>4, <1>5, <1>6, <1>7, <1>8, <1>9, <1>10, <1>11, <1>12, <1>13,
       <1>14, <1>15, <1>16, <1>17 DEF Typed

\* The client is closed (`close`).
LEMMA CloseKeeps ==
  ASSUME ClientInv, Close
  PROVE  ClientInv'
<1> USE DEF ClientInv, Naming, Slots, Ending
<1>1. CallsTyped'
  BY DEF Typed, CallsTyped, Close, calls
<1>2. TableTyped'
  BY DEF Typed, TableTyped, Close, shared
<1>3. InboxTyped'
  BY DEF Typed, InboxTyped, Close, shared
<1>4. SocketTyped'
  BY DEF Typed, SocketTyped, Close, shared
<1>5. WireTyped'
  BY DEF Typed, WireTyped, Close, wire
<1>6. ThreadsTyped'
  BY DEF Typed, ThreadsTyped, Close
<1>7. OneCallEach'
  BY DEF OneCallEach, Close, calls
<1>8. OneIdEach'
  BY DEF OneIdEach, Numbered, Close, calls
<1>9. FramesAreOwn'
  BY DEF FramesAreOwn, FramesUnderWay, Numbered, Close, calls, wire
<1>10. StreamAnswered'
  BY DEF StreamAnswered, Close, wire
<1>11. NoSlotLeaked'
  BY DEF NoSlotLeaked, Numbered, Close, shared
<1>12. HandsOwn'
  BY DEF HandsOwn, Close, calls, wire
<1>13. InboxIsOwn'
  BY DEF InboxIsOwn, Lost, Close, calls, shared, wire
<1>14. ServedOnce'
  BY DEF ServedOnce, OneCallEach, Close, calls
<1>15. Reaches'
  BY DEF Reaches, Numbered, Close, calls
<1>16. InOrder'
  BY DEF InOrder, Close, calls, shared
<1>17. Woken'
  BY DEF Woken, Close, calls
<1> QED BY <1>1, <1>2, <1>3, <1>4, <1>5, <1>6, <1>7, <1>8, <1>9, <1>10, <1>11, <1>12, <1>13,
       <1>14, <1>15, <1>16, <1>17 DEF Typed

\* The thread that closes has joined the reader.
LEMMA ClosedKeeps ==
  ASSUME ClientInv, Closed
  PROVE  ClientInv'
<1> USE DEF ClientInv, Naming, Slots, Ending
<1>1. CallsTyped'
  BY DEF Typed, CallsTyped, Closed, calls
<1>2. TableTyped'
  BY DEF Typed, TableTyped, Closed, shared
<1>3. InboxTyped'
  BY DEF Typed, InboxTyped, Closed, shared
<1>4. SocketTyped'
  BY DEF Typed, SocketTyped, Closed, shared
<1>5. WireTyped'
  BY DEF Typed, WireTyped, Closed, wire
<1>6. ThreadsTyped'
  BY DEF Typed, ThreadsTyped, Closed
<1>7. OneCallEach'
  BY DEF OneCallEach, Closed, calls
<1>8. OneIdEach'
  BY DEF OneIdEach, Numbered, Closed, calls
<1>9. FramesAreOwn'
  BY DEF FramesAreOwn, FramesUnderWay, Numbered, Closed, calls, wire
<1>10. StreamAnswered'
  BY DEF StreamAnswered, Closed, wire
<1>11. NoSlotLeaked'
  BY DEF NoSlotLeaked, Numbered, Closed, calls, shared
<1>12. HandsOwn'
  BY DEF HandsOwn, Closed
<1>13. InboxIsOwn'
  BY DEF InboxIsOwn, Lost, Closed, calls, shared, wire
<1>14. ServedOnce'
  BY DEF ServedOnce, Served, Numbered, Closed, calls, shared
<1>15. Reaches'
  BY DEF Reaches, Served, Numbered, Closed, calls, shared
<1>16. InOrder'
  BY DEF InOrder, Closed, calls, shared, wire
<1>17. Woken'
  BY DEF Woken, Closed, calls, shared
<1> QED BY <1>1, <1>2, <1>3, <1>4, <1>5, <1>6, <1>7, <1>8, <1>9, <1>10, <1>11, <1>12, <1>13,
       <1>14, <1>15, <1>16, <1>17 DEF Typed

\* The PLC answers a frame.
LEMMA ReplyKeeps ==
  ASSUME ClientInv, Reply
  PROVE  ClientInv'
<1> USE DEF ClientInv, Naming, Slots, Ending
<1>1. CallsTyped'
  BY DEF Typed, CallsTyped, Reply, calls
<1>2. TableTyped'
  BY DEF Typed, TableTyped, Reply, shared
<1>3. InboxTyped'
  BY DEF Typed, InboxTyped, Reply, shared
<1>4. SocketTyped'
  BY DEF Typed, SocketTyped, Reply, shared
<1>5. PICK f \in atPlc : /\ atPlc' = atPlc \ {f}
                        /\ stream' = Append(stream, f)
                        /\ answered' = answered \cup {f.call}
  BY DEF Reply
<1>6. WireTyped'
  BY <1>5 DEF Typed, WireTyped, Frames, Reply
<1>7. ThreadsTyped'
  BY <1>5 DEF Typed, ThreadsTyped, Reply, threads
<1>8. OneCallEach'
  BY <1>5 DEF OneCallEach, Reply, calls
<1>9. OneIdEach'
  BY <1>5 DEF OneIdEach, Numbered, Reply, calls
<1>10. FramesAreOwn'
  BY <1>5 DEF FramesAreOwn, FramesUnderWay, Numbered, Reply, calls
<1>11. StreamAnswered'
  BY <1>5 DEF StreamAnswered, Elements
<1>12. NoSlotLeaked'
  BY <1>5 DEF NoSlotLeaked, Numbered, Reply, calls, shared
<1>13. HandsOwn'
  BY <1>5 DEF HandsOwn, Reply, calls, threads
<1>14. InboxIsOwn'
  BY <1>5 DEF InboxIsOwn, Lost, Reply, calls, shared
<1>15. ServedOnce'
  BY <1>5 DEF ServedOnce, Served, Numbered, Reply, calls, shared, threads
<1>16. Reaches'
  BY <1>5 DEF Reaches, Served, Numbered, Reply, calls, shared, threads
<1>17. InOrder'
  BY <1>5 DEF InOrder, Reply, calls, shared, threads
<1>18. Woken'
  BY <1>5 DEF Woken, Reply, calls, shared, threads
<1> QED BY <1>1, <1>2, <1>3, <1>4, <1>6, <1>7, <1>8, <1>9, <1>10, <1>11, <1>12, <1>13, <1>14,
       <1>15, <1>16, <1>17, <1>18 DEF Typed

\* The connection is lost, with what was on its way.
LEMMA LinkLostKeeps ==
  ASSUME ClientInv, LinkLost
  PROVE  ClientInv'
<1> USE DEF ClientInv, Naming, Slots, Ending
<1>1. CallsTyped'
  BY DEF Typed, CallsTyped, LinkLost, calls
<1>2. TableTyped'
  BY DEF Typed, TableTyped, LinkLost, shared
<1>3. InboxTyped'
  BY DEF Typed, InboxTyped, LinkLost, shared
<1>4. SocketTyped'
  BY DEF Typed, SocketTyped, LinkLost, shared
<1>5. WireTyped'
  BY DEF Typed, WireTyped, LinkLost
<1>6. ThreadsTyped'
  BY DEF Typed, ThreadsTyped, LinkLost, threads
<1>7. OneCallEach'
  BY DEF OneCallEach, LinkLost, calls
<1>8. OneIdEach'
  BY DEF OneIdEach, Numbered, LinkLost, calls
<1>9. FramesAreOwn'
  BY DEF FramesAreOwn, FramesUnderWay, Numbered, LinkLost, calls
<1>10. StreamAnswered'
  BY DEF StreamAnswered, LinkLost
<1>11. NoSlotLeaked'
  BY DEF NoSlotLeaked, Numbered, LinkLost, calls, shared
<1>12. HandsOwn'
  BY DEF HandsOwn, LinkLost, calls, threads
<1>13. InboxIsOwn'
  BY DEF InboxIsOwn, Lost, LinkLost, calls, shared
<1>14. ServedOnce'
  BY DEF ServedOnce, Served, Numbered, LinkLost, calls, shared, threads
<1>15. Reaches'
  BY DEF Reaches, Served, Numbered, LinkLost, calls, shared, threads
<1>16. InOrder'
  BY DEF InOrder, LinkLost, calls, shared, threads
<1>17. Woken'
  BY DEF Woken, LinkLost, calls, shared, threads
<1> QED BY <1>1, <1>2, <1>3, <1>4, <1>5, <1>6, <1>7, <1>8, <1>9, <1>10, <1>11, <1>12, <1>13,
       <1>14, <1>15, <1>16, <1>17 DEF Typed

\* A caller that could not send takes its slot away and returns.
LEMMA WithdrawKeeps ==
  ASSUME ClientInv, NEW c \in Callers, Withdraw(c)
  PROVE  ClientInv'
<1> USE DEF ClientInv, Naming, Slots, Ending
<1>0. PICK from \in {"withdraw", "withdrawIo"}, kind \in {"notConnected", "io"} :
         Return(c, from, kind, call[c])
  BY DEF Withdraw
<1>1. kind \in Promise!Kinds /\ call[c] \in Calls
  BY <1>0 DEF Typed, CallsTyped, OneCallEach, Promise!Kinds, Return, Goes
<1>2. /\ pc[c] = from /\ pc'[c] = "idle" /\ call[c] \in Calls
      /\ call'[c] = NoCall
      /\ \A d \in Callers : d # c =>
           pc'[d] = pc[d] /\ call'[d] = call[d] /\ id'[d] = id[d]
      /\ inbox'[call[c]] = None
      /\ \A m \in Calls : m # call[c] => inbox'[m] = inbox[m]
      /\ made' = made
      /\ CallsTyped' /\ InboxTyped'
  <2>1. CallsTyped /\ InboxTyped /\ OneCallEach /\ from # "idle"
    BY <1>0 DEF Typed
  <2> QED BY <1>0, <1>1, <2>1, ReturnEffect
<1>3. TableTyped'
  BY <1>2 DEF Typed, TableTyped, Withdraw, SlotDropped, Without
<1>4. SocketTyped'
  BY <1>2 DEF Typed, SocketTyped, Withdraw
<1>5. WireTyped'
  BY <1>2 DEF Typed, WireTyped, Withdraw, wire
<1>6. ThreadsTyped'
  BY <1>2 DEF Typed, ThreadsTyped, Withdraw, threads
<1>7. OneCallEach'
  BY <1>2 DEF OneCallEach, NoCall, CallsTyped
<1>8. OneIdEach'
  BY <1>2 DEF OneIdEach, Numbered
<1>9. FramesAreOwn'
  <2>1. Numbered' \subseteq Numbered /\ \A d \in Numbered' : id'[d] = id[d] /\ call'[d] = call[d]
    BY <1>2 DEF Numbered
  <2>2. FramesUnderWay' = FramesUnderWay
    BY DEF FramesUnderWay, Withdraw, wire
  <2> QED BY <1>2, <2>1, <2>2 DEF FramesAreOwn
<1>10. StreamAnswered'
  BY <1>2 DEF StreamAnswered, Withdraw, wire
<1>11. NoSlotLeaked'
  BY <1>2 DEF Typed, CallsTyped, NoSlotLeaked, Numbered, Withdraw, SlotDropped, Without
<1>12. HandsOwn'
  BY <1>2 DEF HandsOwn, Withdraw, wire, threads
<1>13. InboxIsOwn'
  BY <1>2 DEF InboxIsOwn, Lost, Withdraw, wire
<1>14. ServedOnce'
  BY <1>2 DEF CallsTyped, ServedOnce, Served, Numbered, Withdraw, SlotDropped, Without, threads
<1>15. Reaches'
  BY <1>2 DEF CallsTyped, Reaches, Served, OneCallEach, OneIdEach, Numbered, Withdraw,
     SlotDropped, Without, threads
<1>16. InOrder'
  BY <1>2 DEF InOrder, Withdraw, wire, threads
<1>17. Woken'
  BY <1>2 DEF Woken, Withdraw, SlotDropped, Without, threads
<1> QED BY <1>2, <1>3, <1>4, <1>5, <1>6, <1>7, <1>8, <1>9, <1>10, <1>11, <1>12, <1>13, <1>14,
       <1>15, <1>16, <1>17 DEF Typed


\* What a tear-down puts into a channel.
LEMMA WokenWith ==
  \A n : /\ Result("notConnected", n) # None
         /\ Result("notConnected", n).call = n
         /\ Result("notConnected", n).kind = "notConnected"
<1> QED BY DEF Result, None

\* The flag, the socket, the drain of the table (`tear_down`), by either thread.
LEMMA TearDownKeeps ==
  ASSUME ClientInv, ReaderTearsDown \/ CloserTearsDown
  PROVE  ClientInv'
<1> USE DEF ClientInv, Naming, Slots, Ending
<1>1. /\ UNCHANGED <<calls, nextId, answered, handing, writer, stream, atPlc>>
      /\ Flag \/ Shut \/ Drain
      /\ reader # reader' \/ closer # closer'
  BY DEF ReaderTearsDown, CloserTearsDown, TearDown, Flag, Shut, Drain
<1>2. reader = "handing" <=> reader' = "handing"
  BY DEF ReaderTearsDown, CloserTearsDown, TearDown
<1>3. Numbered' = Numbered /\ (Lost => Lost')
  BY <1>1 DEF Numbered, calls, Lost, Flag, Shut, Drain, Typed, SocketTyped, WireTyped
<1>4. Typed'
  <2>1. CallsTyped' /\ WireTyped' /\ SocketTyped'
    BY <1>1 DEF Typed, CallsTyped, WireTyped, SocketTyped, calls, Flag, Shut, Drain
  <2>2. ThreadsTyped'
    BY <1>1 DEF Typed, ThreadsTyped, ReaderTearsDown, CloserTearsDown
  <2>3. TableTyped'
    BY <1>1 DEF Typed, TableTyped, Flag, Shut, Drain
  <2>4. \A n \in Calls : Result("notConnected", n) \in Results
    BY DEF Result, Results
  <2>5. InboxTyped'
    BY <1>1, <2>4 DEF Typed, InboxTyped, Flag, Shut, Drain
  <2> QED BY <2>1, <2>2, <2>3, <2>5 DEF Typed
<1>5. Naming'
  BY <1>1, <1>3 DEF OneCallEach, OneIdEach, FramesAreOwn, FramesUnderWay, StreamAnswered,
     Elements,
     calls
<1>6. HandsOwn'
  BY <1>1, <1>2 DEF HandsOwn, calls
<1>7. CASE (ReaderTearsDown /\ reader = "drain") \/ (CloserTearsDown /\ closer = "drain")
  <2>0. Drain
    BY <1>7 DEF ReaderTearsDown, CloserTearsDown, TearDown
  <2>1. /\ pending' = <<>> /\ DOMAIN pending' = {}
        /\ \A n \in Calls : inbox'[n] = IF n \in Range(pending) THEN Result("notConnected", n)
                                         ELSE inbox[n]
    BY <2>0 DEF Drain
  <2>2. Lost
    BY <1>7 DEF InOrder, Lost
  <2>3. \A n \in Range(pending) : \E c \in Numbered : call[c] = n /\ pc[c] # "register"
    BY DEF NoSlotLeaked, Range
  <2>4. NoSlotLeaked'
    BY <2>1 DEF NoSlotLeaked
  <2>5. InboxIsOwn'
    <3> SUFFICES ASSUME NEW n \in Calls, inbox'[n] # None
                 PROVE  /\ n <= made /\ inbox'[n].call = n
                        /\ \/ inbox'[n].kind = "answer" /\ n \in answered
                           \/ inbox'[n].kind = "notConnected" /\ Lost'
      BY <1>1 DEF InboxIsOwn, calls
    <3>1. CASE n \in Range(pending)
      <4>1. n <= made
        BY <2>3, <3>1 DEF OneCallEach, Numbered
      <4>2. inbox'[n].call = n /\ inbox'[n].kind = "notConnected"
        BY <2>1, <3>1, WokenWith
      <4> QED BY <1>3, <2>2, <4>1, <4>2
    <3>2. CASE n \notin Range(pending)
      BY <1>3, <2>1, <3>2 DEF InboxIsOwn
    <3> QED BY <3>1, <3>2
  <2>6. ServedOnce'
    BY <1>1, <1>3, <2>1, <2>3 DEF ServedOnce, Served, OneCallEach, Numbered, calls, Typed,
       CallsTyped
  <2>7. Reaches'
    <3> SUFFICES ASSUME NEW c \in Numbered, pc[c] # "register"
                 PROVE  Served(c)'
      BY <1>1, <1>3 DEF Reaches, calls
    <3>1. CASE id[c] \in DOMAIN pending
      <4>1. pending[id[c]] = call[c]
        BY <3>1 DEF NoSlotLeaked, OneIdEach
      <4>2. call[c] \in Range(pending) /\ call[c] \in Calls
        BY <3>1, <4>1 DEF Range, Typed, TableTyped
      <4>3. inbox'[call[c]] # None
        BY <2>1, <4>2, WokenWith
      <4> QED BY <1>1, <4>3 DEF Served, calls
    <3>2. CASE Served(c) /\ id[c] \notin DOMAIN pending
      <4>1. call[c] \in Calls
        BY DEF Numbered, Typed, CallsTyped, OneCallEach
      <4>2. inbox[call[c]] # None => inbox'[call[c]] # None
        BY <2>1, <4>1, WokenWith
      <4> QED BY <1>1, <3>2, <4>2 DEF Served, calls
    <3> QED BY <3>1, <3>2 DEF Reaches
  <2>8. Ending'
    <3>1. UNCHANGED <<connected, tx, link, writer, pc>>
      BY <1>1, <2>0 DEF Drain, calls
    <3>2. ~connected /\ ~tx
      BY <1>7 DEF InOrder
    <3>3. InOrder'
      BY <3>1, <3>2 DEF InOrder
    <3>4. Woken'
      BY <2>1 DEF Woken
    <3> QED BY <3>3, <3>4
  <2> QED BY <1>4, <1>5, <1>6, <2>4, <2>5, <2>6, <2>7, <2>8
<1>8. CASE ~(ReaderTearsDown /\ reader = "drain") /\ ~(CloserTearsDown /\ closer = "drain")
  <2>0. Flag \/ Shut
    BY <1>8 DEF ReaderTearsDown, CloserTearsDown, TearDown
  <2>1. UNCHANGED <<pending, inbox>>
    BY <2>0 DEF Flag, Shut
  <2>2. NoSlotLeaked' /\ InboxIsOwn' /\ ServedOnce' /\ Reaches'
    BY <1>1, <1>3, <2>1 DEF NoSlotLeaked, InboxIsOwn, ServedOnce, Served, Reaches, calls,
       Numbered
  <2>3. InOrder'
    BY <1>1, <1>8 DEF InOrder, calls, ReaderTearsDown, CloserTearsDown, TearDown, Flag, Shut,
       Drain, Typed, SocketTyped
  <2>4. Woken'
    BY <1>1, <2>1, <1>8 DEF Woken, calls, ReaderTearsDown, CloserTearsDown, TearDown, Flag,
       Shut, Drain
  <2> QED BY <1>4, <1>5, <1>6, <2>2, <2>3, <2>4
<1> QED BY <1>1, <1>7, <1>8

--------------------------------------------------------------------------------
\* Every step keeps the invariant.
LEMMA ClientStep == ClientInv /\ [Next]_vars => ClientInv'
<1> SUFFICES ASSUME ClientInv, [Next]_vars PROVE ClientInv'
    OBVIOUS
<1>1. ASSUME NEW c \in Callers, Begin(c) \/ CallStep(c) \/ Timeout(c) PROVE ClientInv'
  BY <1>1, BeginKeeps, RefusedKeeps, TakeIdKeeps, RegisterKeeps, TakeSocketKeeps, NoSocketKeeps,
     WrittenKeeps, WriteFailsKeeps, WithdrawKeeps, ReceiveKeeps, GiveUpKeeps, TimeoutKeeps
  DEF CallStep
<1>2. CASE Reader \/ Close \/ Closer \/ Desynchronized
  BY <1>2, TakeChannelKeeps, TooLateKeeps, HandOverKeeps, LoopEndsKeeps, TearDownKeeps,
     CloseKeeps, ClosedKeeps DEF Reader, ReaderEnds, Desynchronized, Closer
<1>3. CASE Reply \/ LinkLost
  BY <1>3, ReplyKeeps, LinkLostKeeps
<1>4. CASE UNCHANGED vars
  BY <1>4 DEF vars, calls, shared, wire, threads, ClientInv, Typed, CallsTyped, TableTyped,
     InboxTyped,
     SocketTyped, WireTyped, ThreadsTyped, Naming, OneCallEach, OneIdEach, FramesAreOwn,
     StreamAnswered,
     FramesUnderWay, Elements, Numbered, Slots, NoSlotLeaked, HandsOwn, InboxIsOwn, ServedOnce,
     Served,
     Reaches, Ending, InOrder, Woken, Lost
<1> QED BY <1>1, <1>2, <1>3, <1>4 DEF Next

\* The invariant holds of every behaviour: names, slots and the tear-down's order.
THEOREM ClientIsSafe == Spec => []ClientInv
<1> QED BY InitClient, ClientStep, PTL DEF Spec

\* The client's types, for any number of callers, calls and invoke ids.
THEOREM ClientTypeCorrect == Spec => []TypeOK
<1>1. ClientInv => TypeOK
  BY TypedIsTypeOK DEF ClientInv
<1> QED BY <1>1, ClientIsSafe, PTL

\* No slot outlives its request (`request`, the slot dropped on every way out).
THEOREM SlotsAreDropped == Spec => []NoSlotLeaked
<1>1. ClientInv => NoSlotLeaked
  BY DEF ClientInv, Slots
<1> QED BY <1>1, ClientIsSafe, PTL

\* Nobody is left waiting by a tear-down (`tear_down`).
THEOREM TearDownStrandsNobody == Spec => []NoneStranded
<1>1. ClientInv => NoneStranded
  <2> SUFFICES ASSUME ClientInv, reader = "down" \/ closer \in {"down", "closed"},
                      NEW c \in Callers, pc[c] = "wait"
               PROVE  inbox[call[c]] # None \/ (reader = "handing" /\ handing.channel = call[c])
    BY DEF NoneStranded
  <2>1. c \in Numbered /\ pc[c] # "register" /\ call[c] # NoCall
    BY DEF Numbered, ClientInv, Naming, OneCallEach
  <2>2. Served(c)
    BY <2>1 DEF ClientInv, Ending, Woken, Slots, Reaches
  <2> QED BY <2>1, <2>2 DEF Served, ClientInv, Slots, HandsOwn
<1> QED BY <1>1, ClientIsSafe, PTL

--------------------------------------------------------------------------------
(***************************************************************************)
(* The client implements AdsCalls.                                         *)
(***************************************************************************)
\* The client starts as the promise does.
LEMMA InitCalls == Init => Promise!Init
BY DEF Init, Promise!Init, NoCall, Promise!NoCall, None, Promise!None

\* A call that returns ends with what it may end with.
LEMMA ReturnEnds ==
  ASSUME ClientInv, NEW c \in Callers, NEW from, from # "idle", NEW kind \in Promise!Kinds,
         Return(c, from, kind, call[c]),
         kind = "answer" => call[c] \in answered, kind \in {"notConnected", "io"} => Lost,
         Lost' = Lost, answered' = answered
  PROVE  Promise!End(c)
<1>1. pc[c] = from /\ call[c] # NoCall /\ call[c] \in Calls
  BY DEF Return, Goes, ClientInv, Naming, OneCallEach, Typed, CallsTyped
<1>2. /\ outcome' = [outcome EXCEPT ![c] = [kind |-> kind, call |-> call[c]]]
      /\ call' = [call EXCEPT ![c] = NoCall] /\ made' = made
  BY DEF Return, Result
<1> QED BY <1>1, <1>2 DEF Promise!End, NoCall, Promise!NoCall, Lost

\* Every step is the promise's, or none of its.
LEMMA CallsStep == ClientInv /\ [Next]_vars => [Promise!Next]_(Promise!vars)
<1> SUFFICES ASSUME ClientInv, [Next]_vars PROVE [Promise!Next]_(Promise!vars)
    OBVIOUS
<1> USE DEF ClientInv
<1>1. ASSUME NEW c \in Callers, Begin(c) PROVE Promise!Ask(c)
  BY <1>1 DEF Begin, Goes, Promise!Ask, Naming, OneCallEach, NoCall, Promise!NoCall, None,
     Promise!None, shared, wire, threads
<1>2. ASSUME NEW c \in Callers, Refused(c) PROVE Promise!End(c)
  BY <1>2, ReturnEnds DEF Refused, wire, Lost, Promise!Kinds
<1>3. ASSUME NEW c \in Callers, Withdraw(c) PROVE Promise!End(c)
  BY <1>3, ReturnEnds DEF Withdraw, wire, Lost, Promise!Kinds, Ending, InOrder, Return, Goes
<1>4. ASSUME NEW c \in Callers, Receive(c) PROVE Promise!End(c)
  <2>1. call[c] \in Calls /\ inbox[call[c]] # None
    BY <1>4 DEF Receive, Naming, OneCallEach, Typed, CallsTyped
  <2>2. /\ inbox[call[c]].call = call[c]
        /\ \/ inbox[call[c]].kind = "answer" /\ call[c] \in answered
           \/ inbox[call[c]].kind = "notConnected" /\ Lost
    BY <2>1 DEF Slots, InboxIsOwn
  <2> QED BY <1>4, <2>2, ReturnEnds DEF Receive, wire, Lost, Promise!Kinds
<1>5. ASSUME NEW c \in Callers, GiveUp(c) PROVE Promise!End(c)
  BY <1>5, ReturnEnds DEF GiveUp, wire, Lost, Promise!Kinds
<1>6. ASSUME NEW c \in Callers,
             TakeId(c) \/ Register(c) \/ TakeSocket(c) \/ NoSocket(c) \/ Written(c)
             \/ WriteFails(c) \/ Timeout(c)
      PROVE  UNCHANGED Promise!vars
  BY <1>6 DEF TakeId, Register, TakeSocket, NoSocket, Written, WriteFails, Timeout,
     Promise!vars,
     calls, shared, wire, threads
<1>7. CASE \/ TakeChannel \/ TooLate \/ HandOver \/ ReaderEnds \/ Desynchronized
           \/ Close \/ Closed
  BY <1>7 DEF TakeChannel, TooLate, HandOver, ReaderEnds, Desynchronized, LoopEnds, Close,
     Closed, Promise!vars, calls, shared, wire, threads
<1>8. CASE ReaderTearsDown \/ CloserTearsDown
  <2>1. UNCHANGED <<made, call, answered, outcome>>
    BY <1>8 DEF ReaderTearsDown, CloserTearsDown, calls
  <2>2. Lost => Lost'
    BY <1>8 DEF Lost, ReaderTearsDown, CloserTearsDown, TearDown, Flag, Shut, Drain, Typed,
       SocketTyped, WireTyped
  <2> QED BY <2>1, <2>2 DEF Promise!vars, Promise!Next, Promise!Lose, Lost
<1>9. CASE Reply
  <2>1. PICK f \in atPlc : answered' = answered \cup {f.call}
    BY <1>9 DEF Reply
  <2>2. f.call \in 1 .. made /\ f.call \in Calls
    BY DEF Naming, FramesAreOwn, FramesUnderWay, Typed, CallsTyped, Calls
  <2>3. Promise!Answer(f.call)
    BY <1>9, <2>1, <2>2 DEF Reply, Promise!Answer, calls, shared, threads
  <2> QED BY <2>2, <2>3 DEF Promise!Next, Promise!Calls, Calls
<1>10. CASE LinkLost
  BY <1>10 DEF LinkLost, calls, shared, threads, Promise!vars, Promise!Next, Promise!Lose
<1>11. CASE UNCHANGED vars
  BY <1>11 DEF vars, calls, shared, wire, threads, Promise!vars
<1>12. ASSUME NEW c \in Callers, Promise!Ask(c) \/ Promise!End(c) PROVE Promise!Next
  BY <1>12 DEF Promise!Next
<1> QED BY <1>1, <1>2, <1>3, <1>4, <1>5, <1>6, <1>7, <1>8, <1>9, <1>10, <1>11, <1>12
    DEF Next, CallStep, Reader, Closer

\* Every call ends once, with its own answer, a time-out or the loss of the
\* connection, however many callers share the client and in whatever order
\* answers come.
THEOREM CallsGetTheirOwn == Spec => CallsSpec
<1> QED BY InitCalls, CallsStep, ClientIsSafe, PTL DEF Spec, CallsSpec, Promise!Spec
================================================================================
