------------------------------ MODULE OpcuaBatcher ------------------------------
(***************************************************************************)
(* How the worker of a connected session gathers the requests of records   *)
(* into service calls (opcua/src/session.rs: `serve`, `next_flush`,        *)
(* `flush`, `take_batch` and the limits): three priority queues for reads  *)
(* and three for writes, node limits of the server and of the options, and *)
(* the hold-off before a batch, on a clock that ticks.  Requests are       *)
(* numbered in the order they are made; kind and priority are chosen then. *)
(* The worker does what is due before time passes; a service call may take *)
(* any time.                                                               *)
(***************************************************************************)
EXTENDS Naturals, SequencesExt

CONSTANTS ServerReadNodes, ServerWriteNodes,    \* the server's limits, 0 for none
          SessionReadNodes, SessionWriteNodes,  \* the options read/write-nodes-max
          MinHoldOff, MaxHoldOff,               \* read-timeout-min and -max, in ticks
          CheckInterval,                        \* CONNECTIVITY_CHECK_INTERVAL, in ticks
          MaxAsked                              \* bound on the requests made

ASSUME BatcherAssumption ==
  /\ {ServerReadNodes, ServerWriteNodes, SessionReadNodes, SessionWriteNodes,
      MinHoldOff, MaxHoldOff, MaxAsked} \subseteq Nat
  /\ CheckInterval \in Nat \ {0}

Priorities == 0 .. 2
Kinds == {"read", "write"}

VARIABLES asked,      \* every request made: its kind and priority
          commands,   \* numbers of the requests the worker has not taken
          queues,     \* numbers of those it has, by kind and priority
          calling,    \* the requests of the service call under way
          sent,       \* numbers of the requests sent so far
          timer,      \* ticks until `flush_at`
          check,      \* ticks until the connectivity check
          checking    \* whether the answer to one is awaited

bvars == <<asked, commands, queues, calling, sent, timer, check, checking>>

--------------------------------------------------------------------------------
\* `node_limit`: the smaller of two limits, or whichever is set.
NodeLimit(server, session) ==
  IF server = 0 \/ session = 0 THEN server + session
  ELSE IF server < session THEN server ELSE session

\* `batch_size`: no limit at all is a batch of everything there can be.
BatchSize(server, session) ==
  IF NodeLimit(server, session) = 0 THEN 2 * MaxAsked + 2 ELSE NodeLimit(server, session)

AtLeastOne(n) == IF n = 0 THEN 1 ELSE n

\* Mutant: a read is taken for one node per item.
ReadLimitInNodes == AtLeastOne(BatchSize(ServerReadNodes, SessionReadNodes))

\* `read_limit`, `write_limit`: a read takes two nodes per item, a write one.
NodesPerItem == [kind \in Kinds |-> IF kind = "read" THEN 2 ELSE 1]
ReadLimit == AtLeastOne(BatchSize(ServerReadNodes, SessionReadNodes) \div NodesPerItem["read"])
WriteLimit == AtLeastOne(BatchSize(ServerWriteNodes, SessionWriteNodes))
Limit(kind) == IF kind = "read" THEN ReadLimit ELSE WriteLimit

Waiting(qs, kind) == {p \in Priorities : qs[kind][p] # <<>>}

\* Mutant: only reads set the timer.
HasPendingReads(qs) == Waiting(qs, "read") # {}

HasPending(qs) == \E kind \in Kinds : Waiting(qs, kind) # {}
Pending(qs) == LET of(kind) == Len(qs[kind][0]) + Len(qs[kind][1]) + Len(qs[kind][2])
               IN  of("read") + of("write")

\* Mutant: the whole maximum comes on top of the minimum.
HoldOffOnTop(qs) == MinHoldOff + IF HasPending(qs) THEN MaxHoldOff ELSE 0

\* `next_flush`, the read options for writes too: with `batch` never more than what
\* is pending the fraction is 1.
HoldOff(qs) ==
  LET pending == Pending(qs)
      batch == IF ReadLimit < AtLeastOne(pending) THEN ReadLimit ELSE AtLeastOne(pending)
      share == IF pending < batch THEN pending ELSE batch
  IN  IF MaxHoldOff > MinHoldOff
        THEN MinHoldOff + ((MaxHoldOff - MinHoldOff) * share) \div batch
        ELSE MinHoldOff

--------------------------------------------------------------------------------
NoCall == [kind |-> "read", requests |-> <<>>]

Init == /\ asked = <<>> /\ commands = <<>> /\ sent = {}
        /\ queues = [kind \in Kinds |-> [p \in Priorities |-> <<>>]]
        /\ calling = NoCall
        /\ timer = HoldOff(queues)
        /\ check = CheckInterval /\ checking = FALSE

Serving == calling = NoCall

\* A record asks (`SessionHandle::request`).
Request ==
  /\ Len(asked) < MaxAsked
  /\ \E kind \in Kinds, p \in Priorities :
       asked' = Append(asked, [kind |-> kind, priority |-> p])
  /\ commands' = Append(commands, Len(asked) + 1)
  /\ UNCHANGED <<queues, calling, sent, timer, check, checking>>

\* The loop goes round: the hold-off starts anew, whatever went before.
LoopAgain(qs) == timer' = HoldOff(qs)

TakeRequest ==
  /\ Serving /\ commands # <<>>
  /\ LET n == Head(commands)
     IN  queues' = [queues EXCEPT ![asked[n].kind][asked[n].priority] = Append(@, n)]
  /\ commands' = Tail(commands)
  /\ LoopAgain(queues')
  /\ UNCHANGED <<asked, calling, sent, check, checking>>

\* One connectivity check at a time; the next one is counted from its answer.  Each of
\* its two turns starts the hold-off anew.
CheckDue == check = 0 /\ ~checking

CheckBegins ==
  /\ Serving /\ commands = <<>> /\ CheckDue
  /\ checking' = TRUE
  /\ LoopAgain(queues)
  /\ UNCHANGED <<asked, commands, queues, calling, sent, check>>

CheckEnds ==
  /\ Serving /\ commands = <<>> /\ checking
  /\ checking' = FALSE
  /\ check' = CheckInterval
  /\ LoopAgain(queues)
  /\ UNCHANGED <<asked, commands, queues, calling, sent>>

\* Mutants: the newest requests are taken; what a full batch leaves is dropped.
BatchOfNewest(q, limit) == SubSeq(q, 1 + (IF limit < Len(q) THEN Len(q) - limit ELSE 0), Len(q))
RestDropped(q, limit) == <<>>

\* `take_batch`: no more than the limit, and from one queue only.
BatchOf(q, limit) == SubSeq(q, 1, IF limit < Len(q) THEN limit ELSE Len(q))
RestOf(q, limit) == SubSeq(q, 1 + (IF limit < Len(q) THEN limit ELSE Len(q)), Len(q))

\* `flush` is due, and takes writes before reads, the most urgent first.
FlushDue == Serving /\ commands = <<>> /\ ~CheckDue /\ timer = 0 /\ HasPending(queues)
FlushKind == IF Waiting(queues, "write") # {} THEN "write" ELSE "read"

\* Mutant: the least urgent first.
LeastUrgent == CHOOSE p \in Waiting(queues, FlushKind) :
                 \A r \in Waiting(queues, FlushKind) : p <= r

Urgent == CHOOSE p \in Waiting(queues, FlushKind) : \A r \in Waiting(queues, FlushKind) : r <= p

Flush ==
  /\ FlushDue
  /\ LET q == queues[FlushKind][Urgent]
     IN  /\ calling' = [kind |-> FlushKind, requests |-> BatchOf(q, Limit(FlushKind))]
         /\ queues' = [queues EXCEPT ![FlushKind][Urgent] = RestOf(q, Limit(FlushKind))]
         /\ sent' = sent \cup ToSet(BatchOf(q, Limit(FlushKind)))
  /\ UNCHANGED <<asked, commands, timer, check, checking>>

Answered ==
  /\ ~Serving
  /\ calling' = NoCall
  /\ LoopAgain(queues)
  /\ UNCHANGED <<asked, commands, queues, sent, check, checking>>

\* Time passes once the worker has done what is due; a call may keep it waiting, and
\* a check's answer may take any time.
Due == Serving /\ (commands # <<>> \/ CheckDue \/ FlushDue)
Tick ==
  /\ ~Due
  /\ timer' = IF timer = 0 THEN 0 ELSE timer - 1
  /\ check' = IF check = 0 THEN 0 ELSE check - 1
  /\ UNCHANGED <<asked, commands, queues, calling, sent, checking>>

Batching == TakeRequest \/ CheckBegins \/ CheckEnds \/ Flush \/ Answered

Next == Request \/ Batching \/ Tick

Spec == Init /\ [][Next]_bvars

\* The worker runs, calls end, and time goes on.
FairSpec == Spec /\ WF_bvars(Batching) /\ WF_bvars(Tick)

--------------------------------------------------------------------------------
RequestNumbers == 1 .. MaxAsked
FullHoldOff == IF MaxHoldOff > MinHoldOff THEN MaxHoldOff ELSE MinHoldOff

\* The types of the queues, the call and the clocks.
TypeOK ==
  /\ asked \in Seq([kind : Kinds, priority : Priorities])
  /\ Len(asked) <= MaxAsked
  /\ commands \in Seq(RequestNumbers)
  /\ queues \in [Kinds -> [Priorities -> Seq(RequestNumbers)]]
  /\ calling \in [kind : Kinds, requests : Seq(RequestNumbers)]
  /\ sent \subseteq RequestNumbers
  /\ timer \in 0 .. FullHoldOff /\ check \in 0 .. CheckInterval
  /\ checking \in BOOLEAN

\* No request is lost, sent twice or queued twice on its way: what has not been
\* sent is in exactly one place of one queue.
Places(n) == {at \in Kinds \X Priorities \X RequestNumbers :
                LET q == queues[at[1]][at[2]]
                IN  at[3] \in DOMAIN q /\ q[at[3]] = n}
NoneLost ==
  \A n \in DOMAIN asked :
    Cardinality(Places(n)) + Cardinality({k \in DOMAIN commands : commands[k] = n})
      = IF n \in sent THEN 0 ELSE 1

\* Requests of one kind and priority are sent in the order they were made, however
\* limits cut the batches.
SentInOrder ==
  \A n \in sent : \A m \in 1 .. n - 1 :
    (asked[m].kind = asked[n].kind /\ asked[m].priority = asked[n].priority) => m \in sent

\* A service call never goes ahead of a request of its kind that is more urgent
\* and that the worker has.
UrgentFirst ==
  [][\A n \in sent' \ sent : \A p \in Waiting(queues', asked[n].kind) :
       p <= asked[n].priority]_bvars

\* No Read or Write carries more nodes than the server or the options allow
\* (`read_batch`'s comment).
NodesAllowed(kind) == IF kind = "read" THEN NodeLimit(ServerReadNodes, SessionReadNodes)
                                       ELSE NodeLimit(ServerWriteNodes, SessionWriteNodes)
WithinLimit ==
  \/ NodesAllowed(calling.kind) = 0
  \/ Len(calling.requests) * NodesPerItem[calling.kind] <= NodesAllowed(calling.kind)

\* Every request is sent, though urgent ones and writes go first, once records
\* stop asking.
EveryRequestSent ==
  \A n \in RequestNumbers : (n \in DOMAIN asked) ~> (n \in sent)
================================================================================
