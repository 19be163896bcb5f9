--------------------------------- MODULE EipScan ---------------------------------
(***************************************************************************)
(* One PLC of the EtherNet/IP driver (ether-ip/src): the scan thread that  *)
(* connects, probes the tags, transfers each scan list in requests of a    *)
(* limited size and tells the records (driver.rs); the records that stage  *)
(* writes in a tag's buffer and follow what the PLC reports (device.rs);   *)
(* a PLC whose values change and whose answers fail.                       *)
(*                                                                         *)
(* A tag's data is guarded by its own lock, a record by the record's; the  *)
(* scan thread holds neither between two of its steps.                     *)
(***************************************************************************)
EXTENDS Integers, Sequences, FiniteSets, SequencesExt

CONSTANTS Tags, Values, Records,
          Inputs,       \* I/O Intr input records; the others are outputs
          Options,      \* [periodic, forced]: the outputs with a periodic SCAN,
                        \*   those whose link has FORCE; one of these sets
          InitialValue, \* what a record holds before it is given a value
          InitialPlc,   \* what the PLC holds when the IOC starts
          ListCount,    \* scan lists, numbered in the order they were made
          Period,       \* each list's period
          InitialLists, \* the tags of each list
          InitialTag,   \* the tag each record is bound to
          Order,        \* the records in the order they were bound
          ReadSize,     \* what a tag's read and write add to a MultiRequest:
          WriteSize,    \*   the larger of request and response
          Limit,        \* `EIP_buffer_limit`
          Bad,          \* a tag's answer with an error status
          Budget        \* bound on puts, link puts, the PLC's changes, and faults

Lists == 1 .. ListCount
Outputs == Records \ Inputs

ASSUME EipAssumption ==
  /\ ListCount \in Nat \ {0} /\ Limit \in Nat
  /\ Period \in [Lists -> Nat]
  /\ InitialLists \in [Lists -> Seq(Tags)]
  /\ InitialTag \in [Records -> Tags] /\ Order \in Seq(Records)
  /\ ReadSize \in [Tags -> Nat] /\ WriteSize \in [Tags -> Nat]
  /\ Inputs \subseteq Records
  /\ Options \subseteq [periodic : SUBSET Outputs, forced : SUBSET Outputs]
  /\ {InitialValue, InitialPlc} \subseteq Values /\ Bad \notin Values
  /\ Budget \in Nat

\* Each tag is in one list, once (`Plc::add_tag`).
ASSUME ListsAssumption ==
  \A t \in Tags : \E l \in Lists : \E k \in DOMAIN InitialLists[l] :
    \A m \in Lists : \A j \in DOMAIN InitialLists[m] :
      InitialLists[m][j] = t <=> m = l /\ j = k

VARIABLES plc,        \* the PLC's values
          buf,        \* `TagData::buf`
          valid,      \* tags with `valid_data_size` > 0
          doWrite, isWriting,
          usable,     \* tags whose sizes are known
          lists,      \* `ScanList::tags`
          listeners,  \* `TagInfo::listeners`: <<record, which of its listeners>>
          bound,      \* the tag of the record's device
          listener,   \* which of the record's listeners is its device's
          pc, cur,    \* where the scan thread is, in which list
          snap, pos,  \* its copy of the list's tags, its place there
          req,        \* the request: place -> [tag, writing, value]
          left,       \* places whose answer is not yet applied
          reply,      \* the PLC's answers
          notes,      \* listeners still to be told of a transfer
          checking,   \* the first of them has fired, its check waits for the record
          probed,     \* a tag has answered its probe
          options,    \* the records' options
          val,        \* each record's value
          udf, invalid,
          writeDone,  \* records with a completion in `Listener::write_done`
          pact,       \* records whose write is under way
          ending,     \* records whose completion is queued
          once,       \* records queued by scanOnce
          requested,  \* records queued by `ProcessCallback`
          pulsed,     \* inputs with a pulse in their channel
          budget,
          last,       \* history: the value last staged in a tag,
          stale,      \*   tags with nothing staged on this connection,
          unsent,     \*   tags whose last staged value the PLC has not answered,
          asked       \*   records put while their tag had no value

data == <<buf, valid, doWrite, isWriting>>
history == <<last, stale, unsent, asked>>
topology == <<lists, listeners, bound, listener, options>>
place == <<pc, cur, snap, pos, probed>>
request == <<req, left, reply>>
telling == <<notes, checking>>
records == <<val, udf, invalid, writeDone, pact, ending, once, requested, pulsed>>
vars == <<plc, data, usable, topology, place, request, telling, records, budget, history>>

Spend == budget > 0 /\ budget' = budget - 1

Init == /\ plc = [t \in Tags |-> InitialPlc]
        /\ buf = [t \in Tags |-> InitialValue]
        /\ valid = {} /\ doWrite = {} /\ isWriting = {} /\ usable = {}
        /\ lists = InitialLists
        /\ options \in Options
        /\ listeners = [t \in Tags |->
             LET mine == SelectSeq(Order, LAMBDA r : InitialTag[r] = t)
             IN  [k \in DOMAIN mine |-> <<mine[k], 0>>]]
        /\ bound = InitialTag
        /\ listener = [r \in Records |-> 0]
        /\ pc = "connect" /\ cur = 1 /\ snap = <<>> /\ pos = 1 /\ probed = FALSE
        /\ req = <<>> /\ left = {} /\ reply = <<>>
        /\ notes = <<>> /\ checking = FALSE
        /\ val = [r \in Records |-> InitialValue]
        /\ udf = Records /\ invalid = {}
        /\ writeDone = {} /\ pact = {} /\ ending = {}
        /\ once = {} /\ requested = {} /\ pulsed = {}
        /\ budget = Budget
        /\ last = buf /\ stale = Tags /\ unsent = {} /\ asked = {}

--------------------------------------------------------------------------------
(***************************************************************************)
(* The records.  A pass runs with the record locked and takes its tag's    *)
(* data lock once.                                                         *)
(***************************************************************************)
\* `EtherIpDevice::stage_write`, `TagInfo::request_write`: the record's value v
\* goes into the buffer unless the buffer holds it; the write's pass is not over.
Stage(r, v) ==
  LET t == bound[r] IN
  /\ buf[t] # v
  /\ buf' = [buf EXCEPT ![t] = v]
  /\ doWrite' = doWrite \cup {t}
  /\ writeDone' = writeDone \cup {r}
  /\ pact' = pact \cup {r}
  /\ last' = [last EXCEPT ![t] = v]
  /\ stale' = stale \ {t}
  /\ unsent' = unsent \cup {t}
  /\ UNCHANGED <<valid, isWriting>>

NothingStaged == UNCHANGED <<data, writeDone, pact, last, stale, unsent>>

\* An output's pass (`write_begin`): without a value of the tag it is a
\* WRITE_ALARM; a record without a value of its own stays INVALID.
WritePass(r, v, undefined, wanted) ==
  \/ /\ bound[r] \in valid
     /\ Stage(r, v) \/ (buf[bound[r]] = v /\ NothingStaged)
     /\ invalid' = IF r \in undefined THEN invalid \cup {r} ELSE invalid \ {r}
     /\ asked' = wanted \ {r}
  \/ /\ bound[r] \notin valid
     /\ NothingStaged
     /\ invalid' = invalid \cup {r}
     /\ asked' = wanted

\* An operator puts a value; the put processes the record.
Put(r, v) ==
  /\ r \in Outputs \ pact
  /\ Spend
  /\ val' = [val EXCEPT ![r] = v]
  /\ udf' = udf \ {r}
  /\ WritePass(r, v, {}, asked \cup {r})
  /\ UNCHANGED <<plc, usable, topology, place, request, telling, ending, once, requested, pulsed>>

Unasked == <<plc, usable, topology, place, request, telling, budget, val, udf, ending, pulsed>>

\* A periodic output's scan.
ProcessPeriodic(r) ==
  /\ r \in options.periodic \ pact
  /\ WritePass(r, val[r], udf, asked)
  /\ UNCHANGED <<Unasked, once, requested>>

\* The scanOnce queue; a record whose write is under way is passed over.
ProcessOnce(r) ==
  /\ r \in once
  /\ once' = once \ {r}
  /\ \/ r \notin pact /\ WritePass(r, val[r], udf, asked)
     \/ r \in pact /\ UNCHANGED <<data, writeDone, pact, invalid, history>>
  /\ UNCHANGED <<Unasked, requested>>

\* The pass a check asked for when it found no data.  It goes past the PACT gate,
\* as a completion does: of a write under way it is the second pass and ends it.
ProcessRequested(r) ==
  /\ r \in requested
  /\ requested' = requested \ {r}
  /\ \/ r \notin pact /\ WritePass(r, val[r], udf, asked)
     \/ /\ r \in pact /\ pact' = pact \ {r}
        /\ UNCHANGED <<data, writeDone, invalid, history>>
  /\ UNCHANGED <<Unasked, once>>

\* `DeviceDone::complete`: the write's pass ends, without a readback.
CompleteWrite(r) ==
  /\ r \in ending
  /\ ending' = ending \ {r}
  /\ pact' = pact \ {r}
  /\ UNCHANGED <<plc, data, usable, topology, place, request, telling, val, udf, invalid,
                 writeDone, once, requested, pulsed, budget, history>>

\* An input's pass (`EtherIpDevice::read`), on its pulse.
TakePulse(r) ==
  /\ r \in pulsed
  /\ pulsed' = pulsed \ {r}
  /\ \/ /\ bound[r] \in valid
        /\ val' = [val EXCEPT ![r] = buf[bound[r]]]
        /\ udf' = udf \ {r} /\ invalid' = invalid \ {r}
     \/ /\ bound[r] \notin valid
        /\ invalid' = invalid \cup {r}
        /\ UNCHANGED <<val, udf>>
  /\ UNCHANGED <<plc, data, usable, topology, place, request, telling, writeDone, pact,
                 ending, once, requested, budget, history>>

--------------------------------------------------------------------------------
(***************************************************************************)
(* A device-link put: `del_record` takes the record off its tag, and       *)
(* `add_record` binds it to tag t with list l's period, which moves a tag  *)
(* of a slower list.  A put to a record whose write is under way is left   *)
(* out: what becomes of the completion of a listener that is dropped is    *)
(* the framework's.                                                        *)
(***************************************************************************)
\* `Plc::add_tag`, for a tag that is in a list.
AddTag(t, l) ==
  LET held == CHOOSE k \in Lists : \E j \in DOMAIN lists[k] : lists[k][j] = t
      at == CHOOSE j \in DOMAIN lists[held] : lists[held][j] = t
  IN  IF Period[held] <= Period[l] THEN lists
      ELSE [lists EXCEPT ![held] = RemoveAt(@, at), ![l] = Append(@, t)]

PutLink(r, t, l) ==
  /\ r \notin pact
  /\ Spend
  /\ lists' = AddTag(t, l)
  /\ listener' = [listener EXCEPT ![r] = @ + 1]
  /\ LET gone == [listeners EXCEPT ![bound[r]] = SelectSeq(@, LAMBDA x : x[1] # r)]
     IN  listeners' = [gone EXCEPT ![t] = Append(@, <<r, listener[r] + 1>>)]
  /\ bound' = [bound EXCEPT ![r] = t]
  /\ pulsed' = pulsed \ {r}
  /\ UNCHANGED <<plc, data, usable, options, place, request, telling, val, udf, invalid,
                 writeDone, pact, ending, once, requested, history>>

--------------------------------------------------------------------------------
(***************************************************************************)
(* Telling the records (`TagInfo::notify`): the scan thread goes on when   *)
(* the listeners it copied are told.                                       *)
(***************************************************************************)
IsCurrent(l) == l[2] = listener[l[1]]

\* A listener with a completion is completed and told nothing else; an input is
\* pulsed; an output's check fires.  A listener removed since is told in vain.
TellNext ==
  /\ notes # <<>> /\ ~checking
  /\ LET r == Head(notes)[1]
     IN  \/ /\ IsCurrent(Head(notes)) /\ r \in writeDone
            /\ writeDone' = writeDone \ {r}
            /\ ending' = ending \cup {r}
            /\ notes' = Tail(notes)
            /\ UNCHANGED <<checking, pulsed>>
         \/ /\ IsCurrent(Head(notes)) /\ r \in Inputs
            /\ pulsed' = pulsed \cup {r}
            /\ notes' = Tail(notes)
            /\ UNCHANGED <<checking, writeDone, ending>>
         \/ /\ r \in Outputs /\ ~(IsCurrent(Head(notes)) /\ r \in writeDone)
            /\ checking' = TRUE
            /\ UNCHANGED <<notes, pulsed, writeDone, ending>>
         \/ /\ r \in Inputs /\ ~IsCurrent(Head(notes))
            /\ notes' = Tail(notes)
            /\ UNCHANGED <<checking, pulsed, writeDone, ending>>
  /\ UNCHANGED <<plc, data, usable, topology, place, request, val, udf, invalid, pact, once,
                 requested, budget, history>>

\* `EtherIpDevice::check_callback` and `follow_plc`, with the record locked.
CheckRuns(l) == IsCurrent(l) /\ l[1] \notin writeDone

\* Mutant: a record that is INVALID and has the tag's value is left alone.
DiffersInValue(r) == buf[bound[r]] # val[r]

Differs(r) == r \in udf \cup invalid \/ buf[bound[r]] # val[r]

Follow(r) ==
  LET has == bound[r] \in valid
      kept == r \in options.forced \ udf
      processed == IF r \in options.periodic THEN once ELSE once \cup {r}
  IN  \/ /\ ~has
         /\ requested' = requested \cup {r}
         /\ UNCHANGED <<val, udf, once, asked>>
      \/ /\ has /\ Differs(r) /\ ~kept
         /\ val' = [val EXCEPT ![r] = buf[bound[r]]]
         /\ udf' = udf \ {r}
         /\ once' = processed
         /\ asked' = asked \ {r}
         /\ UNCHANGED requested
      \/ /\ has /\ Differs(r) /\ kept
         /\ once' = processed
         /\ UNCHANGED <<val, udf, asked, requested>>
      \/ /\ has /\ ~Differs(r)
         /\ UNCHANGED <<val, udf, once, asked, requested>>

Check ==
  /\ checking
  /\ checking' = FALSE
  /\ notes' = Tail(notes)
  /\ \/ CheckRuns(Head(notes)) /\ Follow(Head(notes)[1])
     \/ ~CheckRuns(Head(notes)) /\ UNCHANGED <<val, udf, once, asked, requested>>
  /\ UNCHANGED <<plc, data, usable, topology, place, request, invalid, writeDone, pact, ending,
                 pulsed, budget, last, stale, unsent>>

--------------------------------------------------------------------------------
(***************************************************************************)
(* The scan thread: connecting and leaving.                                *)
(***************************************************************************)
Scanning(at) == pc = at /\ notes = <<>>

\* The lists' tags are copied when the thread comes to the list.
GoTo(at, l) == /\ pc' = at /\ cur' = l /\ pos' = 1
               /\ snap' = IF at \in {"probe", "clear"} THEN lists[l] ELSE <<>>

\* `disconnect`: every list is invalidated, the first one first.
Disconnect == GoTo("clear", 1)

\* `Connection::startup`; one that fails changes nothing.
Connect ==
  /\ Scanning("connect")
  /\ stale' = Tags
  /\ probed' = FALSE
  /\ GoTo("probe", 1)
  /\ UNCHANGED <<plc, data, usable, topology, request, telling, records, budget, last, unsent,
                 asked>>

\* `complete_tag_infos`: a tag that cannot be read, or is without data, is
\* unusable until the next connection; the connection is, if no tag answers.
Probe ==
  /\ Scanning("probe")
  /\ LET here == {snap[k] : k \in DOMAIN snap}
     IN  \E answered \in SUBSET here : \E ok \in SUBSET answered :
           /\ IF ok = here THEN UNCHANGED budget ELSE Spend
           /\ usable' = (usable \ here) \cup ok
           /\ probed' = (probed \/ answered # {})
  /\ IF cur < ListCount THEN GoTo("probe", cur + 1)
     ELSE IF probed' \/ (\A l \in Lists : lists[l] = <<>>) THEN GoTo("lists", 1)
     ELSE Disconnect
  /\ UNCHANGED <<plc, data, topology, request, telling, records, history>>

\* Mutant: a staged value stays so (as in the C driver).
WritesKept(t) == doWrite

WritesWithout(t) == doWrite \ {t}

\* Mutant: nobody is told that a tag has lost its value.
NobodyToTell(t) == <<>>

ToTell(t) == listeners[t]

\* `invalidate_tags`, for the next tag of the list's copy.
Clear ==
  /\ Scanning("clear") /\ pos <= Len(snap)
  /\ LET t == snap[pos]
     IN  /\ isWriting' = isWriting \ {t}
         /\ doWrite' = WritesWithout(t)
         /\ valid' = valid \ {t}
         /\ unsent' = unsent \ {t}
         /\ notes' = ToTell(t)
  /\ pos' = pos + 1
  /\ UNCHANGED <<plc, buf, usable, topology, pc, cur, snap, probed, request, checking,
                 records, budget, last, stale, asked>>

ListCleared ==
  /\ Scanning("clear") /\ pos > Len(snap)
  /\ GoTo(IF cur < ListCount THEN "clear" ELSE "connect",
          IF cur < ListCount THEN cur + 1 ELSE 1)
  /\ UNCHANGED <<plc, data, usable, topology, probed, request, telling, records, budget,
                 history>>

\* iocsh's `restart`, which waits for a pass to end.
Restart ==
  /\ Scanning("lists") /\ cur = 1
  /\ Spend
  /\ Disconnect
  /\ UNCHANGED <<plc, data, usable, topology, probed, request, telling, records, history>>

--------------------------------------------------------------------------------
(***************************************************************************)
(* The scan thread: transferring the lists that are due (`scan_pass`).  A  *)
(* pass begins and ends before the first list.                             *)
(***************************************************************************)
NextList == GoTo("lists", IF cur < ListCount THEN cur + 1 ELSE 1)

ListNotDue ==
  /\ Scanning("lists")
  /\ NextList
  /\ UNCHANGED <<plc, data, usable, topology, probed, request, telling, records, budget,
                 history>>

ListDue ==
  /\ Scanning("lists")
  /\ pc' = "build" /\ snap' = lists[cur] /\ pos' = 1
  /\ UNCHANGED <<plc, data, usable, topology, cur, probed, request, telling, records,
                 budget, history>>

\* `build_multi_request`.  The request takes the usable tags from pos on until
\* the next would exceed the limit.
Wanted == {k \in pos .. Len(snap) : snap[k] \in usable}
Size(t) == IF t \in doWrite \cup isWriting THEN WriteSize[t] ELSE ReadSize[t]
Load(k) == MapThenSumSet(LAMBDA j : Size(snap[j]), {j \in Wanted : j <= k})
Taken == {k \in Wanted : Load(k) <= Limit}
Refused == Wanted \ Taken
\* Mutant: one past the end.
ResumePast == IF Refused = {} THEN Len(snap) + 2 ELSE Min(Refused)

Resume == IF Refused = {} THEN Len(snap) + 1 ELSE Min(Refused)
TagsAt(places) == {snap[k] : k \in places}

\* Mutant: a write that does not fit is always given back.
GivenBackUnsent(looked) == looked \ TagsAt(Taken)

\* The tag that does not fit is looked at too: its write stays taken for the
\* next request, and is given back when it was to be the first of this one.
GivenBack(looked) == IF Taken = {} THEN looked ELSE {}

Build ==
  /\ Scanning("build")
  /\ LET looked == TagsAt(Taken \cup (IF Refused = {} THEN {} ELSE {Min(Refused)}))
         writing == isWriting \cup (doWrite \cap looked)
     IN  /\ doWrite' = doWrite \ looked
         /\ isWriting' = writing \ GivenBack(looked)
         /\ req' = IF Taken = {} THEN <<>>
                   ELSE [k \in Taken |-> [tag |-> snap[k], writing |-> snap[k] \in writing,
                                          value |-> buf[snap[k]]]]
         /\ left' = Taken
  /\ IF Taken = {} THEN NextList
     ELSE pc' = "transfer" /\ pos' = Resume /\ UNCHANGED <<cur, snap>>
  /\ UNCHANGED <<plc, buf, valid, usable, topology, probed, reply, telling, records, budget,
                 history>>

\* What the PLC holds when it has carried out the writes but those in bad.
CarriedOut(bad) ==
  LET done(t) == {k \in DOMAIN req \ bad : req[k].tag = t /\ req[k].writing}
  IN  [t \in Tags |-> IF done(t) = {} THEN plc[t] ELSE req[Max(done(t))].value]

Forget == req' = <<>> /\ left' = {} /\ reply' = <<>>

ReleaseWrites == isWriting' = isWriting \ {req[k].tag : k \in {j \in DOMAIN req : req[j].writing}}

\* The send fails, or the answer is lost or not the expected one: the PLC may
\* have carried out the request all the same.
TransferFails ==
  /\ Scanning("transfer")
  /\ Spend
  /\ plc' \in {plc, CarriedOut({})}
  /\ ReleaseWrites
  /\ Forget
  /\ Disconnect
  /\ UNCHANGED <<buf, valid, doWrite, usable, topology, probed, telling, records, history>>

\* The answers arrive; a tag's may carry an error status.
Transfer ==
  /\ Scanning("transfer")
  /\ \E bad \in SUBSET DOMAIN req :
       /\ IF bad = {} THEN UNCHANGED budget ELSE Spend
       /\ plc' = CarriedOut(bad)
       /\ reply' = [k \in DOMAIN req |-> IF k \in bad THEN Bad ELSE plc'[req[k].tag]]
  /\ pc' = "apply"
  /\ UNCHANGED <<data, usable, topology, cur, snap, pos, probed, req, left, telling,
                 records, history>>

\* Mutant: an answered write stays taken.
ApplyWriteHolding(t, answer) ==
  /\ valid' = IF answer = Bad THEN valid \ {t} ELSE valid
  /\ unsent' = IF t \in doWrite THEN unsent ELSE unsent \ {t}
  /\ UNCHANGED <<buf, isWriting>>

\* Mutant: a value read always reaches the buffer.
ApplyReadAlways(t, answer) ==
  /\ buf' = IF answer = Bad THEN buf ELSE [buf EXCEPT ![t] = answer]
  /\ valid' = IF answer = Bad THEN valid \ {t} ELSE valid \cup {t}
  /\ UNCHANGED <<isWriting, unsent>>

\* `apply_response`: a value read is kept out of a buffer that holds a value to
\* be written; whichever it was, the records are told.
ApplyWrite(t, answer) ==
  /\ isWriting' = isWriting \ {t}
  /\ valid' = IF answer = Bad THEN valid \ {t} ELSE valid
  /\ unsent' = IF t \in doWrite THEN unsent ELSE unsent \ {t}
  /\ UNCHANGED buf

ApplyRead(t, answer) ==
  /\ IF answer = Bad THEN /\ valid' = valid \ {t}
                          /\ UNCHANGED buf
     ELSE IF t \in doWrite THEN UNCHANGED <<buf, valid>>
     ELSE /\ buf' = [buf EXCEPT ![t] = answer]
          /\ valid' = valid \cup {t}
  /\ UNCHANGED <<isWriting, unsent>>

Apply ==
  /\ Scanning("apply")
  /\ LET k == Min(left)
         t == req[k].tag
     IN  /\ IF req[k].writing THEN ApplyWrite(t, reply[k]) ELSE ApplyRead(t, reply[k])
         /\ notes' = listeners[t]
         /\ IF left = {k} THEN Forget /\ pc' = "build"
            ELSE left' = left \ {k} /\ UNCHANGED <<pc, req, reply>>
  /\ UNCHANGED <<plc, doWrite, usable, topology, cur, snap, pos, probed, checking, records,
                 budget, last, stale, asked>>

\* The answer ends before all tags have theirs.
AnswerShort ==
  /\ Scanning("apply")
  /\ Spend
  /\ ReleaseWrites
  /\ Forget
  /\ Disconnect
  /\ UNCHANGED <<plc, buf, valid, doWrite, usable, topology, probed, telling, records,
                 history>>

\* The PLC's program changes a value.
PlcChanges(t, v) ==
  /\ plc[t] # v
  /\ Spend
  /\ plc' = [plc EXCEPT ![t] = v]
  /\ UNCHANGED <<data, usable, topology, place, request, telling, records, history>>

--------------------------------------------------------------------------------
Answered == Transfer \/ TransferFails
Leaving == Clear \/ ListCleared
Telling == TellNext \/ Check
Transferring == Build \/ Answered \/ Apply \/ AnswerShort
Running == Probe \/ Leaving \/ ListNotDue \/ ListDue \/ Transferring \/ Telling
ScanThread == Connect \/ Running

RecordPass(r) == ProcessOnce(r) \/ ProcessRequested(r) \/ TakePulse(r)

Environment == \/ Restart
               \/ \E t \in Tags, v \in Values : PlcChanges(t, v)
               \/ \E r \in Records : \/ \E v \in Values : Put(r, v)
                                     \/ \E t \in Tags, l \in Lists : PutLink(r, t, l)

Next == \/ ScanThread
        \/ \E r \in Records : RecordPass(r) \/ CompleteWrite(r) \/ ProcessPeriodic(r)
        \/ Environment

Spec == Init /\ [][Next]_vars

\* The runtime runs the scan thread, whose every call ends since it has a
\* time-out, and the records' queued passes; a list's period ends again and
\* again.  Nothing is assumed of the PLC, which need never be reached.
FairSpec == /\ Spec
            /\ WF_vars(Running)
            /\ \A l \in Lists : SF_vars(ListDue /\ cur = l)
            /\ \A r \in Records : /\ WF_vars(RecordPass(r)) /\ WF_vars(CompleteWrite(r))
                                  /\ WF_vars(ProcessPeriodic(r))

--------------------------------------------------------------------------------
(***************************************************************************)
(* Properties.                                                             *)
(***************************************************************************)
\* Every variable keeps its type; a listener is told or checked in turn.
TypeOK ==
  /\ plc \in [Tags -> Values] /\ buf \in [Tags -> Values]
  /\ valid \subseteq Tags /\ doWrite \subseteq Tags /\ isWriting \subseteq Tags
  /\ usable \subseteq Tags /\ unsent \subseteq Tags
  /\ lists \in [Lists -> Seq(Tags)]
  /\ bound \in [Records -> Tags] /\ listener \in [Records -> Nat]
  /\ pc \in {"connect", "probe", "clear", "lists", "build", "transfer", "apply"}
  /\ cur \in Lists /\ snap \in Seq(Tags) /\ pos \in 1 .. Len(snap) + 1
  /\ left \subseteq DOMAIN req /\ (checking => notes # <<>>)
  /\ val \in [Records -> Values]
  /\ udf \subseteq Records /\ invalid \subseteq Records
  /\ writeDone \subseteq Outputs /\ ending \subseteq Outputs
  /\ once \subseteq Outputs /\ requested \subseteq Outputs /\ pulsed \subseteq Inputs

\* What is sent is the last value put: neither the answer to a read that was
\* under way when the value was staged, nor waiting for room in a request,
\* changes it.  Superseded after the request was built, it is sent again.
WritesCarryLatest ==
  /\ \A t \in doWrite \cup isWriting : buf[t] = last[t]
  /\ pc = "transfer" => \A k \in DOMAIN req : req[k].writing =>
       req[k].value = last[req[k].tag] \/ req[k].tag \in doWrite

\* Between two lists no tag is left with its write half taken: each write is in
\* the request under way, waits to be first in the next, or has been given up.
HandshakeHeld ==
  /\ pc \in {"connect", "probe", "lists"} => isWriting = {}
  /\ pc \in {"transfer", "apply"} =>
       \A t \in isWriting : \/ \E k \in DOMAIN req : req[k].tag = t /\ req[k].writing
                            \/ pos <= Len(snap) /\ t = snap[pos]

\* After an error nothing staged before it is sent on the next connection
\* (`invalidate_tags`: "we must not write stale data on reconnect").
NoStaleWrite ==
  pc = "transfer" => \A k \in DOMAIN req : req[k].writing => req[k].tag \notin stale

\* A put's pass ends, whatever becomes of the connection.
PutEnds == \A r \in Records : r \in pact ~> r \notin pact

\* A value accepted from a record is answered by the PLC, superseded by one
\* that is, or given up with the connection.
StagedIsSent == \A t \in Tags : t \in unsent ~> t \notin unsent

\* Once nobody changes anything any more, every record of a tag that can be read
\* shows what the PLC holds, and no alarm.
Agrees(r) == bound[r] \in usable => val[r] = plc[bound[r]] /\ r \notin invalid
Converges == <>[](pc = "connect" \/ \A r \in Records : Agrees(r))

\* A pass writes to the PLC only what someone put: "its write pass finds the
\* PLC agreeing" when it was the PLC's value the record took.
PassFindsAgreement ==
  [][\A r \in Outputs \ options.forced :
       r \in writeDone' \ writeDone => r \in asked \/ budget' < budget]_vars
================================================================================
