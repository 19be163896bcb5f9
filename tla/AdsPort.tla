--------------------------------- MODULE AdsPort --------------------------------
(***************************************************************************)
(* One port of the TwinCAT ADS driver (twincat-ads/src/driver.rs): the     *)
(* supervisor that connects, watches one AMS port and refreshes the        *)
(* parameters; the bulk poller; the reader thread of the connection with   *)
(* the PLC's notifications; the port's actor, which binds and writes       *)
(* parameters.  They share `AdsShared`; a step takes one of its locks      *)
(* once, or two that no other step looks at together, or is one request.   *)
(* A request ends as AdsCalls has it.                                      *)
(***************************************************************************)
EXTENDS Integers, Sequences, FiniteSets, SequencesExt

CONSTANTS Params,     \* the parameters, all named symbolically
          Setups,     \* what the database has of them: one of these
          NoParam,    \* not one: what a subscription to the symbol version is of
          Values, InitialValue, NoValue,
          MaxConns,   \* bound on connections
          Budget      \* bound on faults, changes in the PLC, binds and writes

ASSUME PortAssumption ==
  /\ Setups \subseteq [bulk : SUBSET Params, late : SUBSET Params]
  /\ InitialValue \in Values /\ NoValue \notin Values /\ NoParam \notin Params
  /\ MaxConns \in Nat /\ Budget \in Nat

\* `Feed`: none, notification, or the slot (one group: fewer than 500).
NoFeed == 0
Notified == -1

VARIABLES plc, running,  \* the PLC's values; its runtime is in RUN
          subs,          \* its notifications: [n, of, conn, seen]
          noted,         \* notification handles given so far
          conns, up,     \* connections made; those that are up
          stream,        \* samples on their way: <<handle, value>>
          client,        \* `AdsShared::client`: the connection, or 0
          setup,         \* those with `is_bulk_read`, those bound while it runs
          bound,         \* parameters created
          handle,        \* `ParamState`: the connection the handle is of, or 0
          note, feed,    \*   notification handle, or 0
          value, alarm,
          need,          \*   parameters with `refresh_needed`
          notifications, \* `AdsShared::notifications`
          slots,         \* `BulkGroup`: [reason, of, handle]
          portUp, portNeed, portNote, portChanged, \* `AmsPortState`
          pc,            \* where each thread is
          on,            \* the connection it holds, or 0
          par, got,      \* the parameter it is at, what its request returned
          todo, rounds,  \* the supervisor's parameters to do, and refreshes
          missed,        \* its count of passes without a port in RUN, % 4
          after,         \* where it goes from `disconnect`
          poll,          \* the poller's copy of the slots, with the answers
          budget,
          failed         \* history: parameters whose refresh failed since need

plcside == <<plc, running, subs, noted, conns, up, stream>>
params == <<bound, setup, handle, note, feed, value, alarm, need>>
port == <<portUp, portNeed, portNote, portChanged>>
supervisor == <<todo, rounds, missed, after>>
work == <<pc, on, par, got>>
vars == <<plcside, client, params, notifications, slots, port, work, supervisor, poll, budget,
          failed>>

\* A database asks for some to be polled (POLL_RATE=), and may bind some late.
bulk == setup.bulk
late == setup.late

Threads == {"sup", "act", "bulk", "rd"}
Spend == budget > 0 /\ budget' = budget - 1

Init == /\ plc = [p \in Params |-> InitialValue] /\ running = TRUE
        /\ subs = {} /\ noted = 0 /\ conns = 0 /\ up = {} /\ stream = <<>>
        /\ client = 0
        /\ setup \in Setups /\ bound = Params \ late
        /\ handle = [p \in Params |-> 0] /\ note = handle
        /\ feed = [p \in Params |-> NoFeed]
        /\ value = [p \in Params |-> NoValue] /\ alarm = [p \in Params |-> "none"]
        /\ need = bound
        /\ notifications = <<>> /\ slots = <<>>
        /\ portUp = FALSE /\ portNeed = TRUE /\ portNote = 0 /\ portChanged = FALSE
        /\ pc = [t \in Threads |-> "idle"] /\ on = [t \in Threads |-> 0]
        /\ par = [t \in Threads |-> NoParam] /\ got = [t \in Threads |-> 0]
        /\ todo = {} /\ rounds = 0 /\ missed = 0 /\ after = "idle"
        /\ poll = <<>>
        /\ budget = Budget /\ failed = {}

Goes(t, from, to) == pc[t] = from /\ pc' = [pc EXCEPT ![t] = to]
With(f, x, y) == [z \in DOMAIN f \cup {x} |-> IF z = x THEN y ELSE f[z]]
Less(f, S) == [z \in DOMAIN f \ S |-> f[z]]

\* What a change to the client or to who holds it leaves up: the last reference
\* closes a connection, which joins its reader.
Keep(cl) ==
  LET kept == {c \in up : cl = c \/ \E t \in Threads : on'[t] = c}
  IN  /\ client' = cl /\ up' = kept
      /\ subs' = {s \in subs : s.conn \in kept}
      /\ stream' = IF conns \in kept THEN stream ELSE <<>>
      /\ kept # up => pc["rd"] = "idle"
      /\ UNCHANGED <<plc, running, noted, conns>>

\* A thread at the end of an operation.
Idle(t, from) == /\ Goes(t, from, "idle")
                 /\ on' = [on EXCEPT ![t] = 0]
                 /\ par' = [par EXCEPT ![t] = NoParam]
                 /\ got' = [got EXCEPT ![t] = 0]
                 /\ Keep(client)

\* A request on a connection that is up may fail; on another it does.
MayFail(c) == IF c \in up THEN Spend ELSE UNCHANGED budget

--------------------------------------------------------------------------------
(***************************************************************************)
(* `refresh_param`, on the supervisor or the actor: resolve the symbol,    *)
(* feed the parameter, take a first sample.                                *)
(***************************************************************************)
Refreshers == {"sup", "act"}

\* The supervisor goes on with its next parameter; the actor's bind ends.
Return(t, from) ==
  IF t = "act" THEN Idle(t, from)
  ELSE /\ Goes(t, from, "next")
       /\ par' = [par EXCEPT ![t] = NoParam] /\ got' = [got EXCEPT ![t] = 0]
       /\ UNCHANGED <<on, plcside, client>>

Requests == {"info", "get", "subscribe", "sample"}

\* The request a refresh is at fails, or there is no connection to make it on.
RefreshFails(t) ==
  /\ pc[t] \in Requests
  /\ Return(t, pc[t])
  /\ MayFail(IF pc[t] = "info" THEN client ELSE on[t])
  /\ failed' = failed \cup {par[t]}
  /\ handle' = IF pc[t] = "get" THEN [handle EXCEPT ![par[t]] = 0] ELSE handle
  /\ UNCHANGED <<bound, setup, note, feed, value, alarm, need, notifications, slots, port,
                 supervisor, poll>>

GetInfo(t) ==
  /\ Goes(t, "info", "get")
  /\ client \in up
  /\ on' = [on EXCEPT ![t] = client]
  /\ UNCHANGED <<plcside, client, params, notifications, slots, port, par, got, supervisor, poll,
                 budget, failed>>

\* The old handle is given back before a new one is asked for.
GetHandle(t) ==
  /\ Goes(t, "get", "set")
  /\ on[t] \in up
  /\ handle' = [handle EXCEPT ![par[t]] = 0]
  /\ UNCHANGED <<plcside, client, bound, setup, note, feed, value, alarm, need, notifications,
                 slots, port, on, par, got, supervisor, poll, budget, failed>>

\* The handle is of the connection it was asked on.
SetHandle(t) ==
  LET p == par[t]
  IN  /\ Goes(t, "set", IF p \in bulk THEN "enrol"
                        ELSE IF feed[p] = Notified THEN "leave" ELSE "subscribe")
      /\ handle' = [handle EXCEPT ![p] = on[t]]
      /\ UNCHANGED <<plcside, client, bound, setup, note, feed, value, alarm, need, notifications,
                     slots, port, on, par, got, supervisor, poll, budget, failed>>

\* `remove_notification`: a parameter that was subscribed is unsubscribed first;
\* the PLC may miss that.
Leave(t) ==
  LET p == par[t]
  IN  /\ Goes(t, "leave", IF note[p] # 0 THEN "cancel" ELSE "subscribe")
      /\ note' = [note EXCEPT ![p] = 0]
      /\ feed' = IF note[p] # 0 THEN [feed EXCEPT ![p] = NoFeed] ELSE feed
      /\ got' = [got EXCEPT ![t] = note[p]]
      /\ UNCHANGED <<plcside, client, bound, setup, handle, value, alarm, need, notifications,
                     slots, port, on, par, supervisor, poll, budget, failed>>

Cancel(t) ==
  /\ Goes(t, "cancel", "subscribe")
  /\ notifications' = Less(notifications, {got[t]})
  /\ subs' \in {subs, {s \in subs : s.n # got[t]}}
  /\ got' = [got EXCEPT ![t] = 0]
  /\ UNCHANGED <<plc, running, noted, conns, up, stream, client, params, slots, port, on, par,
                 supervisor, poll, budget, failed>>

\* A handle is good on the connection it is of.
Good(p, c) == c \in up /\ handle[p] = c

\* The PLC pushes changes from now on.
NewSub(p) ==
  /\ noted' = noted + 1
  /\ subs' = subs \cup {[n |-> noted + 1, of |-> p, conn |-> client,
                        seen |-> IF p = NoParam THEN InitialValue ELSE plc[p]]}
  /\ UNCHANGED <<plc, running, conns, up, stream>>

Subscribe(t) ==
  /\ Goes(t, "subscribe", "insert")
  /\ Good(par[t], client)
  /\ NewSub(par[t])
  /\ got' = [got EXCEPT ![t] = noted + 1]
  /\ UNCHANGED <<client, params, notifications, slots, port, on, par, supervisor, poll, budget,
                 failed>>

\* A handle that is not of this connection is refused.
Refused(t) ==
  /\ \/ pc[t] = "subscribe" /\ ~Good(par[t], client)
     \/ pc[t] = "sample" /\ ~Good(par[t], on[t])
     \/ pc[t] = "enrol" /\ handle[par[t]] = 0
  /\ Return(t, pc[t])
  /\ failed' = failed \cup {par[t]}
  /\ UNCHANGED <<params, notifications, slots, port, supervisor, poll, budget>>

Insert(t) ==
  /\ Goes(t, "insert", "mark")
  /\ notifications' = With(notifications, got[t], par[t])
  /\ UNCHANGED <<plcside, client, params, slots, port, on, par, got, supervisor, poll, budget,
                 failed>>

Mark(t) ==
  /\ Goes(t, "mark", "sample")
  /\ note' = [note EXCEPT ![par[t]] = got[t]]
  /\ feed' = [feed EXCEPT ![par[t]] = Notified]
  /\ got' = [got EXCEPT ![t] = 0]
  /\ UNCHANGED <<plcside, client, bound, setup, handle, value, alarm, need, notifications, slots,
                 port, on, par, supervisor, poll, budget, failed>>

\* `add_to_bulk`: the parameter's slot is updated, or it is given one.
Slot(p) == [reason |-> p, of |-> p, handle |-> handle[p]]

\* Mutant: the seat is that of the slot before.
EnrolBefore(t) ==
  LET p == par[t]
  IN  /\ handle[p] # 0
      /\ \/ /\ feed[p] \in DOMAIN slots
            /\ Goes(t, "enrol", "sample")
            /\ slots' = [slots EXCEPT ![feed[p]].of = p, ![feed[p]].handle = handle[p]]
            /\ UNCHANGED got
         \/ /\ feed[p] <= 0
            /\ Goes(t, "enrol", "seat")
            /\ slots' = Append(slots, Slot(p))
            /\ got' = [got EXCEPT ![t] = Len(slots)]
      /\ UNCHANGED <<plcside, client, params, notifications, port, on, par, supervisor, poll,
                     budget, failed>>

Enrol(t) ==
  LET p == par[t]
  IN  /\ handle[p] # 0
      /\ \/ /\ feed[p] \in DOMAIN slots
            /\ Goes(t, "enrol", "sample")
            /\ slots' = [slots EXCEPT ![feed[p]].of = p, ![feed[p]].handle = handle[p]]
            /\ UNCHANGED got
         \/ /\ feed[p] <= 0
            /\ Goes(t, "enrol", "seat")
            /\ slots' = Append(slots, Slot(p))
            /\ got' = [got EXCEPT ![t] = Len(slots) + 1]
      /\ UNCHANGED <<plcside, client, params, notifications, port, on, par, supervisor, poll,
                     budget, failed>>

\* A slot that is not there: the index panics and the thread is gone.
EnrolPanics(t) ==
  LET p == par[t]
  IN  /\ handle[p] # 0 /\ feed[p] > Len(slots)
      /\ Goes(t, "enrol", "panicked")
      /\ on' = [on EXCEPT ![t] = 0]
      /\ Keep(client)
      /\ UNCHANGED <<params, notifications, slots, port, par, got, supervisor, poll,
                     budget, failed>>

Seat(t) ==
  /\ Goes(t, "seat", "sample")
  /\ feed' = [feed EXCEPT ![par[t]] = got[t]]
  /\ got' = [got EXCEPT ![t] = 0]
  /\ UNCHANGED <<plcside, client, bound, setup, handle, note, value, alarm, need, notifications,
                 slots, port, on, par, supervisor, poll, budget, failed>>

Sample(t) ==
  /\ Goes(t, "sample", "publish")
  /\ Good(par[t], on[t])
  /\ got' = [got EXCEPT ![t] = plc[par[t]]]
  /\ UNCHANGED <<plcside, client, params, notifications, slots, port, on, par, supervisor, poll,
                 budget, failed>>

\* `publish`: the sample is the parameter's value and ends its alarm.
Show(p, v) == value' = [value EXCEPT ![p] = v] /\ alarm' = [alarm EXCEPT ![p] = "none"]

PublishFirst(t) ==
  /\ Goes(t, "publish", "done")
  /\ Show(par[t], got[t])
  /\ UNCHANGED <<plcside, client, bound, setup, handle, note, feed, need, notifications, slots,
                 port, on, par, got, supervisor, poll, budget, failed>>

Done(t) ==
  /\ pc[t] = "done"
  /\ Return(t, "done")
  /\ need' = need \ {par[t]}
  /\ UNCHANGED <<bound, setup, handle, note, feed, value, alarm, notifications, slots,
                 port, supervisor, poll, budget, failed>>

Refresh(t) == \/ RefreshFails(t) \/ Refused(t) \/ GetInfo(t) \/ GetHandle(t) \/ SetHandle(t)
              \/ Leave(t) \/ Cancel(t) \/ Subscribe(t) \/ Insert(t) \/ Mark(t)
              \/ (pc[t] = "enrol" /\ (Enrol(t) \/ EnrolPanics(t))) \/ Seat(t)
              \/ Sample(t) \/ PublishFirst(t) \/ Done(t)

--------------------------------------------------------------------------------
(***************************************************************************)
(* The supervisor: `cyclic_thread`, `cyclic_pass`, `disconnect`.           *)
(***************************************************************************)
Sup(from, to) == Goes("sup", from, to)

BeginPass ==
  /\ \/ /\ client \in up
        /\ Sup("idle", "state")
        /\ UNCHANGED after
     \/ /\ client \notin up
        /\ Sup("idle", IF client = 0 THEN "connect" ELSE "take")
        /\ after' = "connect"
  /\ UNCHANGED <<plcside, client, params, notifications, slots, port, on, par, got, todo, rounds,
                 missed, poll, budget, failed>>

\* `disconnect` takes the client, clears what the connection fed, drops the
\* AMS port and forgets its state.
TakeClient ==
  /\ Sup("take", "clear")
  /\ on' = on
  /\ Keep(0)
  /\ UNCHANGED <<params, notifications, slots, port, par, got, supervisor, poll, budget, failed>>

ClearFeeds ==
  /\ Sup("clear", "drop")
  /\ notifications' = <<>>
  /\ slots' = <<>>
  /\ UNCHANGED <<plcside, client, params, port, on, par, got, supervisor, poll, budget, failed>>

\* Mutant: parameters that are not there are invalidated too.
InvalidateAll ==
  /\ Sup("drop", "handles")
  /\ todo' = bound /\ need' = Params /\ failed' = {}
  /\ UNCHANGED <<plcside, client, bound, setup, handle, note, feed, value, alarm, notifications,
                 slots, port, on, par, got, rounds, missed, after, poll, budget>>

\* `drop_ams_port`: the parameters are to be refreshed and lose their handles,
\* the samples on their way their parameters, the port its subscription; then
\* the parameters are alarmed.
Invalidate ==
  /\ Sup("drop", "handles")
  /\ todo' = bound
  /\ need' = need \cup bound
  /\ failed' = {}
  /\ UNCHANGED <<plcside, client, bound, setup, handle, note, feed, value, alarm, notifications,
                 slots, port, on, par, got, rounds, missed, after, poll, budget>>

DropHandles ==
  /\ Sup("handles", "forget")
  /\ handle' = [p \in Params |-> IF p \in todo THEN 0 ELSE handle[p]]
  /\ note' = [p \in Params |-> IF p \in todo THEN 0 ELSE note[p]]
  /\ UNCHANGED <<plcside, client, bound, setup, feed, value, alarm, need, notifications, slots,
                 port, on, par, got, supervisor, poll, budget, failed>>

\* Mutant: the port is left out of the refresh.
ForgetSubscriptionsOnly ==
  /\ Sup("forget", "alarm")
  /\ notifications' = Less(notifications, {n \in DOMAIN notifications : notifications[n] \in todo})
  /\ portNote' = 0
  /\ UNCHANGED <<plcside, client, params, slots, portUp, portNeed, portChanged, on, par, got,
                 supervisor, poll, budget, failed>>

ForgetSubscriptions ==
  /\ Sup("forget", "alarm")
  /\ notifications' = Less(notifications, {n \in DOMAIN notifications : notifications[n] \in todo})
  /\ portNeed' = TRUE
  /\ portNote' = 0
  /\ UNCHANGED <<plcside, client, params, slots, portUp, portChanged, on, par, got, supervisor,
                 poll, budget, failed>>

RaiseAlarms ==
  /\ Sup("alarm", IF after = "end" THEN "end" ELSE "reset")
  /\ alarm' = [p \in Params |-> IF p \in todo THEN "comm" ELSE alarm[p]]
  /\ todo' = {}
  /\ UNCHANGED <<plcside, client, bound, setup, handle, note, feed, value, need, notifications,
                 slots, port, on, par, got, rounds, missed, after, poll, budget, failed>>

ResetPort ==
  /\ Sup("reset", after)
  /\ portUp' = FALSE
  /\ UNCHANGED <<plcside, client, params, notifications, slots, portNeed, portNote, portChanged,
                 on, par, got, supervisor, poll, budget, failed>>

\* `connect`; it may fail again and again.
Connect ==
  /\ pc["sup"] = "connect"
  /\ \/ /\ conns < MaxConns
        /\ Sup("connect", "state")
        /\ conns' = conns + 1
        /\ up' = up \cup {conns + 1}
        /\ client' = conns + 1
        /\ stream' = <<>>
     \/ /\ Sup("connect", "end")
        /\ UNCHANGED <<conns, up, client, stream>>
  /\ UNCHANGED <<plc, running, subs, noted, params, notifications, slots, port, on, par, got,
                 supervisor, poll, budget, failed>>

\* The AMS port's state is read and kept; a port in RUN whose symbols changed
\* has its parameters invalidated.
ReadState ==
  /\ pc["sup"] = "state"
  /\ on' = [on EXCEPT !["sup"] = client]
  /\ \/ /\ client \in up /\ running
        /\ portUp' = TRUE
        /\ portChanged' = FALSE
        /\ rounds' = Cardinality({x \in {"changed", "need"} :
                          IF x = "changed" THEN portChanged ELSE portNeed})
        /\ need' = IF portChanged THEN need \cup bound ELSE need
        /\ failed' = IF portChanged THEN {} ELSE failed
        /\ Sup("state", IF rounds' > 0 THEN "list" ELSE "end")
        /\ UNCHANGED <<after, budget>>
     \/ /\ IF client \in up /\ running THEN Spend ELSE UNCHANGED budget
        /\ portUp' = FALSE
        /\ after' = "end"
        /\ Sup("state", IF portUp THEN "drop" ELSE "end")
        /\ UNCHANGED <<portChanged, rounds, need, failed>>
  /\ UNCHANGED <<plcside, client, bound, setup, handle, note, feed, value, alarm, notifications,
                 slots, portNeed, portNote, par, got, todo, missed, poll>>

\* `refresh_ams_port`: the parameters that need it, then the port.
ListParams ==
  /\ Sup("list", "next")
  /\ todo' = need
  /\ rounds' = rounds - 1
  /\ UNCHANGED <<plcside, client, params, notifications, slots, port, on, par, got, missed, after,
                 poll, budget, failed>>

NextParam ==
  /\ pc["sup"] = "next"
  /\ \/ /\ todo # {}
        /\ Sup("next", "info")
        /\ LET p == CHOOSE q \in todo : TRUE
           IN  /\ par' = [par EXCEPT !["sup"] = p]
               /\ todo' = todo \ {p}
     \/ /\ todo = {}
        /\ Sup("next", IF portNeed THEN "renew" ELSE IF rounds > 0 THEN "list" ELSE "end")
        /\ UNCHANGED <<par, todo>>
  /\ UNCHANGED <<plcside, client, params, notifications, slots, port, on, got, rounds, missed,
                 after, poll, budget, failed>>

\* The symbol version is subscribed; a port that needs a refresh has no
\* subscription to give up.
Renew ==
  /\ pc["sup"] = "renew"
  /\ \/ /\ client \in up
        /\ Sup("renew", "renewed")
        /\ NewSub(NoParam)
        /\ got' = [got EXCEPT !["sup"] = noted + 1]
        /\ UNCHANGED budget
     \/ /\ MayFail(client)
        /\ Sup("renew", IF rounds > 0 THEN "list" ELSE "end")
        /\ UNCHANGED <<plcside, got>>
  /\ UNCHANGED <<client, params, notifications, slots, port, on, par, supervisor, poll, failed>>

Renewed ==
  /\ Sup("renewed", IF rounds > 0 THEN "list" ELSE "end")
  /\ portNote' = got["sup"]
  /\ portNeed' = FALSE
  /\ got' = [got EXCEPT !["sup"] = 0]
  /\ UNCHANGED <<plcside, client, params, notifications, slots, portUp, portChanged, on, par,
                 supervisor, poll, budget, failed>>

\* Two passes of four without a port in RUN drop the connection.
EndPass ==
  /\ pc["sup"] = "end"
  /\ missed' = IF portUp THEN 0 ELSE (missed + 1) % 4
  /\ on' = [on EXCEPT !["sup"] = 0]
  /\ Keep(client)
  /\ Sup("end", IF missed' >= 2 /\ client # 0 THEN "take" ELSE "idle")
  /\ after' = "idle"
  /\ UNCHANGED <<params, notifications, slots, port, par, got, todo, rounds, poll, budget, failed>>

Disconnecting == \/ TakeClient \/ ClearFeeds \/ Invalidate \/ DropHandles \/ ForgetSubscriptions
                 \/ RaiseAlarms \/ ResetPort
Supervisor == \/ BeginPass \/ Disconnecting \/ Connect \/ ReadState \/ ListParams \/ NextParam
              \/ Renew \/ Renewed \/ EndPass \/ Refresh("sup")

--------------------------------------------------------------------------------
(***************************************************************************)
(* The poller: `bulk_cycle`.                                               *)
(***************************************************************************)
\* The slots are copied and read in one request; a slot whose handle is not of
\* the connection has an error.
PollSlots ==
  /\ Goes("bulk", "idle", "publish")
  /\ client \in up /\ slots # <<>>
  /\ on' = [on EXCEPT !["bulk"] = client]
  /\ poll' = [k \in DOMAIN slots |-> [reason |-> slots[k].reason, value |-> plc[slots[k].of],
                                    good |-> slots[k].handle = client]]
  /\ UNCHANGED <<plcside, client, params, notifications, slots, port, par, got, supervisor, budget,
                 failed>>

\* The answers are published one by one, an error is only reported.
PublishPolled ==
  /\ pc["bulk"] = "publish" /\ poll # <<>>
  /\ IF Head(poll).good THEN Show(Head(poll).reason, Head(poll).value)
                          ELSE UNCHANGED <<value, alarm>>
  /\ poll' = Tail(poll)
  /\ UNCHANGED <<plcside, client, bound, setup, handle, note, feed, need, notifications, slots,
                 port, work, supervisor, budget, failed>>

EndPoll ==
  /\ poll = <<>>
  /\ Idle("bulk", "publish")
  /\ UNCHANGED <<params, notifications, slots, port, supervisor, poll, budget, failed>>

Poller == PollSlots \/ PublishPolled \/ EndPoll

--------------------------------------------------------------------------------
(***************************************************************************)
(* The reader thread: `on_notification`, `on_symbols_changed`.             *)
(***************************************************************************)
TakeSample ==
  /\ pc["rd"] = "idle" /\ stream # <<>>
  /\ stream' = Tail(stream)
  /\ LET n == Head(stream)[1]
     IN  IF n \in DOMAIN notifications
         THEN /\ Goes("rd", "idle", "publish")
              /\ par' = [par EXCEPT !["rd"] = notifications[n]]
              /\ got' = [got EXCEPT !["rd"] = Head(stream)[2]]
              /\ UNCHANGED portChanged
         ELSE /\ portChanged' = (portChanged \/ n = portNote)
              /\ UNCHANGED <<pc, par, got>>
  /\ UNCHANGED <<plc, running, subs, noted, conns, up, client, params, notifications, slots, portUp,
                 portNeed, portNote, on, supervisor, poll, budget, failed>>

PublishSample ==
  /\ Goes("rd", "publish", "idle")
  /\ Show(par["rd"], got["rd"])
  /\ par' = [par EXCEPT !["rd"] = NoParam]
  /\ got' = [got EXCEPT !["rd"] = 0]
  /\ UNCHANGED <<plcside, client, bound, setup, handle, note, feed, need, notifications, slots,
                 port, on, supervisor, poll, budget, failed>>

Reader == TakeSample \/ PublishSample

--------------------------------------------------------------------------------
(***************************************************************************)
(* The actor: a bind (`drv_user_create`) and a write (`write_scalar`).     *)
(***************************************************************************)
Bind(p) ==
  /\ pc["act"] = "idle" /\ p \in Params \ bound
  /\ Spend
  /\ bound' = bound \cup {p} /\ need' = need \cup {p}
  /\ IF client \in up
     THEN Goes("act", "idle", "info") /\ par' = [par EXCEPT !["act"] = p]
     ELSE UNCHANGED <<pc, par>>
  /\ UNCHANGED <<plcside, client, setup, handle, note, feed, value, alarm, notifications, slots,
                 port, on, got, supervisor, poll, failed>>

\* One more record on a parameter: it is read, or refreshed if it is yet to be.
Rebind(p) ==
  /\ pc["act"] = "idle" /\ p \in bound \cap late
  /\ client \in up
  /\ Spend
  /\ par' = [par EXCEPT !["act"] = p]
  /\ \/ /\ p \in need \/ handle[p] = 0
        /\ Goes("act", "idle", "info")
        /\ UNCHANGED <<on, got>>
     \/ /\ p \notin need /\ Good(p, client)
        /\ Goes("act", "idle", "written")
        /\ on' = [on EXCEPT !["act"] = client]
        /\ got' = [got EXCEPT !["act"] = plc[p]]
  /\ UNCHANGED <<plcside, client, params, notifications, slots, port, supervisor, poll, failed>>

\* The PLC takes the value; the write is published when it has answered.
Write(p, v) ==
  /\ Goes("act", "idle", "written")
  /\ Good(p, client)
  /\ Spend
  /\ plc' = [plc EXCEPT ![p] = v]
  /\ on' = [on EXCEPT !["act"] = client]
  /\ par' = [par EXCEPT !["act"] = p]
  /\ got' = [got EXCEPT !["act"] = v]
  /\ UNCHANGED <<running, subs, noted, conns, up, stream, client, params, notifications, slots,
                 port, supervisor, poll, failed>>

\* Without an address, or when the PLC refuses or does not answer, which may be
\* after it has taken the value, the parameter is alarmed.
WriteFails(p, v) ==
  /\ pc["act"] = "idle" /\ p \in bound
  /\ Spend
  /\ plc' \in {plc} \cup (IF Good(p, client) THEN {[plc EXCEPT ![p] = v]} ELSE {})
  /\ alarm' = IF handle[p] = 0 \/ client # 0 THEN [alarm EXCEPT ![p] = "write"] ELSE alarm
  /\ UNCHANGED <<running, subs, noted, conns, up, stream, client, bound, setup, handle, note, feed,
                 value, need, notifications, slots, port, work, supervisor, poll, failed>>

PublishWritten ==
  /\ pc["act"] = "written"
  /\ Show(par["act"], got["act"])
  /\ Idle("act", "written")
  /\ UNCHANGED <<bound, setup, handle, note, feed, need, notifications, slots, port, supervisor,
                 poll, budget, failed>>

Actor == PublishWritten \/ Refresh("act")

--------------------------------------------------------------------------------
(***************************************************************************)
(* The PLC and the network.                                                *)
(***************************************************************************)
driver == <<client, params, notifications, slots, port, work, supervisor, poll, failed>>

PlcChanges(p, v) ==
  /\ plc[p] # v
  /\ Spend
  /\ plc' = [plc EXCEPT ![p] = v]
  /\ UNCHANGED <<driver, running, subs, noted, conns, up, stream>>

\* A change is pushed to its subscription, the latest value only.
Push ==
  /\ \E s \in subs :
       LET now == IF s.of = NoParam THEN InitialValue ELSE plc[s.of]
       IN  /\ s.conn = conns /\ s.seen # now
           /\ subs' = (subs \ {s}) \cup {[s EXCEPT !.seen = now]}
           /\ stream' = Append(stream, <<s.n, now>>)
  /\ UNCHANGED <<driver, plc, running, noted, conns, up, budget>>

\* A program is downloaded to the PLC: the symbol version changes.
Download ==
  /\ Spend
  /\ subs' = {IF s.of = NoParam THEN [s EXCEPT !.seen = NoValue] ELSE s : s \in subs}
  /\ UNCHANGED <<driver, plc, running, noted, conns, up, stream>>

StopOrRun == /\ Spend
             /\ running' = ~running
             /\ UNCHANGED <<driver, plc, subs, noted, conns, up, stream>>

LinkLost == /\ Spend
            /\ up # {} /\ pc["rd"] = "idle"
            /\ \E c \in up :
                 /\ up' = up \ {c}
                 /\ subs' = {s \in subs : s.conn # c}
                 /\ stream' = IF c = conns THEN <<>> ELSE stream
            /\ UNCHANGED <<driver, plc, running, noted, conns>>

Environment == \/ \E p \in Params : \/ Bind(p) \/ Rebind(p)
                                     \/ \E v \in Values : \/ Write(p, v) \/ WriteFails(p, v)
                                                         \/ PlcChanges(p, v)
               \/ Download \/ StopOrRun \/ LinkLost

Next == Supervisor \/ Poller \/ Reader \/ Actor \/ Push \/ Environment

Spec == Init /\ [][Next]_vars
FairSpec == /\ Spec
            /\ WF_vars(Supervisor) /\ WF_vars(Poller) /\ WF_vars(Reader) /\ WF_vars(Actor)
            /\ SF_vars(Connect /\ client' # 0)

--------------------------------------------------------------------------------
(***************************************************************************)
(* Properties.                                                             *)
(***************************************************************************)
\* The parameters keep their types, handles are of connections made, slots of
\* polled parameters.
TypeOK ==
  /\ value \in [Params -> Values \cup {NoValue}]
  /\ handle \in [Params -> 0 .. conns] /\ note \in [Params -> 0 .. noted]
  /\ client \in up \cup 0 .. conns
  /\ need \subseteq bound
  /\ \A k \in DOMAIN slots : slots[k].reason \in bulk

\* A parameter that is not to be refreshed is fed on the client's connection, by
\* a slot with a handle of it or by a notification of it that is known here,
\* unless it is being refreshed or the connection is being given up: nothing
\* clears `refresh_needed` of one whose feed died with an old connection.  It
\* does not hold of those the actor refreshes too (`ReconnectResolves`), and of
\* the polled ones on the port's first connection only: `disconnect` takes the
\* slots and leaves `Feed::Bulk`, so on a later one `add_to_bulk` updates a slot
\* that is another parameter's, or is not there (`NeverPanics`).
Busy(p) == \E t \in Refreshers : par[t] = p
Polled(p) == \E k \in DOMAIN slots :
                slots[k] = [reason |-> p, of |-> p, handle |-> client]
Subscribed(p) == /\ note[p] \in DOMAIN notifications /\ notifications[note[p]] = p
                 /\ client \in up => \E s \in subs : /\ s.n = note[p] /\ s.of = p
                                                      /\ s.conn = client
RefreshedIsFed ==
  pc["sup"] \notin {"clear", "drop"} =>
    \A p \in bound \ (need \cup late) :
       Busy(p) \/ IF p \in bulk THEN conns <= 1 => Polled(p) ELSE Subscribed(p)

\* When a connection was given up, every parameter is to be resolved again on
\* the next (`disconnect`).  The actor's refresh of a parameter may outlast
\* that, and then clears its `refresh_needed`.
ReconnectResolves == pc["sup"] = "connect" => bound \subseteq need

\* Once a connection stays up to a PLC in RUN, every parameter is refreshed, but
\* for those whose refresh failed: `cyclic_pass` and `disconnect` leave none
\* behind, whatever came before.  If it is the first, those that are polled show
\* the PLC's values without an alarm: the next cycle repairs what a write, a late
\* sample or an AMS port that was dropped left.  Nothing is said of how polled
\* ones recover from a reconnect, which may leave them without a slot of their
\* own or panic, nor of what feeds a subscribed one or one bound late.
Settled == client \in up /\ running /\ pc["sup"] # "panicked"
Shows(p) == value[p] = plc[p] /\ alarm[p] = "none"
AllComeAlive ==
  <>[]Settled =>
    <>[](/\ need \subseteq failed
         /\ conns = 1 => \A p \in (bound \cap bulk) \ failed : Shows(p))

\* A thread never panics (`groups[gi].entries[si]`): a parameter's slot is there
\* for as long as the parameter has it.
NeverPanics == \A t \in Refreshers : pc[t] # "panicked"
================================================================================
