------------------------------- MODULE OpcuaLeaf -------------------------------
(***************************************************************************)
(* A record's leaf (opcua/src/item.rs) and the passes the framework runs   *)
(* the record through (opcua/src/device_support.rs).  The client pushes    *)
(* updates from its own tasks; a one-slot channel carries the wake-up; the *)
(* framework's task for the record takes it, locks the record and runs a   *)
(* pass, which takes one update - unless the pass never reaches the device *)
(* (DISA, simulation, a breakpoint), or an opcuaItem record has a READ or  *)
(* WRITE order to carry out instead.                                       *)
(***************************************************************************)
EXTENDS OpcuaUpdateQueue

CONSTANTS IsItemRecord   \* the record is an opcuaItem, which takes READ/WRITE orders

ASSUME LeafAssumption == IsItemRecord \in BOOLEAN

VARIABLES token,      \* wake-ups in the channel
          owed,       \* the leaf owes the record a wake-up
          pulse,      \* where the framework's task for the record is
          pulsePass,  \* OpcuaDevice::pulse_pass: this pass is the one a pulse brought
          ordered     \* OpcuaItemRecord::pending: a READ or WRITE was put

leafvars == <<queue, pushed, delivered, token, owed, pulse, pulsePass, ordered>>

\* "waiting" for a wake-up; "holding" one, the record not locked yet; "armed",
\* the record locked and its pass under way; "done", the pass is through.
PulseStates == {"waiting", "holding", "armed", "done"}

LeafInit == /\ Init
            /\ token = 0
            /\ owed = FALSE
            /\ pulse = "waiting"
            /\ pulsePass = FALSE
            /\ ordered = FALSE

\* A pass runs with the record locked; a pulse's pass is the only one of several
\* steps, since the client pushes while it runs.
RecordLocked == pulse \in {"armed", "done"}

--------------------------------------------------------------------------------
\* A channel of one slot; a full one is left as it is (`try_send`).
Woken(n) == IF n < 1 THEN n + 1 ELSE n

\* Mutant: a wake-up that is owed is not given.
NeedsWakeFirst(q, o) == WasFirst(q)

\* Mutant: only a wake-up that is owed is given.
NeedsWakeOwed(q, o) == o

NeedsWake(q, o) == WasFirst(q) \/ o

\* The client queues an update, and wakes the record if it is the first or if a
\* wake-up is owed (`Leaf::push`).
LeafPush == /\ Push
            /\ token' = IF NeedsWake(queue, owed) THEN Woken(token) ELSE token
            /\ owed' = FALSE
            /\ UNCHANGED <<pulse, pulsePass, ordered>>

\* The record's task takes the wake-up.
TakePulse == /\ pulse = "waiting"
             /\ token > 0
             /\ token' = token - 1
             /\ pulse' = "holding"
             /\ UNCHANGED <<queue, pushed, delivered, owed, pulsePass, ordered>>

\* It locks the record and tells the device (`arm_readback_callback`).
ArmPulsePass == /\ pulse = "holding"
                /\ pulse' = "armed"
                /\ pulsePass' = TRUE
                /\ UNCHANGED <<queue, pushed, delivered, token, owed, ordered>>

\* Mutant: the update being taken counts as one behind it.
BehindTaken(q) == Len(q) > 0

\* There is another update behind the one a pass takes.
Behind(q) == Len(q) > 1

\* The pass reaches the device, which takes one update and wakes the record again
\* if another is queued behind it (`take_update`, `Leaf::pop`).
PassTakesUpdate == /\ pulse = "armed"
                   /\ ~ordered
                   /\ pulse' = "done"
                   /\ pulsePass' = FALSE
                   /\ Pop
                   /\ token' = IF Behind(queue) THEN Woken(token) ELSE token
                   /\ UNCHANGED <<owed, ordered>>

\* The pass reaches an opcuaItem record that has an order: the order takes the
\* pass and the update stays queued (`item_action`).
PassTakesOrder == /\ pulse = "armed"
                  /\ ordered
                  /\ ordered' = FALSE
                  /\ pulse' = "done"
                  /\ UNCHANGED <<queue, pushed, delivered, token, owed, pulsePass>>

\* Mutant: the update of a pass that does not reach the device is dropped.
PassBlockedDropping == /\ pulse = "armed"
                       /\ pulse' = "done"
                       /\ queue' = Tail(queue)
                       /\ UNCHANGED <<pushed, delivered, token, owed, pulsePass, ordered>>

\* The pass does not reach the device.
PassBlocked == /\ pulse = "armed"
               /\ pulse' = "done"
               /\ UNCHANGED <<queue, pushed, delivered, token, owed, pulsePass, ordered>>

\* The record is unlocked; a pass that took nothing leaves a wake-up owed
\* (`reconcile_readback_callback`, `Leaf::owe_wake`).
Reconcile == /\ pulse = "done"
             /\ pulse' = "waiting"
             /\ owed' = (owed \/ pulsePass)
             /\ pulsePass' = FALSE
             /\ UNCHANGED <<queue, pushed, delivered, token, ordered>>

\* A put to READ or WRITE of an opcuaItem record (`special`).
PutOrder == /\ IsItemRecord
            /\ ~RecordLocked
            /\ ordered' = TRUE
            /\ UNCHANGED <<queue, pushed, delivered, token, owed, pulse, pulsePass>>

\* Any other pass - a scan, a put, a forward link: it takes the order if there is
\* one and never an update (`take_update` on a pass without `pulse_pass`).
OtherPass == /\ ~RecordLocked
             /\ ordered
             /\ ordered' = FALSE
             /\ UNCHANGED <<queue, pushed, delivered, token, owed, pulse, pulsePass>>

Framework == \/ TakePulse
             \/ ArmPulsePass
             \/ PassTakesUpdate
             \/ PassTakesOrder
             \/ PassBlocked
             \/ Reconcile

LeafNext == LeafPush \/ Framework \/ PutOrder \/ OtherPass

LeafSpec == LeafInit /\ [][LeafNext]_leafvars

\* The framework runs the record's task and gives it the record's lock; nothing
\* is assumed of the client, of the puts and scans, or of what blocks a pass.
FairLeafSpec == LeafSpec /\ WF_leafvars(Framework)

--------------------------------------------------------------------------------
\* What the leaf's fields, the channel and the device's flag hold.
LeafTypeOK == /\ TypeOK
              /\ token \in 0 .. 1
              /\ owed \in BOOLEAN
              /\ pulse \in PulseStates
              /\ pulsePass \in BOOLEAN
              /\ ordered \in BOOLEAN

\* Each way in which the leaf has yet to see the record through a pass.
Wakes == token
         + (IF pulse = "holding" THEN 1 ELSE 0)
         + (IF pulsePass THEN 1 ELSE 0)
         + (IF owed THEN 1 ELSE 0)

\* A queue that is not empty has exactly one wake-up on its way or owed, and an
\* empty one none, whatever pushes, blocked passes and orders came in between.
\* One too few would leave an update queued with nothing to take it; one too
\* many would run an input record through a pass that finds nothing and asks the
\* server for a read nobody ordered (item.rs: `queue`'s comment).
OneWake == Wakes = IF queue = <<>> THEN 0 ELSE 1

\* The pass a pulse brought finds the update the pulse was for: no other pass
\* took it while the pulse waited for the record's lock.
PulseFindsUpdate == pulse \in {"holding", "armed"} => queue # <<>>

\* An update is taken, or the pass that was to take it was blocked and a wake-up
\* is owed: it never just stays in the queue.
UpdateTakenOrOwed == (queue # <<>>) ~> (queue = <<>> \/ owed)
================================================================================
