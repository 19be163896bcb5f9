----------------------------- MODULE OpcuaLeafProofs -----------------------------
(***************************************************************************)
(* Proofs about the leaf and the passes of its record, for every queue     *)
(* capacity, both discard policies and every kind of record.               *)
(***************************************************************************)
EXTENDS OpcuaLeaf, OpcuaUpdateQueueProofs

\* Nothing but `Leaf::push` and `Leaf::pop` touches the queue, so what is proved
\* of the queue holds for every leaf.
LEMMA LeafImplementsQueue == LeafSpec => Spec
<1>1. LeafInit => Init
  BY DEF LeafInit
<1>2. [LeafNext]_leafvars => [Next]_qvars
  BY DEF LeafNext, LeafPush, Framework, TakePulse, ArmPulsePass, PassTakesUpdate,
         PassTakesOrder, PassBlocked, Reconcile, PutOrder, OtherPass,
         leafvars, qvars, Next
<1>3. QED BY <1>1, <1>2, PTL DEF LeafSpec, Spec

--------------------------------------------------------------------------------
\* The wake-up accounting needs the device's flag tied to the pass it belongs to:
\* it is only set while a pulse's pass is under way.
FlagInPass == pulsePass => pulse \in {"armed", "done"}
ArmedHasFlag == pulse = "armed" => pulsePass

WakeTypes == /\ token \in Nat
             /\ owed \in BOOLEAN
             /\ pulse \in PulseStates
             /\ pulsePass \in BOOLEAN
             /\ ordered \in BOOLEAN

LeafInv == WakeTypes /\ OneWake /\ FlagInPass /\ ArmedHasFlag

\* A push leaves something in the queue, and a pop leaves nothing exactly when
\* there was one update.
LEMMA QueueSteps ==
  ASSUME TypeOK, TypeOK'
  PROVE  /\ Push => queue' # <<>>
         /\ Pop => (queue' = <<>> <=> ~(Len(queue) > 1))
<1> USE DEF TypeOK
<1>1. ASSUME Push PROVE queue' # <<>>
  <2> DEFINE u == NewUpdate(pushed + 1)
  <2>1. u \in UpdateRecords
    BY DEF NewUpdate, UpdateRecords
  <2>2. queue' = PushUpdate(queue, u)
    BY <1>1 DEF Push
  <2>3. Len(queue) \in Nat /\ Len(queue) <= Capacity /\ Capacity \in Nat /\ Capacity > 0
    BY CapacityPositive, LenProperties
  <2>4. CASE Len(queue) < Capacity
    BY <2>1, <2>2, <2>3, <2>4, PushWithRoom, EmptySeq
  <2>5. CASE Len(queue) = Capacity /\ DiscardOldest
    <3>1. queue' \in Seq(UpdateRecords) /\ Shifted(queue, u, queue')
      BY <2>1, <2>2, <2>3, <2>5, PushDiscardingOldest
    <3>2. Len(queue') = Len(queue)
      BY <3>1 DEF Shifted
    <3>3. QED BY <2>3, <2>5, <3>1, <3>2, EmptySeq
  <2>6. CASE Len(queue) = Capacity /\ ~DiscardOldest
    BY <2>1, <2>2, <2>3, <2>6, PushDiscardingNewest, EmptySeq
  <2>7. QED BY <2>3, <2>4, <2>5, <2>6
<1>2. ASSUME Pop PROVE queue' = <<>> <=> ~(Len(queue) > 1)
  <2>1. /\ queue \in Seq(UpdateRecords) /\ queue # <<>>
        /\ queue' = Tail(queue) /\ Len(queue) \in Nat \ {0}
    BY <1>2, EmptySeq DEF Pop
  <2>2. Len(queue') = Len(queue) - 1
    <3> HIDE DEF TypeOK
    <3>1. \A q \in Seq(UpdateRecords) : q # <<>> => Len(Tail(q)) = Len(q) - 1
      BY HeadTailProperties, Zenon
    <3>2. QED BY <2>1, <3>1
  <2>3. queue' = <<>> <=> Len(queue') = 0
    BY EmptySeq
  <2> HIDE DEF TypeOK
  <2>4. \A n \in Nat \ {0} : n - 1 = 0 <=> ~(n > 1)
    OBVIOUS
  <2>5. QED BY <2>1, <2>2, <2>3, <2>4, Zenon
<1>3. QED BY <1>1, <1>2

\* Every step of the client, the framework and the puts keeps the wake-ups right.
LEMMA LeafStepKeepsInv ==
  TypeOK /\ TypeOK' /\ LeafInv /\ [LeafNext]_leafvars => LeafInv'
<1> SUFFICES ASSUME TypeOK, TypeOK', LeafInv, [LeafNext]_leafvars PROVE LeafInv'
  OBVIOUS
<1>1. CASE LeafPush
  <2>1. queue' # <<>>
    BY <1>1, QueueSteps DEF LeafPush
  <2>2. WakeTypes' /\ FlagInPass' /\ ArmedHasFlag'
    <3>1. token' \in Nat
      BY <1>1 DEF LeafPush, LeafInv, WakeTypes, Woken, NeedsWake
    <3>2. QED BY <1>1, <3>1 DEF LeafPush, LeafInv, WakeTypes, FlagInPass, ArmedHasFlag
  <2>3. OneWake'
    BY <1>1, <2>1 DEF LeafPush, WasFirst, NeedsWake, LeafInv, WakeTypes, OneWake, Wakes, Woken
  <2>4. QED BY <2>2, <2>3 DEF LeafInv
<1>2. CASE TakePulse
  <2>1. WakeTypes' /\ FlagInPass' /\ ArmedHasFlag'
    BY <1>2 DEF TakePulse, LeafInv, WakeTypes, FlagInPass, ArmedHasFlag, PulseStates
  <2>2. OneWake'
    BY <1>2 DEF TakePulse, LeafInv, WakeTypes, OneWake, Wakes
  <2>3. QED BY <2>1, <2>2 DEF LeafInv
<1>3. CASE ArmPulsePass
  <2>1. WakeTypes' /\ FlagInPass' /\ ArmedHasFlag'
    BY <1>3 DEF ArmPulsePass, LeafInv, WakeTypes, FlagInPass, ArmedHasFlag, PulseStates
  <2>2. OneWake'
    BY <1>3 DEF ArmPulsePass, LeafInv, WakeTypes, OneWake, Wakes, FlagInPass
  <2>3. QED BY <2>1, <2>2 DEF LeafInv
<1>4. CASE PassTakesUpdate
  <2>1. queue # <<>> /\ (queue' = <<>> <=> ~(Len(queue) > 1))
    BY <1>4, QueueSteps DEF PassTakesUpdate, Pop
  <2>2. WakeTypes' /\ FlagInPass' /\ ArmedHasFlag'
    <3>1. token' \in Nat
      BY <1>4 DEF PassTakesUpdate, LeafInv, WakeTypes, Woken, Behind
    <3>2. QED
      BY <1>4, <3>1
         DEF PassTakesUpdate, LeafInv, WakeTypes, FlagInPass, ArmedHasFlag, PulseStates
  <2>3. OneWake'
    BY <1>4, <2>1 DEF PassTakesUpdate, LeafInv, WakeTypes, OneWake, Wakes, ArmedHasFlag, Woken, Behind
  <2>4. QED BY <2>2, <2>3 DEF LeafInv
<1>5. CASE PassTakesOrder
  <2>1. WakeTypes' /\ FlagInPass' /\ ArmedHasFlag'
    BY <1>5 DEF PassTakesOrder, LeafInv, WakeTypes, FlagInPass, ArmedHasFlag, PulseStates
  <2>2. OneWake'
    BY <1>5 DEF PassTakesOrder, LeafInv, OneWake, Wakes
  <2>3. QED BY <2>1, <2>2 DEF LeafInv
<1>6. CASE PassBlocked
  <2>1. WakeTypes' /\ FlagInPass' /\ ArmedHasFlag'
    BY <1>6 DEF PassBlocked, LeafInv, WakeTypes, FlagInPass, ArmedHasFlag, PulseStates
  <2>2. OneWake'
    BY <1>6 DEF PassBlocked, LeafInv, OneWake, Wakes
  <2>3. QED BY <2>1, <2>2 DEF LeafInv
<1>7. CASE Reconcile
  <2>1. WakeTypes' /\ FlagInPass' /\ ArmedHasFlag'
    BY <1>7 DEF Reconcile, LeafInv, WakeTypes, FlagInPass, ArmedHasFlag, PulseStates
  <2>2. OneWake'
    <3>1. CASE pulsePass
      <4>1. owed' = TRUE /\ pulsePass' = FALSE /\ token' = token /\ queue' = queue
        BY <1>7, <3>1 DEF Reconcile
      <4>2. pulse' = "waiting" /\ pulse = "done" /\ token \in Nat
        BY <1>7 DEF Reconcile, LeafInv, WakeTypes
      <4>3. owed = FALSE
        BY <3>1, <4>2 DEF LeafInv, WakeTypes, OneWake, Wakes
      <4>4. QED BY <3>1, <4>1, <4>2, <4>3 DEF LeafInv, OneWake, Wakes
    <3>2. CASE ~pulsePass
      BY <1>7, <3>2 DEF Reconcile, LeafInv, WakeTypes, OneWake, Wakes
    <3>3. QED BY <3>1, <3>2
  <2>3. QED BY <2>1, <2>2 DEF LeafInv
<1>8. CASE PutOrder
  BY <1>8 DEF PutOrder, LeafInv, WakeTypes, OneWake, Wakes, FlagInPass, ArmedHasFlag
<1>9. CASE OtherPass
  BY <1>9 DEF OtherPass, LeafInv, WakeTypes, OneWake, Wakes, FlagInPass, ArmedHasFlag
<1>10. CASE UNCHANGED leafvars
  BY <1>10 DEF leafvars, LeafInv, WakeTypes, OneWake, Wakes, FlagInPass, ArmedHasFlag
<1>11. QED
  BY <1>1, <1>2, <1>3, <1>4, <1>5, <1>6, <1>7, <1>8, <1>9, <1>10 DEF LeafNext, Framework

\* A leaf starts with nothing queued and no wake-up (`Leaf::new`).
LEMMA LeafInitHasInv == LeafInit => LeafInv
<1> SUFFICES ASSUME LeafInit PROVE LeafInv
  OBVIOUS
<1>1. WakeTypes /\ FlagInPass /\ ArmedHasFlag
  BY DEF LeafInit, WakeTypes, FlagInPass, ArmedHasFlag, PulseStates
<1>2. OneWake
  BY DEF LeafInit, Init, OneWake, Wakes
<1>3. QED BY <1>1, <1>2 DEF LeafInv

\* Type correctness of the leaf, its channel and the device's flag.
THEOREM LeafTypeCorrect == LeafSpec => []LeafTypeOK
<1>1. TypeOK /\ LeafInv => LeafTypeOK
  <2> SUFFICES ASSUME TypeOK, LeafInv PROVE LeafTypeOK
    OBVIOUS
  <2>1. token \in Nat /\ Wakes <= 1
    BY DEF LeafInv, WakeTypes, OneWake
  <2>2. token \in 0 .. 1
    BY <2>1 DEF Wakes, LeafInv, WakeTypes
  <2>3. QED BY <2>2 DEF LeafTypeOK, LeafInv, WakeTypes
<1>2. QED
  BY <1>1, LeafInitHasInv, LeafStepKeepsInv, LeafImplementsQueue, TypeCorrect, PTL DEF LeafSpec

\* The comment on the leaf's queue - "a non-empty queue always has a wake-up
\* pending or owed" - holds for every capacity, policy and kind of record, and
\* more: it has exactly one, and an empty queue none, so no wake-up is lost and
\* none is spare.
THEOREM OneWakeAlways == LeafSpec => []OneWake
<1>1. LeafInv => OneWake
  BY DEF LeafInv
<1>2. QED
  BY <1>1, LeafInitHasInv, LeafStepKeepsInv, LeafImplementsQueue, TypeCorrect, PTL DEF LeafSpec

\* A pulse's pass finds the update the pulse was for, however long it waits for
\* the record's lock and whatever passes come in between (`take_update`: a pass
\* that no pulse brought takes none).
THEOREM PulseHasItsUpdate == LeafSpec => []PulseFindsUpdate
<1>1. LeafInv => PulseFindsUpdate
  BY DEF LeafInv, WakeTypes, OneWake, Wakes, ArmedHasFlag, PulseFindsUpdate
<1>2. QED
  BY <1>1, LeafInitHasInv, LeafStepKeepsInv, LeafImplementsQueue, TypeCorrect, PTL DEF LeafSpec

\* The record takes updates in the order they were pushed, whichever were given
\* up on the way, under both discard policies.
THEOREM LeafKeepsOrder == LeafSpec => []OldestFirst
  BY LeafImplementsQueue, NewestIsQueued, PTL

\* The losses a record learns of are exactly counted, however its passes go.
THEOREM LeafLossesCounted == LeafSpec => []GapsAccounted
  BY LeafImplementsQueue, LossesCounted, PTL

\* A record gets a lossy mailbox from its leaf, whatever wakes it, blocks it or
\* gives it orders: `push` and `pop` are all that becomes of its updates.
THEOREM LeafIsMailbox == LeafSpec => MailboxSpec
  BY LeafImplementsQueue, QueueIsMailbox, PTL
================================================================================
