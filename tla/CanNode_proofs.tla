--------------------------- MODULE CanNode_proofs ---------------------------
(* Theorems about CanNode, for every size of the queues and any number of    *)
(* requests and bus-offs.                                                    *)
EXTENDS CanNode, Integers, SequenceTheorems, TLAPS

-----------------------------------------------------------------------------
(* The recovery from bus-off *)

\* An alert tells the state the driver is still in, until it is read; while the
\* watch works on it no other alert comes.
WatchInv ==
  /\ alerts \subseteq Alerts
  /\ watch \in {"sleep", "start", "off", "initiate"}
  /\ driver \in {"running", "bus_off", "recovering", "stopped"}
  /\ "bus_off" \in alerts => driver = "bus_off"
  /\ "recovered" \in alerts => driver = "stopped"
  /\ watch # "sleep" => alerts = {}
  /\ watch = "start" => "bus_off" \notin seen

RecoveryInv == WatchInv /\ RecoveryInStep

LEMMA RebootRecovery == Reboot => RecoveryInv'
BY DEF Reboot, RecoveryInv, WatchInv, RecoveryInStep

LEMMA RecoveryStep == RecoveryInv /\ [Next]_vars => RecoveryInv'
<1> SUFFICES ASSUME RecoveryInv, [Next]_vars PROVE RecoveryInv'
  OBVIOUS
<1> USE DEF RecoveryInv, WatchInv, RecoveryInStep, Alerts
<1>1. CASE UNCHANGED <<driver, alerts, watch, seen>>
  BY <1>1
<1>2. CASE UavcanTask
  <2>1. Restart \/ UNCHANGED <<driver, alerts, watch, seen>>
    BY <1>2 DEF UavcanTask, IoPart, StatusPart, HandleRequest, NoMoreRequests,
                Transmit, Flushed, watchVars
  <2> QED
    BY <1>1, <2>1, RebootRecovery DEF Restart
<1>3. CASE WatchRead
  BY <1>3 DEF WatchRead
<1>4. CASE WatchStart
  BY <1>4, RebootRecovery DEF WatchStart
<1>5. CASE WatchDelay
  BY <1>5 DEF WatchDelay
<1>6. CASE WatchInitiate
  BY <1>6 DEF WatchInitiate
<1>7. CASE BusOff
  BY <1>7 DEF BusOff, watchVars
<1>8. CASE Recovered
  BY <1>8 DEF Recovered, watchVars
<1>9. CASE StatusDue \/ DriverSends \/ \E r \in Requests : Ask(r)
  BY <1>1, <1>9 DEF StatusDue, DriverSends, Ask, watchVars
<1>10. CASE UNCHANGED vars
  BY <1>1, <1>10 DEF vars, watchVars
<1> QED
  BY <1>2, <1>3, <1>4, <1>5, <1>6, <1>7, <1>8, <1>9, <1>10 DEF Next, WatchTask

\* can_watch_task starts the driver and initiates the recovery only in the state
\* in which the driver obeys, and no bus-off is ever forgotten.
THEOREM RecoveryStaysInStep == Spec => []RecoveryInStep
<1>1. Init => RecoveryInv
  BY DEF Init, RecoveryInv, WatchInv, RecoveryInStep
<1>2. RecoveryInv => RecoveryInStep
  BY DEF RecoveryInv
<1> QED
  BY <1>1, <1>2, RecoveryStep, PTL DEF Spec

-----------------------------------------------------------------------------
(* The queues *)

LEMMA FitFacts ==
  ASSUME NEW q \in Seq(Frames), Len(q) <= PoolCap, NEW n \in Nat
  PROVE  Fit(q, n) \in Nat /\ Len(q) + Fit(q, n) <= PoolCap
<1>1. Len(q) \in Nat /\ PoolCap \in Nat
  BY SizesAssumption
<1> QED
  BY <1>1 DEF Fit

LEMMA QueuedOK ==
  ASSUME NEW q \in Seq(Frames), Len(q) <= PoolCap, NEW f \in Frames, NEW n \in Nat
  PROVE  Queued(q, f, n) \in Seq(Frames) /\ Len(Queued(q, f, n)) <= PoolCap
<1> DEFINE new == [i \in 1..Fit(q, n) |-> f]
<1>1. Fit(q, n) \in Nat /\ Len(q) + Fit(q, n) <= PoolCap
  BY FitFacts
<1>2. new \in Seq(Frames) /\ Len(new) = Fit(q, n)
  BY <1>1
<1> HIDE DEF new
<1>3. q \o new \in Seq(Frames) /\ Len(q \o new) = Len(q) + Len(new)
  BY <1>2, ConcatProperties
<1>4. Queued(q, f, n) = q \o new
  BY DEF Queued, new
<1> QED
  BY <1>1, <1>2, <1>3, <1>4

LEMMA RemoveOK ==
  ASSUME NEW q \in Seq(Frames), Len(q) <= PoolCap, NEW i \in DOMAIN q
  PROVE  /\ RemoveAt(q, i) \in Seq(Frames) /\ Len(RemoveAt(q, i)) <= PoolCap
         /\ q[i] \in Frames
<1> DEFINE first == SubSeq(q, 1, i - 1)
           rest  == SubSeq(q, i + 1, Len(q))
<1>1. i \in 1..Len(q) /\ Len(q) \in Nat /\ PoolCap \in Nat
  BY SizesAssumption
<1>2. first \in Seq(Frames) /\ Len(first) = i - 1
  BY <1>1, SubSeqProperties
<1>3. rest \in Seq(Frames) /\ Len(rest) = Len(q) - i
  BY <1>1, SubSeqProperties
<1> HIDE DEF first, rest
<1>4. first \o rest \in Seq(Frames) /\ Len(first \o rest) = Len(first) + Len(rest)
  BY <1>2, <1>3, ConcatProperties
<1>5. RemoveAt(q, i) = first \o rest
  BY DEF RemoveAt, first, rest
<1>6. q[i] \in Frames
  BY <1>1
<1> QED
  BY <1>1, <1>2, <1>3, <1>4, <1>5, <1>6

LEMMA PushPop ==
  ASSUME NEW S, NEW q \in Seq(S)
  PROVE  /\ Len(q) \in Nat
         /\ q # <<>> => Head(q) \in S /\ Tail(q) \in Seq(S) /\ Len(Tail(q)) = Len(q) - 1
         /\ \A e \in S : Append(q, e) \in Seq(S) /\ Len(Append(q, e)) = Len(q) + 1
OBVIOUS

-----------------------------------------------------------------------------
(* The types *)

LEMMA SizeFacts ==
  /\ PoolCap \in Nat /\ 1 <= PoolCap /\ DriverCap \in Nat /\ RxCap \in Nat
  /\ InfoLen \in Nat /\ Commands \in Nat /\ MaxAsk \in Nat /\ MaxOff \in Nat
BY SizesAssumption

LEMMA NewQueues ==
  /\ <<"status">> \in Seq(Frames) /\ Len(<<"status">>) <= PoolCap
  /\ <<>> \in Seq(Frames) /\ <<>> \in Seq(Requests) /\ Len(<<>>) = 0
  /\ 0 <= DriverCap /\ 0 <= RxCap
BY SizeFacts DEF Frames

\* The parts of TypeOK.
QueueTypes ==
  /\ txq \in Seq(Frames) /\ Len(txq) <= PoolCap
  /\ sendq \in Seq(Frames) /\ Len(sendq) <= DriverCap
  /\ rxq \in Seq(Requests) /\ Len(rxq) <= RxCap

StateTypes ==
  /\ pc \in {"io", "status", "rx", "tx"} /\ next \in {"io", "status"}
  /\ due \in BOOLEAN /\ pending \in BOOLEAN
  /\ driver \in {"running", "bus_off", "recovering", "stopped"}
  /\ alerts \subseteq Alerts /\ seen \subseteq Alerts
  /\ watch \in {"sleep", "start", "off", "initiate"}

CountTypes == boots \in Nat /\ asks \in 0..MaxAsk /\ offs \in 0..MaxOff

LEMMA TypeParts == TypeOK <=> QueueTypes /\ StateTypes /\ CountTypes
BY DEF TypeOK, QueueTypes, StateTypes, CountTypes

LEMMA RebootTypes == TypeOK /\ Reboot => TypeOK'
<1> SUFFICES ASSUME TypeOK, Reboot PROVE TypeOK'
  OBVIOUS
<1>1. txq' = <<"status">> /\ sendq' = <<>> /\ rxq' = <<>>
  BY DEF Reboot
<1>2. QueueTypes'
  BY <1>1, NewQueues DEF QueueTypes
<1>3. StateTypes'
  BY DEF Reboot, StateTypes, Alerts
<1>4. CountTypes'
  BY TypeParts DEF Reboot, CountTypes, busVars
<1> QED
  BY <1>2, <1>3, <1>4, TypeParts DEF TypeOK, QueueTypes, StateTypes, CountTypes

LEMMA StateStep ==
  ASSUME TypeOK, [Next]_vars, ~Reboot
  PROVE  StateTypes' /\ CountTypes'
<1> USE TypeParts DEF StateTypes, CountTypes, watchVars, busVars
<1>1. CASE UavcanTask
  <2>1. due' \in BOOLEAN /\ pending' \in BOOLEAN
    BY <1>1 DEF UavcanTask, IoPart, StatusPart, HandleRequest, NoMoreRequests,
                Transmit, Flushed, Restart
  <2>2. pc' \in {"io", "status", "rx", "tx"} /\ next' \in {"io", "status"}
    BY <1>1 DEF UavcanTask, IoPart, StatusPart, HandleRequest, NoMoreRequests,
                Transmit, Flushed, Restart
  <2>3. UNCHANGED <<boots, driver, alerts, watch, seen, asks, offs>>
    BY <1>1 DEF UavcanTask, IoPart, StatusPart, HandleRequest, NoMoreRequests,
                Transmit, Flushed, Restart
  <2> QED
    BY <2>1, <2>2, <2>3
<1>2. CASE WatchTask
  <2>1. UNCHANGED <<pc, next, due, pending, boots, asks, offs>>
    BY <1>2 DEF WatchTask, WatchRead, WatchStart, WatchDelay, WatchInitiate, taskVars
  <2>2. /\ driver' \in {"running", "bus_off", "recovering", "stopped"}
        /\ watch' \in {"sleep", "start", "off", "initiate"}
    BY <1>2 DEF WatchTask, WatchRead, WatchStart, WatchDelay, WatchInitiate
  <2>3. alerts' \subseteq Alerts /\ seen' \subseteq Alerts
    BY <1>2 DEF WatchTask, WatchRead, WatchStart, WatchDelay, WatchInitiate
  <2> QED
    BY <2>1, <2>2, <2>3
<1>3. CASE StatusDue \/ DriverSends
  BY <1>3 DEF StatusDue, DriverSends, taskVars
<1>4. CASE \E r \in Requests : Ask(r)
  <2>1. /\ asks < MaxAsk /\ asks' = asks + 1
        /\ UNCHANGED <<pc, next, due, pending, boots, driver, alerts, watch, seen, offs>>
    BY <1>4 DEF Ask, taskVars
  <2>2. asks \in 0..MaxAsk
    OBVIOUS
  <2>3. asks' \in 0..MaxAsk
    BY ONLY <2>1, <2>2, SizeFacts
  <2> QED
    BY <2>1, <2>3
<1>5. CASE BusOff
  <2>1. /\ offs < MaxOff /\ offs' = offs + 1 /\ driver' = "bus_off"
        /\ alerts' = alerts \cup {"bus_off"}
        /\ UNCHANGED <<pc, next, due, pending, boots, watch, seen, asks>>
    BY <1>5 DEF BusOff, taskVars
  <2>2. offs \in 0..MaxOff /\ offs < MaxOff /\ offs' = offs + 1
    BY <2>1
  <2>3. offs' \in 0..MaxOff
    BY ONLY <2>2, SizeFacts
  <2> QED
    BY <2>1, <2>3 DEF Alerts
<1>6. CASE Recovered
  BY <1>6 DEF Recovered, taskVars, Alerts
<1>7. CASE UNCHANGED vars
  BY <1>7 DEF vars, taskVars
<1> QED
  BY <1>1, <1>2, <1>3, <1>4, <1>5, <1>6, <1>7 DEF Next

LEMMA QueueStep ==
  ASSUME TypeOK, [Next]_vars, ~Reboot
  PROVE  QueueTypes'
<1>1. /\ txq \in Seq(Frames) /\ Len(txq) <= PoolCap
      /\ sendq \in Seq(Frames) /\ Len(sendq) <= DriverCap
      /\ rxq \in Seq(Requests) /\ Len(rxq) <= RxCap
  BY DEF TypeOK
<1>2. /\ Len(txq) \in Nat /\ Len(sendq) \in Nat /\ Len(rxq) \in Nat
      /\ \A e \in Frames : Append(sendq, e) \in Seq(Frames)
                           /\ Len(Append(sendq, e)) = Len(sendq) + 1
      /\ \A r \in Requests : Append(rxq, r) \in Seq(Requests)
                             /\ Len(Append(rxq, r)) = Len(rxq) + 1
  BY <1>1, PushPop
<1>3. ASSUME sendq # <<>>
      PROVE  Tail(sendq) \in Seq(Frames) /\ Len(Tail(sendq)) <= DriverCap
  <2>1. Tail(sendq) \in Seq(Frames) /\ Len(Tail(sendq)) = Len(sendq) - 1
    BY <1>1, <1>3, PushPop
  <2> QED
    BY <1>1, <1>2, <2>1, SizeFacts
<1>4. ASSUME rxq # <<>>
      PROVE  Tail(rxq) \in Seq(Requests) /\ Len(Tail(rxq)) <= RxCap
  <2>1. Tail(rxq) \in Seq(Requests) /\ Len(Tail(rxq)) = Len(rxq) - 1
    BY <1>1, <1>4, PushPop
  <2> QED
    BY <1>1, <1>2, <2>1, SizeFacts
<1>5. CASE UNCHANGED <<txq, sendq, rxq>>
  BY <1>1, <1>5 DEF QueueTypes
<1>6. CASE UavcanTask
  <2>1. CASE IoPart \/ StatusPart \/ HandleRequest
    <3>1. txq' = txq \/ \E f \in Frames, n \in Nat : txq' = Queued(txq, f, n)
      <4>1. {"command", "status", "info", "restart"} \subseteq Frames
        BY DEF Frames
      <4>2. {Commands, 1, InfoLen} \subseteq Nat
        BY SizeFacts
      <4> QED
        BY <2>1, <4>1, <4>2, Zenon DEF IoPart, StatusPart, HandleRequest
    <3>2. txq' \in Seq(Frames) /\ Len(txq') <= PoolCap
      BY <1>1, <3>1, QueuedOK
    <3>3. sendq' = sendq /\ (rxq' = rxq \/ (rxq # <<>> /\ rxq' = Tail(rxq)))
      BY <2>1 DEF IoPart, StatusPart, HandleRequest
    <3>4. rxq' \in Seq(Requests) /\ Len(rxq') <= RxCap
      BY <1>1, <1>4, <3>3, Zenon
    <3>5. sendq' \in Seq(Frames) /\ Len(sendq') <= DriverCap
      BY <1>1, <3>3, Zenon
    <3> QED
      BY <3>2, <3>4, <3>5 DEF QueueTypes
  <2>2. CASE Transmit
    <3>1. PICK i \in DOMAIN txq :
            txq' = RemoveAt(txq, i) /\ sendq' = Append(sendq, txq[i])
      BY <2>2 DEF Transmit
    <3>2. Len(sendq) < DriverCap /\ rxq' = rxq
      BY <2>2 DEF Transmit
    <3>3. RemoveAt(txq, i) \in Seq(Frames) /\ Len(RemoveAt(txq, i)) <= PoolCap
          /\ txq[i] \in Frames
      BY <1>1, RemoveOK
    <3>4. txq' \in Seq(Frames) /\ Len(txq') <= PoolCap
      BY <3>1, <3>3, Zenon
    <3>5. sendq' \in Seq(Frames) /\ Len(sendq') = Len(sendq) + 1
      BY <1>2, <3>1, <3>3, Zenon
    <3>6. Len(sendq') <= DriverCap
      BY <1>2, <3>2, <3>5, SizeFacts
    <3> QED
      BY <1>1, <3>2, <3>4, <3>5, <3>6 DEF QueueTypes
  <2> QED
    BY <1>5, <1>6, <2>1, <2>2 DEF UavcanTask, NoMoreRequests, Flushed, Restart
<1>7. CASE DriverSends
  <2>1. sendq # <<>> /\ sendq' = Tail(sendq) /\ txq' = txq /\ rxq' = rxq
    BY <1>7 DEF DriverSends, taskVars
  <2>2. sendq' \in Seq(Frames) /\ Len(sendq') <= DriverCap
    BY <1>3, <2>1, Zenon
  <2> QED
    BY <1>1, <2>1, <2>2 DEF QueueTypes
<1>8. CASE WatchInitiate
  <2>1. (sendq' = sendq \/ sendq' = <<>>) /\ txq' = txq /\ rxq' = rxq
    BY <1>8 DEF WatchInitiate, taskVars
  <2>2. sendq' \in Seq(Frames) /\ Len(sendq') <= DriverCap
    BY <1>1, <2>1, NewQueues, Zenon
  <2> QED
    BY <1>1, <2>1, <2>2 DEF QueueTypes
<1>9. ASSUME NEW r \in Requests, Ask(r) PROVE QueueTypes'
  <2>1. /\ sendq' = sendq /\ txq' = txq
        /\ rxq' = rxq \/ (Len(rxq) < RxCap /\ rxq' = Append(rxq, r))
    BY <1>9 DEF Ask, taskVars
  <2>2. CASE rxq' = rxq
    BY <1>1, <2>1, <2>2 DEF QueueTypes
  <2>3. CASE Len(rxq) < RxCap /\ rxq' = Append(rxq, r)
    <3>1. rxq' \in Seq(Requests) /\ Len(rxq') = Len(rxq) + 1
      BY <1>2, <2>3, Zenon
    <3>2. Len(rxq') <= RxCap
      BY <1>2, <2>3, <3>1, SizeFacts
    <3> QED
      BY <1>1, <2>1, <3>1, <3>2 DEF QueueTypes
  <2> QED
    BY <2>1, <2>2, <2>3
<1>10. CASE WatchRead \/ WatchStart \/ WatchDelay \/ StatusDue \/ BusOff \/ Recovered
            \/ UNCHANGED vars
  <2>1. UNCHANGED <<txq, sendq, rxq>>
    BY <1>10 DEF WatchRead, WatchStart, WatchDelay, StatusDue, BusOff, Recovered,
                 taskVars, vars
  <2> QED
    BY <1>5, <2>1
<1> QED
  BY <1>6, <1>7, <1>8, <1>9, <1>10 DEF Next, WatchTask

\* The task, the watch and the driver keep to their states, and no queue outgrows
\* its memory.
THEOREM NodeTypeCorrect == Spec => []TypeOK
<1>1. Init => TypeOK
  <2> SUFFICES ASSUME Init PROVE TypeOK
    OBVIOUS
  <2>1. QueueTypes
    <3>1. txq = <<"status">> /\ sendq = <<>> /\ rxq = <<>>
      BY DEF Init
    <3> QED
      BY <3>1, NewQueues DEF QueueTypes
  <2>2. StateTypes
    BY DEF Init, StateTypes
  <2>3. CountTypes
    BY SizeFacts DEF Init, CountTypes
  <2> QED
    BY <2>1, <2>2, <2>3, TypeParts
<1>2. TypeOK /\ [Next]_vars => TypeOK'
  <2> SUFFICES ASSUME TypeOK, [Next]_vars, ~Reboot PROVE TypeOK'
    BY RebootTypes
  <2>1. QueueTypes'
    BY QueueStep
  <2>2. StateTypes' /\ CountTypes'
    BY StateStep
  <2> QED
    BY <2>1, <2>2 DEF TypeOK, QueueTypes, StateTypes, CountTypes
<1> QED
  BY <1>1, <1>2, PTL DEF Spec
=============================================================================
