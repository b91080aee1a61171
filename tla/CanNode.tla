------------------------------ MODULE CanNode ------------------------------
(***************************************************************************)
(* The PLC as a node of the CAN bus.  uavcan_task (plc/src/uavcan_impl.c)  *)
(* queues commands and the node status, and calls uavcan_update            *)
(* (lib/uavcan_node), which answers the requests of other nodes, hands the *)
(* queue to the CAN driver, retrying for ever, and restarts the node when  *)
(* one of them asked for it.  When the controller goes bus-off,            *)
(* can_watch_task (hal_esp32.c) brings it back.                            *)
(***************************************************************************)
EXTENDS Naturals, Sequences, SequencesExt

CONSTANTS
  PoolCap,     \* frames libcanard's memory pool can queue
  InfoLen,     \* frames of a GetNodeInfo response
  Commands,    \* commands and requests of one I/O cycle
  DriverCap,   \* length of the driver's transmit queue ...
  RxCap,       \* ... and of its receive queue
  MaxAsk,      \* bound: requests of other nodes
  MaxOff       \* bound: times the controller goes bus-off

ASSUME SizesAssumption ==
  /\ PoolCap \in Nat \ {0} /\ InfoLen \in Nat \ {0} /\ Commands \in Nat
  /\ DriverCap \in Nat \ {0} /\ RxCap \in Nat \ {0}
  /\ MaxAsk \in Nat /\ MaxOff \in Nat

Requests == {"info", "restart", "getset"}
Frames   == {"command", "status", "info", "restart"}
Alerts   == {"bus_off", "recovered"}   \* those that can_watch_task acts on

VARIABLES
  pc,       \* uavcan_task: "io", "status", or in uavcan_update: "rx", "tx"
  next,     \* what it does after uavcan_update
  due,      \* is UAVCAN_STATUS_PERIOD over?
  txq,      \* libcanard's queue
  pending,  \* restart_pending
  boots,    \* restarts so far
  driver,   \* the driver: "running", "bus_off", "recovering", "stopped"
  sendq,    \* its transmit queue
  rxq,      \* its receive queue
  alerts,   \* alerts nobody has read yet
  watch,    \* can_watch_task: "sleep", "start", "off" or "initiate"
  seen,     \* the alerts it is working on
  asks,     \* requests so far
  offs      \* times bus-off so far

taskVars  == <<pc, next, due, txq, pending>>
watchVars == <<watch, seen>>
busVars   == <<asks, offs>>
vars == <<taskVars, boots, driver, sendq, rxq, alerts, watchVars, busVars>>

-----------------------------------------------------------------------------
(* libcanard's queue *)

\* The definitions named ...Mistaken are what a plausible mistake would make of
\* the definition after them; each breaks one of the properties below.
FitMistaken(q, n) == IF Len(q) < PoolCap THEN n ELSE 0

\* How many of n frames the pool has memory for.
Fit(q, n) == IF Len(q) + n <= PoolCap THEN n ELSE PoolCap - Len(q)

\* The frames of a transfer are queued one by one while the pool has memory; a
\* transfer that does not fit is cut short.
Queued(q, f, n) == q \o [i \in 1..Fit(q, n) |-> f]

-----------------------------------------------------------------------------
(* Restarts *)

\* esp_restart: all queues are lost, the driver is installed and started again,
\* and uavcan2_init queues the first status.
Reboot ==
  /\ pc' = "io" /\ next' = "status" /\ due' = FALSE
  /\ txq' = <<"status">> /\ pending' = FALSE /\ boots' = boots + 1
  /\ driver' = "running" /\ sendq' = <<>> /\ rxq' = <<>> /\ alerts' = {}
  /\ watch' = "sleep" /\ seen' = {}
  /\ UNCHANGED busVars

-----------------------------------------------------------------------------
(* uavcan_task *)

IoPartMistaken ==
  /\ pc = "io"
  /\ \/ /\ txq' = Queued(txq, "command", Commands)
        /\ pc' = "rx" /\ next' = "io"
     \/ pc' = "status" /\ UNCHANGED <<txq, next>>
  /\ UNCHANGED <<due, pending, boots, driver, sendq, rxq, alerts, watchVars, busVars>>

\* An I/O cycle, if its time has come; one group of blocks stands for the four.
IoPart ==
  /\ pc = "io"
  /\ \/ /\ txq' = Queued(txq, "command", Commands)
        /\ pc' = "rx" /\ next' = "status"
     \/ pc' = "status" /\ UNCHANGED <<txq, next>>
  /\ UNCHANGED <<due, pending, boots, driver, sendq, rxq, alerts, watchVars, busVars>>

\* A status that did not fit is tried again on the next turn.
StatusPart ==
  /\ pc = "status"
  /\ txq' = (IF due THEN Queued(txq, "status", 1) ELSE txq)
  /\ due' = (due /\ txq' = txq)
  /\ pc' = "rx" /\ next' = "io"
  /\ UNCHANGED <<pending, boots, driver, sendq, rxq, alerts, watchVars, busVars>>

HandleRequestMistaken ==
  /\ pc = "rx" /\ rxq # <<>>
  /\ rxq' = Tail(rxq)
  /\ \/ Head(rxq) = "info" /\ txq' = Queued(txq, "info", InfoLen)
     \/ Head(rxq) = "restart" /\ txq' = Queued(txq, "restart", 1)
     \/ Head(rxq) = "getset" /\ UNCHANGED txq
  /\ pending' = (pending \/ (Head(rxq) = "restart" /\ txq' # txq))
  /\ UNCHANGED <<pc, next, due, boots, driver, sendq, alerts, watchVars, busVars>>

\* uavcan_on_transfer_received.  A restart is only remembered; param.GetSet is
\* accepted, but without UAVCAN_WITH_PARAM_GETSET nobody answers it.
HandleRequest ==
  /\ pc = "rx" /\ rxq # <<>>
  /\ rxq' = Tail(rxq)
  /\ \/ Head(rxq) = "info" /\ txq' = Queued(txq, "info", InfoLen)
     \/ Head(rxq) = "restart" /\ txq' = Queued(txq, "restart", 1)
     \/ Head(rxq) = "getset" /\ UNCHANGED txq
  /\ pending' = (pending \/ Head(rxq) = "restart")
  /\ UNCHANGED <<pc, next, due, boots, driver, sendq, alerts, watchVars, busVars>>

NoMoreRequests ==
  /\ pc = "rx" /\ rxq = <<>>
  /\ pc' = "tx"
  /\ UNCHANGED <<next, due, txq, pending, boots, driver, sendq, rxq, alerts,
                 watchVars, busVars>>

\* uavcan_flush: can_transmit takes the frame if the driver runs and its queue
\* has room; if not, the loop tries the same frame again.  Which frame comes first
\* is up to the priorities of libcanard, and left open.
Transmit ==
  /\ pc = "tx" /\ driver = "running" /\ Len(sendq) < DriverCap
  /\ \E i \in DOMAIN txq :
       sendq' = Append(sendq, txq[i]) /\ txq' = RemoveAt(txq, i)
  /\ UNCHANGED <<pc, next, due, pending, boots, driver, rxq, alerts, watchVars,
                 busVars>>

\* The queue is empty: uavcan_update ends, or restarts the node.
Flushed ==
  /\ pc = "tx" /\ txq = <<>> /\ ~pending
  /\ pc' = next
  /\ UNCHANGED <<next, due, txq, pending, boots, driver, sendq, rxq, alerts,
                 watchVars, busVars>>

Restart == pc = "tx" /\ txq = <<>> /\ pending /\ Reboot

UavcanTask ==
  \/ IoPart \/ StatusPart \/ HandleRequest \/ NoMoreRequests \/ Transmit
  \/ Flushed \/ Restart

-----------------------------------------------------------------------------
(* can_watch_task *)

WatchReadMistaken ==
  /\ watch = "sleep" /\ alerts # {}
  /\ seen' = alerts /\ alerts' = alerts \ {"bus_off"}
  /\ watch' = (IF "recovered" \in alerts THEN "start" ELSE "off")
  /\ UNCHANGED <<taskVars, boots, driver, sendq, rxq, busVars>>

\* can_read_alerts takes all alerts at once; the code then goes through them in
\* its own order, not in the order in which they came.
WatchRead ==
  /\ watch = "sleep" /\ alerts # {}
  /\ seen' = alerts /\ alerts' = {}
  /\ watch' = (IF "recovered" \in alerts THEN "start" ELSE "off")
  /\ UNCHANGED <<taskVars, boots, driver, sendq, rxq, busVars>>

\* can_start, which only a stopped driver obeys: die(DEATH_CAN_DRIVER_ERROR).
WatchStart ==
  /\ watch = "start"
  /\ IF driver # "stopped" THEN Reboot
     ELSE /\ driver' = "running"
          /\ watch' = (IF "bus_off" \in seen THEN "off" ELSE "sleep")
          /\ seen' = seen \ {"recovered"}
          /\ UNCHANGED <<taskVars, boots, sendq, rxq, alerts, busVars>>

\* Three seconds pass ...
WatchDelay ==
  /\ watch = "off"
  /\ watch' = "initiate"
  /\ UNCHANGED <<taskVars, boots, driver, sendq, rxq, alerts, seen, busVars>>

\* ... before can_initiate_recovery, whose result nobody looks at: only a
\* controller that is bus-off obeys, and its transmit queue is lost.
WatchInitiate ==
  /\ watch = "initiate"
  /\ driver' = (IF driver = "bus_off" THEN "recovering" ELSE driver)
  /\ sendq' = (IF driver = "bus_off" THEN <<>> ELSE sendq)
  /\ watch' = "sleep" /\ seen' = {}
  /\ UNCHANGED <<taskVars, boots, rxq, alerts, busVars>>

WatchTask == WatchRead \/ WatchStart \/ WatchDelay \/ WatchInitiate

-----------------------------------------------------------------------------
(* The clock, the driver and the bus *)

StatusDue ==
  /\ ~due /\ due' = TRUE
  /\ UNCHANGED <<pc, next, txq, pending, boots, driver, sendq, rxq, alerts,
                 watchVars, busVars>>

DriverSends ==
  /\ driver = "running" /\ sendq # <<>>
  /\ sendq' = Tail(sendq)
  /\ UNCHANGED <<taskVars, boots, driver, rxq, alerts, watchVars, busVars>>

\* Another node asks for something; a full receive queue drops it.
Ask(r) ==
  /\ driver = "running" /\ asks < MaxAsk /\ asks' = asks + 1
  /\ rxq' = (IF Len(rxq) < RxCap THEN Append(rxq, r) ELSE rxq)
  /\ UNCHANGED <<taskVars, boots, driver, sendq, alerts, watchVars, offs>>

BusOff ==
  /\ driver = "running" /\ offs < MaxOff /\ offs' = offs + 1
  /\ driver' = "bus_off" /\ alerts' = alerts \cup {"bus_off"}
  /\ UNCHANGED <<taskVars, boots, sendq, rxq, watchVars, asks>>

\* 128 times the bus was free: the controller is back, the driver stopped.
Recovered ==
  /\ driver = "recovering"
  /\ driver' = "stopped" /\ alerts' = alerts \cup {"recovered"}
  /\ UNCHANGED <<taskVars, boots, sendq, rxq, watchVars, busVars>>

-----------------------------------------------------------------------------
Init ==
  /\ pc = "io" /\ next = "status" /\ due = FALSE
  /\ txq = <<"status">> /\ pending = FALSE /\ boots = 0
  /\ driver = "running" /\ sendq = <<>> /\ rxq = <<>> /\ alerts = {}
  /\ watch = "sleep" /\ seen = {} /\ asks = 0 /\ offs = 0

Next ==
  \/ UavcanTask \/ WatchTask
  \/ StatusDue \/ DriverSends \/ BusOff \/ Recovered
  \/ \E r \in Requests : Ask(r)

Spec == Init /\ [][Next]_vars

\* Both tasks run, time passes, the driver works and the bus is free again and
\* again.  Requests and bus-offs are bounded.
Fairness ==
  /\ WF_vars(UavcanTask) /\ WF_vars(WatchTask)
  /\ WF_vars(StatusDue) /\ WF_vars(DriverSends) /\ WF_vars(Recovered)

LiveSpec == Spec /\ Fairness

-----------------------------------------------------------------------------
(* Properties *)

TypeOK ==
  /\ pc \in {"io", "status", "rx", "tx"} /\ next \in {"io", "status"}
  /\ due \in BOOLEAN /\ pending \in BOOLEAN /\ boots \in Nat
  /\ txq \in Seq(Frames) /\ Len(txq) <= PoolCap
  /\ driver \in {"running", "bus_off", "recovering", "stopped"}
  /\ sendq \in Seq(Frames) /\ Len(sendq) <= DriverCap
  /\ rxq \in Seq(Requests) /\ Len(rxq) <= RxCap
  /\ alerts \subseteq Alerts /\ seen \subseteq Alerts
  /\ watch \in {"sleep", "start", "off", "initiate"}
  /\ asks \in 0..MaxAsk /\ offs \in 0..MaxOff

\* The driver obeys can_start only when it is stopped, or the PLC dies, and
\* can_initiate_recovery only when it is bus-off, or the bus stays dead without
\* a word.  Alerts are read late and all at once, and other alerts may come
\* during the three seconds of waiting: the watch still acts in the right state,
\* and whenever the bus is down something is on its way to bring it up.
RecoveryInStep ==
  /\ watch = "start" => driver = "stopped"
  /\ watch \in {"off", "initiate"} => driver = "bus_off"
  /\ driver = "bus_off" => "bus_off" \in alerts \/ watch \in {"off", "initiate"}
  /\ driver = "stopped" => "recovered" \in alerts \/ watch = "start"

\* However often the bus goes off, and whatever else wants the memory pool, the
\* node goes on to report its status on the bus.
StaysHeard == []<><<DriverSends /\ Head(sendq) = "status">>_vars

\* A RestartNode request that has reached the receive queue is honoured, be the
\* queue full or the bus off, although uavcan_flush comes first.
RestartHappens ==
  \A b \in 0..MaxAsk :
    (boots = b /\ \E i \in DOMAIN rxq : rxq[i] = "restart") ~> boots > b
=============================================================================
