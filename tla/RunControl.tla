----------------------------- MODULE RunControl -----------------------------
(***************************************************************************)
(* Start-up and run control of the PLC: main_init (main.c) starts the      *)
(* parts one after another and then runs the program; from mqtt_init on,   *)
(* the MQTT task (hal_esp32.c) pauses, resumes and restarts the PLC as the *)
(* broker's messages ask.  Both call plc_set_state, which changes the      *)
(* RUNNING bit, the retained status and the node mode one after another.   *)
(* Tasks wait for the bits of one event group (locks.h), each for at most  *)
(* MAX_BIT_WAIT_TIME; a wait that ends without its bit restarts the PLC.   *)
(***************************************************************************)
EXTENDS Naturals, Sequences, FiniteSets

CONSTANTS
  WaitTime,   \* MAX_BIT_WAIT_TIME, in ticks of the model's clock
  Retained,   \* what the broker sends on the control topics to a new subscriber
  MaxSent,    \* bound: messages sent to the control topics
  MaxFaults   \* bound: crashes, cut connections and clock ticks

Bits    == {"INITIALIZED", "RUNNING", "WIFI", "MQTT"}
Tasks   == {"main", "plc", "uavcan"}       \* the tasks that wait for bits
Callers == {"main", "mqtt"}                \* the tasks that publish
States  == {"running", "paused"}           \* plc_state_t
Control == {"pause", "resume", "reset"}    \* messages on the control topics

ASSUME ParametersAssumption ==
  /\ WaitTime \in Nat \ {0}
  /\ Retained \in Seq(Control)
  /\ MaxSent \in Nat /\ MaxFaults \in Nat

VARIABLES
  bits,      \* global_event_group
  waits,     \* the bit each task is blocked on, or "no"
  timer,     \* ticks left of each task's wait
  mainPc,    \* the part main_init starts next, or waits for
  plcPc,     \* plc_task: "off", "wait", "idle" or "scan"
  call,      \* where each publisher is in plc_set_state, or "no"
  arg,       \* what it publishes: a state, or "starting"
  mutex,     \* who holds publish_mutex, "free", or "null"
  mode,      \* uavcan_node_status.mode ("OPERATIONAL" is its 0)
  wifi,      \* "off", "on" or "up"
  client,    \* the MQTT client: "off", "started", "connected", "subscribed"
             \* (it has asked to be), or "ready"
  session,   \* the connection at the broker: "none", "alive", or "dead"
             \* when the broker has not noticed yet that it is
  status,    \* the status the broker retains
  inbox,     \* control messages on their way to the PLC
  sent,      \* how many were sent
  faults,    \* crashes, cuts and ticks so far
  asked,     \* the state the last plc_set_state to begin asks for, or "none"
  raced      \* did it begin before another one had ended?

taskVars == <<bits, waits, timer, mainPc, plcPc>>
callVars == <<call, arg, mutex, mode, asked, raced>>
netVars  == <<wifi, client, session, status, inbox>>
vars     == <<taskVars, callVars, netVars, sent, faults>>

-----------------------------------------------------------------------------
(* Event bits *)

\* The definitions named ...Mistaken are what a plausible mistake would make of
\* the definition after them; each breaks one of the properties below.
WaitMistaken(t, b) ==
  IF b \in bits THEN UNCHANGED <<waits, timer>>
  ELSE /\ waits' = [waits EXCEPT ![t] = b]
       /\ timer' = [timer EXCEPT ![t] = IF t = "main" THEN WaitTime - 1 ELSE WaitTime]

\* Task t calls WAIT_BITS(b): it blocks unless the bit is set.
Wait(t, b) ==
  IF b \in bits THEN UNCHANGED <<waits, timer>>
  ELSE waits' = [waits EXCEPT ![t] = b] /\ timer' = [timer EXCEPT ![t] = WaitTime]

\* Setting a bit releases the tasks that wait for it, for good: a bit that is
\* cleared again before they run does not take that back.
SetBit(b) ==
  /\ bits' = bits \cup {b}
  /\ waits' = [t \in Tasks |-> IF waits[t] = b THEN "no" ELSE waits[t]]
  /\ timer' = [t \in Tasks |-> IF waits[t] = b THEN 0 ELSE timer[t]]

ClearBit(b) == bits' = bits \ {b} /\ UNCHANGED <<waits, timer>>

-----------------------------------------------------------------------------
(* plc_set_state, and the publishing of the status *)

\* Is task c inside plc_set_state?  (The MQTT task also publishes "starting".)
Setting(c) == call[c] # "no" /\ arg[c] # "starting"

BeginSetState(c, st) ==
  /\ call' = [call EXCEPT ![c] = "bit"] /\ arg' = [arg EXCEPT ![c] = st]
  /\ asked' = st
  /\ raced' = \E d \in Callers \ {c} : Setting(d)

SetStateBitMistaken(c) ==
  /\ call[c] = "bit"
  /\ bits' = IF arg[c] = "running" THEN bits \cup {"RUNNING"} ELSE bits \ {"RUNNING"}
  /\ call' = [call EXCEPT ![c] = "publish"]
  /\ UNCHANGED <<waits, timer, mainPc, plcPc, arg, mutex, mode, asked, raced,
                 netVars, sent, faults>>

SetStateBit(c) ==
  /\ call[c] = "bit"
  /\ IF arg[c] = "running" THEN SetBit("RUNNING") ELSE ClearBit("RUNNING")
  /\ call' = [call EXCEPT ![c] = "publish"]
  /\ UNCHANGED <<mainPc, plcPc, arg, mutex, mode, asked, raced, netVars, sent,
                 faults>>

\* What follows mqtt_publish5, whose result nobody looks at: the rest of
\* plc_set_state, or of the handler of MQTT_EVENT_CONNECTED.
AfterPublish(c) == IF arg[c] = "starting" THEN "subscribe" ELSE "mode"

PublishTakeMistaken(c) ==
  /\ call[c] = "publish" /\ mutex # "null"
  /\ mutex' = c
  /\ call' = [call EXCEPT ![c] = "send"]
  /\ UNCHANGED <<taskVars, arg, mode, asked, raced, netVars, sent, faults>>

\* xSemaphoreTake succeeds ...
PublishTake(c) ==
  /\ call[c] = "publish" /\ mutex = "free"
  /\ mutex' = c
  /\ call' = [call EXCEPT ![c] = "send"]
  /\ UNCHANGED <<taskVars, arg, mode, asked, raced, netVars, sent, faults>>

\* ... or times out after MQTT_MAX_PUBLISH_WAIT, or there is no mutex yet, and
\* the status is not published.
PublishDrop(c) ==
  /\ call[c] = "publish" /\ mutex # "free"
  /\ call' = [call EXCEPT ![c] = AfterPublish(c)]
  /\ UNCHANGED <<taskVars, arg, mutex, mode, asked, raced, netVars, sent, faults>>

PublishSendMistaken(c) ==
  /\ call[c] = "send"
  /\ mutex' = "free"
  /\ status' = IF session = "alive" THEN arg[c] ELSE status
  /\ call' = [call EXCEPT ![c] = IF session = "alive" \/ c = "main"
                                  THEN AfterPublish(c) ELSE "no"]
  /\ arg' = [arg EXCEPT ![c] = IF call'[c] = "no" THEN "none" ELSE @]
  /\ UNCHANGED <<taskVars, mode, asked, raced, wifi, client, session, inbox,
                 sent, faults>>

\* esp_mqtt_client_publish: over a dead connection the status is lost.
PublishSend(c) ==
  /\ call[c] = "send"
  /\ mutex' = "free"
  /\ status' = IF session = "alive" THEN arg[c] ELSE status
  /\ call' = [call EXCEPT ![c] = AfterPublish(c)]
  /\ UNCHANGED <<taskVars, arg, mode, asked, raced, wifi, client, session,
                 inbox, sent, faults>>

\* The node mode is set last, and the call ends.
SetStateMode(c) ==
  /\ call[c] = "mode"
  /\ mode' = (IF arg[c] = "running" THEN "OPERATIONAL" ELSE "MAINTENANCE")
  /\ call' = [call EXCEPT ![c] = "no"] /\ arg' = [arg EXCEPT ![c] = "none"]
  /\ mainPc' = (IF c = "main" THEN "done" ELSE mainPc)
  /\ UNCHANGED <<bits, waits, timer, plcPc, mutex, asked, raced, netVars, sent,
                 faults>>

SetState(c) ==
  \/ SetStateBit(c) \/ PublishTake(c) \/ PublishDrop(c) \/ PublishSend(c)
  \/ SetStateMode(c)

-----------------------------------------------------------------------------
(* main_init *)

\* plc_init creates plc_task, which runs at once (it has the highest priority)
\* and waits for RUNNING.
MainPlc ==
  /\ mainPc = "plc"
  /\ bits' = bits \cup {"INITIALIZED"}
  /\ plcPc' = "wait" /\ Wait("plc", "RUNNING")
  /\ mainPc' = "uavcan"
  /\ UNCHANGED <<callVars, netVars, sent, faults>>

\* uavcan2_init sets the node mode and creates uavcan_task.
MainUavcan ==
  /\ mainPc = "uavcan"
  /\ mode' = "INITIALIZATION"
  /\ Wait("uavcan", "INITIALIZED")
  /\ mainPc' = "wifi"
  /\ UNCHANGED <<bits, plcPc, call, arg, mutex, asked, raced, netVars, sent,
                 faults>>

\* wifi_init starts the wifi and waits for it.
MainWifi ==
  /\ mainPc = "wifi"
  /\ wifi' = "on" /\ Wait("main", "WIFI")
  /\ mainPc' = "wifi_wait"
  /\ UNCHANGED <<bits, plcPc, callVars, client, session, status, inbox, sent,
                 faults>>

MainMqttMistaken ==
  /\ mainPc = "wifi_wait" /\ waits["main"] = "no"
  /\ Wait("main", "WIFI")
  /\ mainPc' = "mqtt"
  /\ UNCHANGED <<bits, plcPc, callVars, netVars, sent, faults>>

\* mqtt_init creates the mutex and waits for wifi once more, ...
MainMqtt ==
  /\ mainPc = "wifi_wait" /\ waits["main"] = "no"
  /\ mutex' = "free" /\ Wait("main", "WIFI")
  /\ mainPc' = "mqtt"
  /\ UNCHANGED <<bits, plcPc, call, arg, mode, asked, raced, netVars, sent,
                 faults>>

\* ... then starts the client and waits for the subscription.
MainMqttStart ==
  /\ mainPc = "mqtt" /\ waits["main"] = "no"
  /\ client' = "started" /\ Wait("main", "MQTT")
  /\ mainPc' = "mqtt_wait"
  /\ UNCHANGED <<bits, plcPc, callVars, wifi, session, status, inbox, sent,
                 faults>>

\* main_init ends with plc_set_state(PLC_STATE_RUNNING).
MainRun ==
  /\ mainPc = "mqtt_wait" /\ waits["main"] = "no"
  /\ BeginSetState("main", "running")
  /\ mainPc' = "run"
  /\ UNCHANGED <<bits, waits, timer, plcPc, mutex, mode, netVars, sent, faults>>

MainTask ==
  \/ MainPlc \/ MainUavcan \/ MainWifi \/ MainMqtt \/ MainMqttStart \/ MainRun
  \/ SetState("main")

-----------------------------------------------------------------------------
(* plc_task *)

PlcStart ==
  /\ plcPc = "wait" /\ waits["plc"] = "no"
  /\ plcPc' = "idle"
  /\ UNCHANGED <<bits, waits, timer, mainPc, callVars, netVars, sent, faults>>

\* A tick: the bit is looked at once, before the inputs are read.
PlcTick ==
  /\ plcPc = "idle" /\ "RUNNING" \in bits
  /\ plcPc' = "scan"
  /\ UNCHANGED <<bits, waits, timer, mainPc, callVars, netVars, sent, faults>>

PlcScanEnd ==
  /\ plcPc = "scan"
  /\ plcPc' = "idle"
  /\ UNCHANGED <<bits, waits, timer, mainPc, callVars, netVars, sent, faults>>

PlcTask == PlcStart \/ PlcTick \/ PlcScanEnd

-----------------------------------------------------------------------------
(* Restarts *)

\* esp_restart: everything but the world outside starts anew, and the broker
\* does not know yet that the connection is gone.
Reboot ==
  /\ bits' = {} /\ waits' = [t \in Tasks |-> "no"] /\ timer' = [t \in Tasks |-> 0]
  /\ mainPc' = "plc" /\ plcPc' = "off"
  /\ call' = [c \in Callers |-> "no"] /\ arg' = [c \in Callers |-> "none"]
  /\ mutex' = "null" /\ mode' = "OPERATIONAL" /\ asked' = "none" /\ raced' = FALSE
  /\ wifi' = "off" /\ client' = "off" /\ inbox' = <<>>
  /\ session' = (IF session = "alive" THEN "dead" ELSE session)
  /\ UNCHANGED status

\* die(DEATH_INITIALIZATION_TIMEOUT)
WaitTimeout ==
  /\ \E t \in Tasks : waits[t] # "no" /\ timer[t] = 0
  /\ Reboot /\ UNCHANGED <<sent, faults>>

\* die(DEATH_INIT_FAILED), RestartNode over UAVCAN, a power failure
Crash == faults < MaxFaults /\ faults' = faults + 1 /\ Reboot /\ UNCHANGED sent

\* Time is measured while a task waits; a wait that is over ends first.
Tick ==
  /\ faults < MaxFaults /\ faults' = faults + 1
  /\ \E t \in Tasks : waits[t] # "no"
  /\ \A t \in Tasks : waits[t] # "no" => timer[t] > 0
  /\ timer' = [t \in Tasks |-> IF waits[t] = "no" THEN timer[t] ELSE timer[t] - 1]
  /\ UNCHANGED <<bits, waits, mainPc, plcPc, callVars, netVars, sent>>

-----------------------------------------------------------------------------
(* Wifi and MQTT events *)

\* SYSTEM_EVENT_STA_GOT_IP
WifiGotIp ==
  /\ wifi = "on"
  /\ wifi' = "up" /\ SetBit("WIFI")
  /\ UNCHANGED <<mainPc, plcPc, callVars, client, session, status, inbox, sent,
                 faults>>

\* The connection breaks and takes what was on its way with it.
CutSession ==
  /\ session' = (IF session = "alive" THEN "dead" ELSE session)
  /\ inbox' = <<>>

WifiDisconnectedMistaken ==
  /\ wifi = "up" /\ faults < MaxFaults /\ faults' = faults + 1
  /\ wifi' = "off" /\ ClearBit("WIFI") /\ CutSession
  /\ UNCHANGED <<mainPc, plcPc, callVars, client, status, sent>>

\* SYSTEM_EVENT_STA_DISCONNECTED: connect again, clear the bit.
WifiDisconnected ==
  /\ wifi = "up" /\ faults < MaxFaults /\ faults' = faults + 1
  /\ wifi' = "on" /\ ClearBit("WIFI") /\ CutSession
  /\ UNCHANGED <<mainPc, plcPc, callVars, client, status, sent>>

ConnectionCut ==
  /\ session = "alive" /\ faults < MaxFaults /\ faults' = faults + 1
  /\ CutSession
  /\ UNCHANGED <<taskVars, callVars, wifi, client, status, sent>>

\* The broker notices and publishes the last will.
Will ==
  /\ session = "dead"
  /\ session' = "none" /\ status' = "offline"
  /\ UNCHANGED <<taskVars, callVars, wifi, client, inbox, sent, faults>>

MqttIdle == call["mqtt"] = "no"

\* MQTT_EVENT_CONNECTED publishes "starting".  A session the broker still
\* believed in ends with its will.
MqttConnected ==
  /\ MqttIdle /\ client = "started" /\ wifi = "up" /\ session # "alive"
  /\ client' = "connected" /\ session' = "alive"
  /\ status' = (IF session = "dead" THEN "offline" ELSE status)
  /\ call' = [call EXCEPT !["mqtt"] = "publish"]
  /\ arg' = [arg EXCEPT !["mqtt"] = "starting"]
  /\ UNCHANGED <<taskVars, mutex, mode, asked, raced, wifi, inbox, sent, faults>>

\* ... and then subscribes to the control topics.
MqttSubscribe ==
  /\ call["mqtt"] = "subscribe"
  /\ call' = [call EXCEPT !["mqtt"] = "no"] /\ arg' = [arg EXCEPT !["mqtt"] = "none"]
  /\ IF session = "alive" THEN client' = "subscribed" /\ inbox' = Retained
                          ELSE UNCHANGED <<client, inbox>>
  /\ UNCHANGED <<taskVars, mutex, mode, asked, raced, wifi, session, status,
                 sent, faults>>

\* MQTT_EVENT_SUBSCRIBED
MqttSubscribed ==
  /\ MqttIdle /\ client = "subscribed" /\ session = "alive"
  /\ client' = "ready" /\ SetBit("MQTT")
  /\ UNCHANGED <<mainPc, plcPc, callVars, wifi, session, status, inbox, sent,
                 faults>>

\* MQTT_EVENT_DISCONNECTED
MqttDisconnected ==
  /\ MqttIdle /\ client \notin {"off", "started"} /\ session # "alive"
  /\ client' = "started" /\ ClearBit("MQTT")
  /\ UNCHANGED <<mainPc, plcPc, callVars, wifi, session, status, inbox, sent,
                 faults>>

\* MQTT_EVENT_DATA, mqtt_handle_msg
MqttData ==
  /\ MqttIdle /\ client \in {"subscribed", "ready"} /\ inbox # <<>>
  /\ \/ /\ Head(inbox) = "reset"
        /\ Reboot
     \/ /\ Head(inbox) # "reset"
        /\ BeginSetState("mqtt", IF Head(inbox) = "pause" THEN "paused" ELSE "running")
        /\ inbox' = Tail(inbox)
        /\ UNCHANGED <<taskVars, mutex, mode, wifi, client, session, status>>
  /\ UNCHANGED <<sent, faults>>

MqttTask ==
  \/ MqttConnected \/ MqttSubscribe \/ MqttSubscribed \/ MqttDisconnected
  \/ MqttData \/ SetState("mqtt")

\* Somebody sends a control message; only a subscriber gets it.
Operator ==
  /\ client \in {"subscribed", "ready"} /\ session = "alive"
  /\ sent < MaxSent /\ sent' = sent + 1
  /\ \E m \in Control : inbox' = Append(inbox, m)
  /\ UNCHANGED <<taskVars, callVars, wifi, client, session, status, faults>>

-----------------------------------------------------------------------------
Init ==
  /\ bits = {} /\ waits = [t \in Tasks |-> "no"] /\ timer = [t \in Tasks |-> 0]
  /\ mainPc = "plc" /\ plcPc = "off"
  /\ call = [c \in Callers |-> "no"] /\ arg = [c \in Callers |-> "none"]
  /\ mutex = "null" /\ mode = "OPERATIONAL" /\ asked = "none" /\ raced = FALSE
  /\ wifi = "off" /\ client = "off" /\ session = "none" /\ status = "none"
  /\ inbox = <<>> /\ sent = 0 /\ faults = 0

Next ==
  \/ MainTask \/ PlcTask \/ MqttTask
  \/ WaitTimeout \/ Crash \/ Tick
  \/ WifiGotIp \/ WifiDisconnected \/ ConnectionCut \/ Will \/ Operator

Spec == Init /\ [][Next]_vars

-----------------------------------------------------------------------------
(* Properties *)

TaskTypes ==
  /\ bits \subseteq Bits
  /\ waits \in [Tasks -> Bits \cup {"no"}] /\ timer \in [Tasks -> 0..WaitTime]
  /\ mainPc \in {"plc", "uavcan", "wifi", "wifi_wait", "mqtt", "mqtt_wait",
                 "run", "done"}
  /\ plcPc \in {"off", "wait", "idle", "scan"}

CallTypes ==
  /\ call \in [Callers -> {"no", "bit", "publish", "send", "mode", "subscribe"}]
  /\ arg \in [Callers -> States \cup {"starting", "none"}]
  /\ mutex \in Callers \cup {"free", "null"}
  /\ \A c \in Callers : call[c] = "send" <=> mutex = c
  /\ mode \in {"INITIALIZATION", "OPERATIONAL", "MAINTENANCE"}
  /\ asked \in States \cup {"none"} /\ raced \in BOOLEAN

NetTypes ==
  /\ wifi \in {"off", "on", "up"}
  /\ client \in {"off", "started", "connected", "subscribed", "ready"}
  /\ session \in {"none", "alive", "dead"}
  /\ status \in States \cup {"none", "starting", "offline"}
  /\ inbox \in Seq(Control) /\ sent \in 0..MaxSent /\ faults \in 0..MaxFaults

\* The type invariant; it also says that publish_mutex is held exactly while
\* its holder publishes, and that no wait outlasts WaitTime.
TypeOK == TaskTypes /\ CallTypes /\ NetTypes

\* plc_set_state writes the bit, the status and the mode one after another, in
\* two tasks, and a status can be lost on the way.  Unless two calls overlapped
\* all three agree in the end: when no call is under way, the bit and the mode
\* are what the last call asked for, and a broker with a live connection does
\* not report the opposite.
Agree ==
  (asked # "none" /\ ~raced /\ \A c \in Callers : ~Setting(c)) =>
    /\ "RUNNING" \in bits <=> asked = "running"
    /\ mode = (IF asked = "running" THEN "OPERATIONAL" ELSE "MAINTENANCE")
    /\ session = "alive" => status \notin States \ {asked}

\* plc_task's wait for RUNNING began in plc_init, before those of wifi_init and
\* mqtt_init: it ends first, so that all the waits of main_init together have
\* no more than one MAX_BIT_WAIT_TIME, unless a message resumes the PLC early.
OneBudget ==
  (waits["plc"] # "no" /\ waits["main"] # "no") => timer["plc"] <= timer["main"]

\* Once the PLC has been started no task waits any more, so that however it is
\* paused, resumed or disconnected, die(DEATH_INITIALIZATION_TIMEOUT) is over.
NoTimeoutOnceUp == mainPc = "done" => \A t \in Tasks : waits[t] = "no"

\* "plc buffers must be initialized before UAVCAN is started" (main.c), and
\* whoever sets the state has a mutex to publish it under: nothing runs before
\* the parts it needs, although the MQTT task may resume the PLC while
\* main_init still waits.
ReadyBeforeRun ==
  /\ plcPc = "scan" \/ "RUNNING" \in bits =>
       "INITIALIZED" \in bits /\ mainPc \in {"mqtt_wait", "run", "done"}
  /\ \A c \in Callers : call[c] # "no" => mutex # "null"

\* The tasks keep running, and the network answers in the end.  Faults and clock
\* ticks are bounded, so that after the last one no timeout helps a task that
\* is stuck.
Fairness ==
  /\ WF_vars(MainTask) /\ WF_vars(PlcTask) /\ WF_vars(MqttTask)
  /\ WF_vars(WaitTimeout) /\ WF_vars(WifiGotIp)

LiveSpec == Spec /\ Fairness

\* Whatever connection is cut and wherever start-up is when it happens, the PLC
\* is up in the end: no lost event or bit leaves main_init or plc_task waiting.
GetsUp == <>[](mainPc = "done" /\ plcPc \in {"idle", "scan"})
=============================================================================
