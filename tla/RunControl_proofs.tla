-------------------------- MODULE RunControl_proofs --------------------------
(***************************************************************************)
(* Proofs of the safety properties of RunControl, for every length of the  *)
(* waits and every number of faults and control messages.                  *)
(***************************************************************************)
EXTENDS RunControl, Integers, TLAPS

-----------------------------------------------------------------------------
(* The inductive invariant *)

Late == {"mqtt_wait", "run", "done"}

\* How far start-up has come, and which calls go with it.
StartOK ==
  /\ "INITIALIZED" \in bits <=> mainPc # "plc"
  /\ mutex = "null" <=> mainPc \in {"plc", "uavcan", "wifi", "wifi_wait"}
  /\ client # "off" \/ asked # "none" => mainPc \in Late
  /\ call["main"] # "no" <=> mainPc = "run"
  /\ call["mqtt"] # "no" => client # "off"
  /\ "RUNNING" \in bits => mainPc \in Late
  /\ plcPc \in {"idle", "scan"} \/ (plcPc = "wait" /\ waits["plc"] = "no")
       => mainPc \in Late

\* Which waits there can be.
WaitsOK ==
  /\ waits["uavcan"] = "no" /\ waits["plc"] \in {"no", "RUNNING"}
  /\ waits["main"] # "no" => mainPc \in {"wifi_wait", "mqtt", "mqtt_wait"}
  /\ mainPc = "plc" => waits["plc"] = "no"
  /\ mainPc = "done" \/ (mainPc = "run" /\ call["main"] # "bit") => waits["plc"] = "no"

\* Which argument goes with which step of a call.
CallOK ==
  /\ \A c \in Callers : /\ call[c] = "no" <=> arg[c] = "none"
                        /\ call[c] \in {"bit", "mode"} => arg[c] \in States
                        /\ call[c] = "subscribe" => arg[c] = "starting"
  /\ arg["main"] \in {"running", "none"}

\* Without overlap only one call is under way, the one that asked last.
Alone ==
  ~raced => \A c \in Callers : Setting(c) =>
              arg[c] = asked /\ \A d \in Callers \ {c} : ~Setting(d)

\* Is the status, or the bit, still to be set?
StatusPending == \E c \in Callers : Setting(c) /\ call[c] # "mode"
BitPending    == \E c \in Callers : Setting(c) /\ call[c] = "bit"

\* The parts of Agree, each from the step of the call that sets it.
AgreeSoFar ==
  asked # "none" /\ ~raced =>
    /\ ~BitPending => ("RUNNING" \in bits <=> asked = "running")
    /\ (\A c \in Callers : ~Setting(c)) =>
         mode = (IF asked = "running" THEN "OPERATIONAL" ELSE "MAINTENANCE")
    /\ ~StatusPending /\ session = "alive" => status \notin States \ {asked}

\* A new session starts from the last will, and main can only say "running".
SessionOK ==
  /\ session = "none" => status \in {"none", "offline"}
  /\ session = "alive" /\ arg["mqtt"] = "starting" => status # "paused"

RunInv ==
  TypeOK /\ StartOK /\ WaitsOK /\ OneBudget /\ CallOK /\ Alone /\ AgreeSoFar /\ SessionOK

-----------------------------------------------------------------------------
(* The event bits and the messages *)

LEMMA WaitTimeFacts ==
  /\ WaitTime \in Nat /\ WaitTime \in 0..WaitTime /\ 0 \in 0..WaitTime
  /\ \A n \in 0..WaitTime : n <= WaitTime /\ n \in Int
BY ParametersAssumption

LEMMA CountFacts ==
  ASSUME NEW m \in Nat, NEW n \in 0..m
  PROVE  /\ n < m => n + 1 \in 0..m
         /\ n > 0 => n - 1 \in 0..m
OBVIOUS

LEMMA WaitFacts ==
  ASSUME TaskTypes, NEW t \in Tasks, NEW b \in Bits, Wait(t, b)
  PROVE  /\ waits' \in [Tasks -> Bits \cup {"no"}] /\ timer' \in [Tasks -> 0..WaitTime]
         /\ \A u \in Tasks \ {t} : waits'[u] = waits[u] /\ timer'[u] = timer[u]
         /\ \/ b \in bits /\ waits' = waits /\ timer' = timer
            \/ b \notin bits /\ waits'[t] = b /\ timer'[t] = WaitTime
<1> USE DEF TaskTypes, Wait
<1>1. CASE b \in bits
  <2>1. waits' = waits /\ timer' = timer
    BY <1>1
  <2> QED
    BY <1>1, <2>1
<1>2. CASE b \notin bits
  BY <1>2, WaitTimeFacts
<1> QED
  BY <1>1, <1>2

LEMMA SetBitFacts ==
  ASSUME TaskTypes, NEW b \in Bits, SetBit(b)
  PROVE  /\ bits' \subseteq Bits
         /\ waits' \in [Tasks -> Bits \cup {"no"}] /\ timer' \in [Tasks -> 0..WaitTime]
BY WaitTimeFacts DEF TaskTypes, SetBit

LEMMA BeginFacts ==
  ASSUME CallTypes, NEW c \in Callers, NEW st \in States, call[c] = "no",
         BeginSetState(c, st), mutex' = mutex, mode' = mode
  PROVE  /\ CallTypes'
         /\ call'[c] = "bit" /\ arg'[c] = st /\ asked' = st
         /\ \A d \in Callers \ {c} : call'[d] = call[d] /\ arg'[d] = arg[d]
         /\ ~raced' => \A d \in Callers \ {c} : ~Setting(d)
<1>1. raced' \in BOOLEAN
  <2>1. raced' = \E d \in Callers \ {c} : Setting(d)
    BY Zenon DEF BeginSetState
  <2> QED
    BY ONLY <2>1, Zenon
<1>2. call' = [call EXCEPT ![c] = "bit"] /\ arg' = [arg EXCEPT ![c] = st] /\ asked' = st
  BY Zenon DEF BeginSetState
<1>3. call' \in [Callers -> {"no", "bit", "publish", "send", "mode", "subscribe"}]
  BY <1>2 DEF CallTypes
<1>4. arg' \in [Callers -> States \cup {"starting", "none"}]
  BY <1>2 DEF CallTypes
<1>5. \A d \in Callers : call'[d] = "send" <=> mutex' = d
  BY <1>2 DEF CallTypes
<1>6. /\ call'[c] = "bit" /\ arg'[c] = st
      /\ \A d \in Callers \ {c} : call'[d] = call[d] /\ arg'[d] = arg[d]
  BY <1>2 DEF CallTypes
<1>7. ~raced' => \A d \in Callers \ {c} : ~Setting(d)
  BY Zenon DEF BeginSetState
<1>8. CallTypes'
  BY <1>1, <1>2, <1>3, <1>4, <1>5 DEF CallTypes
<1> QED
  BY <1>2, <1>6, <1>7, <1>8

LEMMA InboxFacts ==
  /\ <<>> \in Seq(Control)
  /\ \A q \in Seq(Control) : q # <<>> => Head(q) \in Control /\ Tail(q) \in Seq(Control)
  /\ \A q \in Seq(Control), m \in Control : Append(q, m) \in Seq(Control)
OBVIOUS


LEMMA SetStateBitStep ==
  ASSUME RunInv, NEW c \in Callers, SetStateBit(c)
  PROVE  RunInv'
<1> USE DEF RunInv, TypeOK, TaskTypes, CallTypes, NetTypes, Tasks, Callers
<1> USE DEF SetStateBit, SetBit, ClearBit, netVars
<1>1. TaskTypes'
  <2> HIDE DEF SetBit
  <2>1. "RUNNING" \in Bits
    BY DEF Bits
  <2>2. CASE arg[c] = "running"
    BY <2>1, <2>2, SetBitFacts
  <2>3. CASE arg[c] # "running"
    BY <2>3
  <2> QED
    BY <2>2, <2>3
<1>2. CallTypes'
  BY DEF States
<1>3. NetTypes'
  BY DEF Control, States
<1> USE DEF Late, StartOK, WaitsOK, CallOK
<1>4. StartOK' /\ WaitsOK' /\ CallOK'
  <2>1. StartOK'
    OBVIOUS
  <2>2. WaitsOK'
    OBVIOUS
  <2>3. CallOK'
    BY DEF States
  <2> QED
    BY <2>1, <2>2, <2>3
<1>5. OneBudget'
  BY DEF OneBudget
<1>6. Alone' /\ AgreeSoFar' /\ SessionOK'
  <2>1. Alone'
    BY DEF Alone, Setting, States
  <2>2. AgreeSoFar'
    BY DEF Alone, AgreeSoFar, StatusPending, BitPending, Setting, States, SessionOK
  <2>3. SessionOK'
    BY DEF Alone, Setting, States, SessionOK
  <2> QED
    BY <2>1, <2>2, <2>3
<1> QED
  BY <1>1, <1>2, <1>3, <1>4, <1>5, <1>6

LEMMA PublishTakeStep ==
  ASSUME RunInv, NEW c \in Callers, PublishTake(c)
  PROVE  RunInv'
<1> USE DEF RunInv, TypeOK, TaskTypes, CallTypes, NetTypes, Tasks, Callers
<1> USE DEF PublishTake, taskVars, netVars
<1>1. TaskTypes'
  BY DEF Bits
<1>2. CallTypes'
  BY DEF States
<1>3. NetTypes'
  BY DEF Control, States
<1> USE DEF Late, StartOK, WaitsOK, CallOK
<1>4. StartOK' /\ WaitsOK' /\ CallOK'
  <2>1. StartOK'
    OBVIOUS
  <2>2. WaitsOK'
    OBVIOUS
  <2>3. CallOK'
    BY DEF States
  <2> QED
    BY <2>1, <2>2, <2>3
<1>5. OneBudget'
  BY DEF OneBudget
<1>6. Alone' /\ AgreeSoFar' /\ SessionOK'
  <2>1. Alone'
    BY DEF Alone, Setting, States
  <2>2. AgreeSoFar'
    BY DEF Alone, AgreeSoFar, StatusPending, BitPending, Setting, States, SessionOK
  <2>3. SessionOK'
    BY DEF Alone, Setting, States, SessionOK
  <2> QED
    BY <2>1, <2>2, <2>3
<1> QED
  BY <1>1, <1>2, <1>3, <1>4, <1>5, <1>6

LEMMA PublishDropStep ==
  ASSUME RunInv, NEW c \in Callers, PublishDrop(c)
  PROVE  RunInv'
<1> USE DEF RunInv, TypeOK, TaskTypes, CallTypes, NetTypes, Tasks, Callers
<1> USE DEF PublishDrop, AfterPublish, taskVars, netVars
<1>1. TaskTypes'
  BY DEF Bits
<1>2. CallTypes'
  BY DEF States
<1>3. NetTypes'
  BY DEF Control, States
<1> USE DEF Late, StartOK, WaitsOK, CallOK
<1>4. StartOK' /\ WaitsOK' /\ CallOK'
  <2>1. StartOK'
    OBVIOUS
  <2>2. WaitsOK'
    OBVIOUS
  <2>3. CallOK'
    BY DEF States
  <2> QED
    BY <2>1, <2>2, <2>3
<1>5. OneBudget'
  BY DEF OneBudget
<1>6. Alone' /\ AgreeSoFar' /\ SessionOK'
  <2>1. Alone'
    BY DEF Alone, Setting, States
  <2>2. AgreeSoFar'
    BY DEF Alone, AgreeSoFar, StatusPending, BitPending, Setting, States, SessionOK
  <2>3. SessionOK'
    BY DEF Alone, Setting, States, SessionOK
  <2> QED
    BY <2>1, <2>2, <2>3
<1> QED
  BY <1>1, <1>2, <1>3, <1>4, <1>5, <1>6

LEMMA PublishSendStep ==
  ASSUME RunInv, NEW c \in Callers, PublishSend(c)
  PROVE  RunInv'
<1> USE DEF RunInv, TypeOK, TaskTypes, CallTypes, NetTypes, Tasks, Callers
<1> USE DEF PublishSend, AfterPublish, taskVars
<1>1. TaskTypes'
  BY DEF Bits
<1>2. CallTypes'
  BY DEF States
<1>3. NetTypes'
  BY DEF Control, States
<1> USE DEF Late, StartOK, WaitsOK, CallOK
<1>4. StartOK' /\ WaitsOK' /\ CallOK'
  <2>1. StartOK'
    OBVIOUS
  <2>2. WaitsOK'
    OBVIOUS
  <2>3. CallOK'
    BY DEF States
  <2> QED
    BY <2>1, <2>2, <2>3
<1>5. OneBudget'
  BY DEF OneBudget
<1>6. Alone' /\ AgreeSoFar' /\ SessionOK'
  <2>1. Alone'
    BY DEF Alone, Setting, States
  <2>2. AgreeSoFar'
    BY DEF Alone, AgreeSoFar, StatusPending, BitPending, Setting, States, SessionOK
  <2>3. SessionOK'
    BY DEF Alone, Setting, States, SessionOK
  <2> QED
    BY <2>1, <2>2, <2>3
<1> QED
  BY <1>1, <1>2, <1>3, <1>4, <1>5, <1>6

LEMMA SetStateModeStep ==
  ASSUME RunInv, NEW c \in Callers, SetStateMode(c)
  PROVE  RunInv'
<1> USE DEF RunInv, TypeOK, TaskTypes, CallTypes, NetTypes, Tasks, Callers
<1> USE DEF SetStateMode, netVars
<1>1. TaskTypes'
  BY DEF Bits
<1>2. CallTypes'
  BY DEF States
<1>3. NetTypes'
  BY DEF Control, States
<1> USE DEF Late, StartOK, WaitsOK, CallOK
<1>4. StartOK' /\ WaitsOK' /\ CallOK'
  <2>1. StartOK'
    OBVIOUS
  <2>2. WaitsOK'
    OBVIOUS
  <2>3. CallOK'
    BY DEF States
  <2> QED
    BY <2>1, <2>2, <2>3
<1>5. OneBudget'
  BY DEF OneBudget
<1>6. Alone' /\ AgreeSoFar' /\ SessionOK'
  <2>1. Alone'
    BY DEF Alone, Setting, States
  <2>2. AgreeSoFar'
    BY DEF Alone, AgreeSoFar, StatusPending, BitPending, Setting, States, SessionOK
  <2>3. SessionOK'
    BY DEF Alone, Setting, States, SessionOK
  <2> QED
    BY <2>1, <2>2, <2>3
<1> QED
  BY <1>1, <1>2, <1>3, <1>4, <1>5, <1>6

LEMMA MainPlcStep ==
  ASSUME RunInv, MainPlc
  PROVE  RunInv'
<1> USE DEF RunInv, TypeOK, TaskTypes, CallTypes, NetTypes, Tasks, Callers
<1> USE DEF MainPlc, Wait, callVars, netVars
<1>1. TaskTypes'
  <2>1. "plc" \in Tasks /\ "RUNNING" \in Bits
    BY DEF Bits
  <2> HIDE DEF Wait
  <2> QED
    BY <2>1, WaitFacts DEF Bits
<1>2. CallTypes'
  BY DEF States
<1>3. NetTypes'
  BY DEF Control, States
<1> USE DEF Late, StartOK, WaitsOK, CallOK
<1>4. StartOK' /\ WaitsOK' /\ CallOK'
  <2>1. StartOK'
    OBVIOUS
  <2>2. WaitsOK'
    OBVIOUS
  <2>3. CallOK'
    BY DEF States
  <2> QED
    BY <2>1, <2>2, <2>3
<1>5. OneBudget'
  BY DEF OneBudget
<1>6. Alone' /\ AgreeSoFar' /\ SessionOK'
  <2>1. Alone'
    BY DEF Alone, Setting, States
  <2>2. AgreeSoFar'
    BY DEF Alone, AgreeSoFar, StatusPending, BitPending, Setting, States, SessionOK
  <2>3. SessionOK'
    BY DEF Alone, Setting, States, SessionOK
  <2> QED
    BY <2>1, <2>2, <2>3
<1> QED
  BY <1>1, <1>2, <1>3, <1>4, <1>5, <1>6

LEMMA MainUavcanStep ==
  ASSUME RunInv, MainUavcan
  PROVE  RunInv'
<1> USE DEF RunInv, TypeOK, TaskTypes, CallTypes, NetTypes, Tasks, Callers
<1> USE DEF MainUavcan, Wait, netVars
<1>1. TaskTypes'
  <2>1. "uavcan" \in Tasks /\ "INITIALIZED" \in Bits
    BY DEF Bits
  <2> HIDE DEF Wait
  <2> QED
    BY <2>1, WaitFacts DEF Bits
<1>2. CallTypes'
  BY DEF States
<1>3. NetTypes'
  BY DEF Control, States
<1> USE DEF Late, StartOK, WaitsOK, CallOK
<1>4. StartOK' /\ WaitsOK' /\ CallOK'
  <2>1. StartOK'
    OBVIOUS
  <2>2. WaitsOK'
    OBVIOUS
  <2>3. CallOK'
    BY DEF States
  <2> QED
    BY <2>1, <2>2, <2>3
<1>5. OneBudget'
  BY DEF OneBudget
<1>6. Alone' /\ AgreeSoFar' /\ SessionOK'
  <2>1. Alone'
    BY DEF Alone, Setting, States
  <2>2. AgreeSoFar'
    BY DEF Alone, AgreeSoFar, StatusPending, BitPending, Setting, States, SessionOK
  <2>3. SessionOK'
    BY DEF Alone, Setting, States, SessionOK
  <2> QED
    BY <2>1, <2>2, <2>3
<1> QED
  BY <1>1, <1>2, <1>3, <1>4, <1>5, <1>6

LEMMA MainWifiStep ==
  ASSUME RunInv, MainWifi
  PROVE  RunInv'
<1> USE DEF RunInv, TypeOK, TaskTypes, CallTypes, NetTypes, Tasks, Callers
<1> USE DEF MainWifi, Wait, callVars
<1>1. TaskTypes'
  <2>1. "main" \in Tasks /\ "WIFI" \in Bits
    BY DEF Bits
  <2> HIDE DEF Wait
  <2> QED
    BY <2>1, WaitFacts DEF Bits
<1>2. CallTypes'
  BY DEF States
<1>3. NetTypes'
  BY DEF Control, States
<1> USE DEF Late, StartOK, WaitsOK, CallOK
<1>4. StartOK' /\ WaitsOK' /\ CallOK'
  <2>1. StartOK'
    OBVIOUS
  <2>2. WaitsOK'
    OBVIOUS
  <2>3. CallOK'
    BY DEF States
  <2> QED
    BY <2>1, <2>2, <2>3
<1>5. OneBudget'
  <2> HIDE DEF Wait
  <2>1. "main" \in Tasks /\ "WIFI" \in Bits
    BY DEF Bits
  <2>2. waits'["plc"] = waits["plc"] /\ timer'["plc"] = timer["plc"]
    BY <2>1, WaitFacts
  <2>3. CASE waits'["main"] = waits["main"] /\ timer'["main"] = timer["main"]
    BY <2>2, <2>3 DEF OneBudget
  <2>4. CASE timer'["main"] = WaitTime
    <3>1. timer["plc"] \in 0..WaitTime
      OBVIOUS
    <3>2. timer'["plc"] <= timer'["main"]
      BY ONLY <2>2, <2>4, <3>1, WaitTimeFacts
    <3> QED
      BY <3>2 DEF OneBudget
  <2> QED
    BY <2>1, <2>3, <2>4, WaitFacts
<1>6. Alone' /\ AgreeSoFar' /\ SessionOK'
  <2>1. Alone'
    BY DEF Alone, Setting, States
  <2>2. AgreeSoFar'
    BY DEF Alone, AgreeSoFar, StatusPending, BitPending, Setting, States, SessionOK
  <2>3. SessionOK'
    BY DEF Alone, Setting, States, SessionOK
  <2> QED
    BY <2>1, <2>2, <2>3
<1> QED
  BY <1>1, <1>2, <1>3, <1>4, <1>5, <1>6

LEMMA MainMqttStep ==
  ASSUME RunInv, MainMqtt
  PROVE  RunInv'
<1> USE DEF RunInv, TypeOK, TaskTypes, CallTypes, NetTypes, Tasks, Callers
<1> USE DEF MainMqtt, Wait, netVars
<1>1. TaskTypes'
  <2>1. "main" \in Tasks /\ "WIFI" \in Bits
    BY DEF Bits
  <2> HIDE DEF Wait
  <2> QED
    BY <2>1, WaitFacts DEF Bits
<1>2. CallTypes'
  BY DEF States, StartOK
<1>3. NetTypes'
  BY DEF Control, States
<1> USE DEF Late, StartOK, WaitsOK, CallOK
<1>4. StartOK' /\ WaitsOK' /\ CallOK'
  <2>1. StartOK'
    OBVIOUS
  <2>2. WaitsOK'
    OBVIOUS
  <2>3. CallOK'
    BY DEF States
  <2> QED
    BY <2>1, <2>2, <2>3
<1>5. OneBudget'
  <2> HIDE DEF Wait
  <2>1. "main" \in Tasks /\ "WIFI" \in Bits
    BY DEF Bits
  <2>2. waits'["plc"] = waits["plc"] /\ timer'["plc"] = timer["plc"]
    BY <2>1, WaitFacts
  <2>3. CASE waits'["main"] = waits["main"] /\ timer'["main"] = timer["main"]
    BY <2>2, <2>3 DEF OneBudget
  <2>4. CASE timer'["main"] = WaitTime
    <3>1. timer["plc"] \in 0..WaitTime
      OBVIOUS
    <3>2. timer'["plc"] <= timer'["main"]
      BY ONLY <2>2, <2>4, <3>1, WaitTimeFacts
    <3> QED
      BY <3>2 DEF OneBudget
  <2> QED
    BY <2>1, <2>3, <2>4, WaitFacts
<1>6. Alone' /\ AgreeSoFar' /\ SessionOK'
  <2>1. Alone'
    BY DEF Alone, Setting, States
  <2>2. AgreeSoFar'
    BY DEF Alone, AgreeSoFar, StatusPending, BitPending, Setting, States, SessionOK
  <2>3. SessionOK'
    BY DEF Alone, Setting, States, SessionOK
  <2> QED
    BY <2>1, <2>2, <2>3
<1> QED
  BY <1>1, <1>2, <1>3, <1>4, <1>5, <1>6

LEMMA MainMqttStartStep ==
  ASSUME RunInv, MainMqttStart
  PROVE  RunInv'
<1> USE DEF RunInv, TypeOK, TaskTypes, CallTypes, NetTypes, Tasks, Callers
<1> USE DEF MainMqttStart, Wait, callVars
<1>1. TaskTypes'
  <2>1. "main" \in Tasks /\ "MQTT" \in Bits
    BY DEF Bits
  <2> HIDE DEF Wait
  <2> QED
    BY <2>1, WaitFacts DEF Bits
<1>2. CallTypes'
  BY DEF States
<1>3. NetTypes'
  BY DEF Control, States
<1> USE DEF Late, StartOK, WaitsOK, CallOK
<1>4. StartOK' /\ WaitsOK' /\ CallOK'
  <2>1. StartOK'
    OBVIOUS
  <2>2. WaitsOK'
    OBVIOUS
  <2>3. CallOK'
    BY DEF States
  <2> QED
    BY <2>1, <2>2, <2>3
<1>5. OneBudget'
  <2> HIDE DEF Wait
  <2>1. "main" \in Tasks /\ "MQTT" \in Bits
    BY DEF Bits
  <2>2. waits'["plc"] = waits["plc"] /\ timer'["plc"] = timer["plc"]
    BY <2>1, WaitFacts
  <2>3. CASE waits'["main"] = waits["main"] /\ timer'["main"] = timer["main"]
    BY <2>2, <2>3 DEF OneBudget
  <2>4. CASE timer'["main"] = WaitTime
    <3>1. timer["plc"] \in 0..WaitTime
      OBVIOUS
    <3>2. timer'["plc"] <= timer'["main"]
      BY ONLY <2>2, <2>4, <3>1, WaitTimeFacts
    <3> QED
      BY <3>2 DEF OneBudget
  <2> QED
    BY <2>1, <2>3, <2>4, WaitFacts
<1>6. Alone' /\ AgreeSoFar' /\ SessionOK'
  <2>1. Alone'
    BY DEF Alone, Setting, States
  <2>2. AgreeSoFar'
    BY DEF Alone, AgreeSoFar, StatusPending, BitPending, Setting, States, SessionOK
  <2>3. SessionOK'
    BY DEF Alone, Setting, States, SessionOK
  <2> QED
    BY <2>1, <2>2, <2>3
<1> QED
  BY <1>1, <1>2, <1>3, <1>4, <1>5, <1>6

LEMMA MainRunStep ==
  ASSUME RunInv, MainRun
  PROVE  RunInv'
<1> USE DEF RunInv, TypeOK, TaskTypes, CallTypes, NetTypes, Tasks, Callers
<1> USE DEF MainRun, BeginSetState, netVars
<1>1. TaskTypes'
  BY DEF Bits
<1>2. CallTypes'
  <2> HIDE DEF BeginSetState
  <2>1. "main" \in Callers /\ "running" \in States /\ call["main"] = "no"
    BY DEF States, StartOK
  <2> HIDE DEF CallTypes
  <2> QED
    BY <2>1, BeginFacts
<1>3. NetTypes'
  BY DEF Control, States
<1> USE DEF Late, StartOK, WaitsOK, CallOK
<1>4. StartOK' /\ WaitsOK' /\ CallOK'
  <2>1. StartOK'
    OBVIOUS
  <2>2. WaitsOK'
    OBVIOUS
  <2>3. CallOK'
    BY DEF States
  <2> QED
    BY <2>1, <2>2, <2>3
<1>5. OneBudget'
  BY DEF OneBudget
<1>6. Alone' /\ AgreeSoFar' /\ SessionOK'
  <2>1. Alone'
    BY DEF Alone, Setting, States
  <2>2. AgreeSoFar'
    BY DEF Alone, AgreeSoFar, StatusPending, BitPending, Setting, States, SessionOK
  <2>3. SessionOK'
    BY DEF Alone, Setting, States, SessionOK
  <2> QED
    BY <2>1, <2>2, <2>3
<1> QED
  BY <1>1, <1>2, <1>3, <1>4, <1>5, <1>6

LEMMA PlcStartStep ==
  ASSUME RunInv, PlcStart
  PROVE  RunInv'
<1> USE DEF RunInv, TypeOK, TaskTypes, CallTypes, NetTypes, Tasks, Callers
<1> USE DEF PlcStart, callVars, netVars
<1>1. TaskTypes'
  BY DEF Bits
<1>2. CallTypes'
  BY DEF States
<1>3. NetTypes'
  BY DEF Control, States
<1> USE DEF Late, StartOK, WaitsOK, CallOK
<1>4. StartOK' /\ WaitsOK' /\ CallOK'
  <2>1. StartOK'
    OBVIOUS
  <2>2. WaitsOK'
    OBVIOUS
  <2>3. CallOK'
    BY DEF States
  <2> QED
    BY <2>1, <2>2, <2>3
<1>5. OneBudget'
  BY DEF OneBudget
<1>6. Alone' /\ AgreeSoFar' /\ SessionOK'
  <2>1. Alone'
    BY DEF Alone, Setting, States
  <2>2. AgreeSoFar'
    BY DEF Alone, AgreeSoFar, StatusPending, BitPending, Setting, States, SessionOK
  <2>3. SessionOK'
    BY DEF Alone, Setting, States, SessionOK
  <2> QED
    BY <2>1, <2>2, <2>3
<1> QED
  BY <1>1, <1>2, <1>3, <1>4, <1>5, <1>6

LEMMA PlcTickStep ==
  ASSUME RunInv, PlcTick
  PROVE  RunInv'
<1> USE DEF RunInv, TypeOK, TaskTypes, CallTypes, NetTypes, Tasks, Callers
<1> USE DEF PlcTick, callVars, netVars
<1>1. TaskTypes'
  BY DEF Bits
<1>2. CallTypes'
  BY DEF States
<1>3. NetTypes'
  BY DEF Control, States
<1> USE DEF Late, StartOK, WaitsOK, CallOK
<1>4. StartOK' /\ WaitsOK' /\ CallOK'
  <2>1. StartOK'
    OBVIOUS
  <2>2. WaitsOK'
    OBVIOUS
  <2>3. CallOK'
    BY DEF States
  <2> QED
    BY <2>1, <2>2, <2>3
<1>5. OneBudget'
  BY DEF OneBudget
<1>6. Alone' /\ AgreeSoFar' /\ SessionOK'
  <2>1. Alone'
    BY DEF Alone, Setting, States
  <2>2. AgreeSoFar'
    BY DEF Alone, AgreeSoFar, StatusPending, BitPending, Setting, States, SessionOK
  <2>3. SessionOK'
    BY DEF Alone, Setting, States, SessionOK
  <2> QED
    BY <2>1, <2>2, <2>3
<1> QED
  BY <1>1, <1>2, <1>3, <1>4, <1>5, <1>6

LEMMA PlcScanEndStep ==
  ASSUME RunInv, PlcScanEnd
  PROVE  RunInv'
<1> USE DEF RunInv, TypeOK, TaskTypes, CallTypes, NetTypes, Tasks, Callers
<1> USE DEF PlcScanEnd, callVars, netVars
<1>1. TaskTypes'
  BY DEF Bits
<1>2. CallTypes'
  BY DEF States
<1>3. NetTypes'
  BY DEF Control, States
<1> USE DEF Late, StartOK, WaitsOK, CallOK
<1>4. StartOK' /\ WaitsOK' /\ CallOK'
  <2>1. StartOK'
    OBVIOUS
  <2>2. WaitsOK'
    OBVIOUS
  <2>3. CallOK'
    BY DEF States
  <2> QED
    BY <2>1, <2>2, <2>3
<1>5. OneBudget'
  BY DEF OneBudget
<1>6. Alone' /\ AgreeSoFar' /\ SessionOK'
  <2>1. Alone'
    BY DEF Alone, Setting, States
  <2>2. AgreeSoFar'
    BY DEF Alone, AgreeSoFar, StatusPending, BitPending, Setting, States, SessionOK
  <2>3. SessionOK'
    BY DEF Alone, Setting, States, SessionOK
  <2> QED
    BY <2>1, <2>2, <2>3
<1> QED
  BY <1>1, <1>2, <1>3, <1>4, <1>5, <1>6

LEMMA RebootStep ==
  ASSUME RunInv, Reboot, sent' \in 0..MaxSent, faults' \in 0..MaxFaults
  PROVE  RunInv'
<1> USE DEF RunInv, TypeOK, TaskTypes, CallTypes, NetTypes, Tasks, Callers
<1> USE DEF Reboot
<1>1. TaskTypes'
  BY WaitTimeFacts DEF Bits
<1>2. CallTypes'
  BY DEF States
<1>3. NetTypes'
  <2>1. inbox' \in Seq(Control)
    BY InboxFacts
  <2> QED
    BY <2>1 DEF States
<1> USE DEF Late, StartOK, WaitsOK, CallOK
<1>4. StartOK' /\ WaitsOK' /\ CallOK'
  <2>1. StartOK'
    OBVIOUS
  <2>2. WaitsOK'
    OBVIOUS
  <2>3. CallOK'
    BY DEF States
  <2> QED
    BY <2>1, <2>2, <2>3
<1>5. OneBudget'
  BY DEF OneBudget
<1>6. Alone' /\ AgreeSoFar' /\ SessionOK'
  <2>1. Alone'
    BY DEF Alone, Setting, States
  <2>2. AgreeSoFar'
    BY DEF Alone, AgreeSoFar, StatusPending, BitPending, Setting, States, SessionOK
  <2>3. SessionOK'
    BY DEF Alone, Setting, States, SessionOK
  <2> QED
    BY <2>1, <2>2, <2>3
<1> QED
  BY <1>1, <1>2, <1>3, <1>4, <1>5, <1>6

LEMMA TickStep ==
  ASSUME RunInv, Tick
  PROVE  RunInv'
<1> USE DEF RunInv, TypeOK, TaskTypes, CallTypes, NetTypes, Tasks, Callers
<1> USE DEF Tick, callVars, netVars
<1>1. TaskTypes'
  <2>1. ASSUME NEW t \in Tasks
        PROVE  timer'[t] \in 0..WaitTime
    <3>1. timer[t] \in 0..WaitTime
      OBVIOUS
    <3>2. timer'[t] = timer[t] \/ (timer[t] > 0 /\ timer'[t] = timer[t] - 1)
      OBVIOUS
    <3> QED
      BY ONLY <3>1, <3>2, WaitTimeFacts, CountFacts
  <2>2. timer' \in [Tasks -> 0..WaitTime]
    <3> HIDE DEF Tasks
    <3> QED
      BY <2>1
  <2> QED
    BY <2>2 DEF Bits
<1>2. CallTypes'
  BY DEF States
<1>3. NetTypes'
  <2>1. inbox' \in Seq(Control)
    BY InboxFacts
  <2>2. faults' \in 0..MaxFaults
    <3>1. faults \in 0..MaxFaults /\ faults < MaxFaults /\ faults' = faults + 1
      OBVIOUS
    <3>2. MaxFaults \in Nat
      BY ParametersAssumption
    <3> QED
      BY ONLY <3>1, <3>2, CountFacts
  <2>3. sent' \in 0..MaxSent /\ status' \in States \cup {"none", "starting", "offline"}
    OBVIOUS
  <2> QED
    BY <2>1, <2>2, <2>3
<1> USE DEF Late, StartOK, WaitsOK, CallOK
<1>4. StartOK' /\ WaitsOK' /\ CallOK'
  <2>1. StartOK'
    OBVIOUS
  <2>2. WaitsOK'
    OBVIOUS
  <2>3. CallOK'
    BY DEF States
  <2> QED
    BY <2>1, <2>2, <2>3
<1>5. OneBudget'
  <2>1. ASSUME waits["plc"] # "no", waits["main"] # "no"
        PROVE  timer'["plc"] <= timer'["main"]
    <3>1. timer["plc"] <= timer["main"]
      BY <2>1 DEF OneBudget
    <3>2. timer["plc"] \in 0..WaitTime /\ timer["main"] \in 0..WaitTime
      OBVIOUS
    <3>3. timer'["plc"] = timer["plc"] - 1 /\ timer'["main"] = timer["main"] - 1
      BY <2>1
    <3> QED
      BY ONLY <3>1, <3>2, <3>3, WaitTimeFacts
  <2> QED
    BY <2>1 DEF OneBudget
<1>6. Alone' /\ AgreeSoFar' /\ SessionOK'
  <2>1. Alone'
    BY DEF Alone, Setting, States
  <2>2. AgreeSoFar'
    BY DEF Alone, AgreeSoFar, StatusPending, BitPending, Setting, States, SessionOK
  <2>3. SessionOK'
    BY DEF Alone, Setting, States, SessionOK
  <2> QED
    BY <2>1, <2>2, <2>3
<1> QED
  BY <1>1, <1>2, <1>3, <1>4, <1>5, <1>6

LEMMA WifiGotIpStep ==
  ASSUME RunInv, WifiGotIp
  PROVE  RunInv'
<1> USE DEF RunInv, TypeOK, TaskTypes, CallTypes, NetTypes, Tasks, Callers
<1> USE DEF WifiGotIp, SetBit, callVars
<1>1. TaskTypes'
  <2>1. "WIFI" \in Bits
    BY DEF Bits
  <2> QED
    BY <2>1, SetBitFacts
<1>2. CallTypes'
  BY DEF States
<1>3. NetTypes'
  BY DEF Control, States
<1> USE DEF Late, StartOK, WaitsOK, CallOK
<1>4. StartOK' /\ WaitsOK' /\ CallOK'
  <2>1. StartOK'
    OBVIOUS
  <2>2. WaitsOK'
    OBVIOUS
  <2>3. CallOK'
    BY DEF States
  <2> QED
    BY <2>1, <2>2, <2>3
<1>5. OneBudget'
  BY DEF OneBudget
<1>6. Alone' /\ AgreeSoFar' /\ SessionOK'
  <2>1. Alone'
    BY DEF Alone, Setting, States
  <2>2. AgreeSoFar'
    BY DEF Alone, AgreeSoFar, StatusPending, BitPending, Setting, States, SessionOK
  <2>3. SessionOK'
    BY DEF Alone, Setting, States, SessionOK
  <2> QED
    BY <2>1, <2>2, <2>3
<1> QED
  BY <1>1, <1>2, <1>3, <1>4, <1>5, <1>6

LEMMA WifiDisconnectedStep ==
  ASSUME RunInv, WifiDisconnected
  PROVE  RunInv'
<1> USE DEF RunInv, TypeOK, TaskTypes, CallTypes, NetTypes, Tasks, Callers
<1> USE DEF WifiDisconnected, ClearBit, CutSession, callVars
<1>1. TaskTypes'
  BY DEF Bits
<1>2. CallTypes'
  BY DEF States
<1>3. NetTypes'
  <2>1. inbox' \in Seq(Control)
    BY InboxFacts
  <2>2. faults' \in 0..MaxFaults
    <3>1. faults \in 0..MaxFaults /\ faults < MaxFaults /\ faults' = faults + 1
      OBVIOUS
    <3>2. MaxFaults \in Nat
      BY ParametersAssumption
    <3> QED
      BY ONLY <3>1, <3>2, CountFacts
  <2>3. sent' \in 0..MaxSent /\ status' \in States \cup {"none", "starting", "offline"}
    OBVIOUS
  <2> QED
    BY <2>1, <2>2, <2>3
<1> USE DEF Late, StartOK, WaitsOK, CallOK
<1>4. StartOK' /\ WaitsOK' /\ CallOK'
  <2>1. StartOK'
    OBVIOUS
  <2>2. WaitsOK'
    OBVIOUS
  <2>3. CallOK'
    BY DEF States
  <2> QED
    BY <2>1, <2>2, <2>3
<1>5. OneBudget'
  BY DEF OneBudget
<1>6. Alone' /\ AgreeSoFar' /\ SessionOK'
  <2>1. Alone'
    BY DEF Alone, Setting, States
  <2>2. AgreeSoFar'
    BY DEF Alone, AgreeSoFar, StatusPending, BitPending, Setting, States, SessionOK
  <2>3. SessionOK'
    BY DEF Alone, Setting, States, SessionOK
  <2> QED
    BY <2>1, <2>2, <2>3
<1> QED
  BY <1>1, <1>2, <1>3, <1>4, <1>5, <1>6

LEMMA ConnectionCutStep ==
  ASSUME RunInv, ConnectionCut
  PROVE  RunInv'
<1> USE DEF RunInv, TypeOK, TaskTypes, CallTypes, NetTypes, Tasks, Callers
<1> USE DEF ConnectionCut, CutSession, taskVars, callVars
<1>1. TaskTypes'
  BY DEF Bits
<1>2. CallTypes'
  BY DEF States
<1>3. NetTypes'
  <2>1. inbox' \in Seq(Control)
    BY InboxFacts
  <2>2. faults' \in 0..MaxFaults
    <3>1. faults \in 0..MaxFaults /\ faults < MaxFaults /\ faults' = faults + 1
      OBVIOUS
    <3>2. MaxFaults \in Nat
      BY ParametersAssumption
    <3> QED
      BY ONLY <3>1, <3>2, CountFacts
  <2>3. sent' \in 0..MaxSent /\ status' \in States \cup {"none", "starting", "offline"}
    OBVIOUS
  <2> QED
    BY <2>1, <2>2, <2>3
<1> USE DEF Late, StartOK, WaitsOK, CallOK
<1>4. StartOK' /\ WaitsOK' /\ CallOK'
  <2>1. StartOK'
    OBVIOUS
  <2>2. WaitsOK'
    OBVIOUS
  <2>3. CallOK'
    BY DEF States
  <2> QED
    BY <2>1, <2>2, <2>3
<1>5. OneBudget'
  BY DEF OneBudget
<1>6. Alone' /\ AgreeSoFar' /\ SessionOK'
  <2>1. Alone'
    BY DEF Alone, Setting, States
  <2>2. AgreeSoFar'
    BY DEF Alone, AgreeSoFar, StatusPending, BitPending, Setting, States, SessionOK
  <2>3. SessionOK'
    BY DEF Alone, Setting, States, SessionOK
  <2> QED
    BY <2>1, <2>2, <2>3
<1> QED
  BY <1>1, <1>2, <1>3, <1>4, <1>5, <1>6

LEMMA WillStep ==
  ASSUME RunInv, Will
  PROVE  RunInv'
<1> USE DEF RunInv, TypeOK, TaskTypes, CallTypes, NetTypes, Tasks, Callers
<1> USE DEF Will, taskVars, callVars
<1>1. TaskTypes'
  BY DEF Bits
<1>2. CallTypes'
  BY DEF States
<1>3. NetTypes'
  BY DEF Control, States
<1> USE DEF Late, StartOK, WaitsOK, CallOK
<1>4. StartOK' /\ WaitsOK' /\ CallOK'
  <2>1. StartOK'
    OBVIOUS
  <2>2. WaitsOK'
    OBVIOUS
  <2>3. CallOK'
    BY DEF States
  <2> QED
    BY <2>1, <2>2, <2>3
<1>5. OneBudget'
  BY DEF OneBudget
<1>6. Alone' /\ AgreeSoFar' /\ SessionOK'
  <2>1. Alone'
    BY DEF Alone, Setting, States
  <2>2. AgreeSoFar'
    BY DEF Alone, AgreeSoFar, StatusPending, BitPending, Setting, States, SessionOK
  <2>3. SessionOK'
    BY DEF Alone, Setting, States, SessionOK
  <2> QED
    BY <2>1, <2>2, <2>3
<1> QED
  BY <1>1, <1>2, <1>3, <1>4, <1>5, <1>6

LEMMA MqttConnectedStep ==
  ASSUME RunInv, MqttConnected
  PROVE  RunInv'
<1> USE DEF RunInv, TypeOK, TaskTypes, CallTypes, NetTypes, Tasks, Callers
<1> USE DEF MqttConnected, MqttIdle, taskVars
<1>1. TaskTypes'
  BY DEF Bits
<1>2. CallTypes'
  BY DEF States
<1>3. NetTypes'
  BY DEF Control, States
<1> USE DEF Late, StartOK, WaitsOK, CallOK
<1>4. StartOK' /\ WaitsOK' /\ CallOK'
  <2>1. StartOK'
    OBVIOUS
  <2>2. WaitsOK'
    OBVIOUS
  <2>3. CallOK'
    BY DEF States
  <2> QED
    BY <2>1, <2>2, <2>3
<1>5. OneBudget'
  BY DEF OneBudget
<1>6. Alone' /\ AgreeSoFar' /\ SessionOK'
  <2>1. Alone'
    BY DEF Alone, Setting, States
  <2>2. AgreeSoFar'
    BY DEF Alone, AgreeSoFar, StatusPending, BitPending, Setting, States, SessionOK
  <2>3. SessionOK'
    BY DEF Alone, Setting, States, SessionOK
  <2> QED
    BY <2>1, <2>2, <2>3
<1> QED
  BY <1>1, <1>2, <1>3, <1>4, <1>5, <1>6

LEMMA MqttSubscribeStep ==
  ASSUME RunInv, MqttSubscribe
  PROVE  RunInv'
<1> USE DEF RunInv, TypeOK, TaskTypes, CallTypes, NetTypes, Tasks, Callers
<1> USE DEF MqttSubscribe, taskVars
<1>1. TaskTypes'
  BY DEF Bits
<1>2. CallTypes'
  BY DEF States
<1>3. NetTypes'
  <2>1. inbox' \in Seq(Control)
    BY InboxFacts, ParametersAssumption
  <2> QED
    BY <2>1 DEF States
<1> USE DEF Late, StartOK, WaitsOK, CallOK
<1>4. StartOK' /\ WaitsOK' /\ CallOK'
  <2>1. StartOK'
    OBVIOUS
  <2>2. WaitsOK'
    OBVIOUS
  <2>3. CallOK'
    BY DEF States
  <2> QED
    BY <2>1, <2>2, <2>3
<1>5. OneBudget'
  BY DEF OneBudget
<1>6. Alone' /\ AgreeSoFar' /\ SessionOK'
  <2>1. Alone'
    BY DEF Alone, Setting, States
  <2>2. AgreeSoFar'
    BY DEF Alone, AgreeSoFar, StatusPending, BitPending, Setting, States, SessionOK
  <2>3. SessionOK'
    BY DEF Alone, Setting, States, SessionOK
  <2> QED
    BY <2>1, <2>2, <2>3
<1> QED
  BY <1>1, <1>2, <1>3, <1>4, <1>5, <1>6

LEMMA MqttSubscribedStep ==
  ASSUME RunInv, MqttSubscribed
  PROVE  RunInv'
<1> USE DEF RunInv, TypeOK, TaskTypes, CallTypes, NetTypes, Tasks, Callers
<1> USE DEF MqttSubscribed, MqttIdle, SetBit, callVars
<1>1. TaskTypes'
  <2>1. "MQTT" \in Bits
    BY DEF Bits
  <2> QED
    BY <2>1, SetBitFacts
<1>2. CallTypes'
  BY DEF States
<1>3. NetTypes'
  BY DEF Control, States
<1> USE DEF Late, StartOK, WaitsOK, CallOK
<1>4. StartOK' /\ WaitsOK' /\ CallOK'
  <2>1. StartOK'
    OBVIOUS
  <2>2. WaitsOK'
    OBVIOUS
  <2>3. CallOK'
    BY DEF States
  <2> QED
    BY <2>1, <2>2, <2>3
<1>5. OneBudget'
  BY DEF OneBudget
<1>6. Alone' /\ AgreeSoFar' /\ SessionOK'
  <2>1. Alone'
    BY DEF Alone, Setting, States
  <2>2. AgreeSoFar'
    BY DEF Alone, AgreeSoFar, StatusPending, BitPending, Setting, States, SessionOK
  <2>3. SessionOK'
    BY DEF Alone, Setting, States, SessionOK
  <2> QED
    BY <2>1, <2>2, <2>3
<1> QED
  BY <1>1, <1>2, <1>3, <1>4, <1>5, <1>6

LEMMA MqttDisconnectedStep ==
  ASSUME RunInv, MqttDisconnected
  PROVE  RunInv'
<1> USE DEF RunInv, TypeOK, TaskTypes, CallTypes, NetTypes, Tasks, Callers
<1> USE DEF MqttDisconnected, MqttIdle, ClearBit, callVars
<1>1. TaskTypes'
  BY DEF Bits
<1>2. CallTypes'
  BY DEF States
<1>3. NetTypes'
  BY DEF Control, States
<1> USE DEF Late, StartOK, WaitsOK, CallOK
<1>4. StartOK' /\ WaitsOK' /\ CallOK'
  <2>1. StartOK'
    OBVIOUS
  <2>2. WaitsOK'
    OBVIOUS
  <2>3. CallOK'
    BY DEF States
  <2> QED
    BY <2>1, <2>2, <2>3
<1>5. OneBudget'
  BY DEF OneBudget
<1>6. Alone' /\ AgreeSoFar' /\ SessionOK'
  <2>1. Alone'
    BY DEF Alone, Setting, States
  <2>2. AgreeSoFar'
    BY DEF Alone, AgreeSoFar, StatusPending, BitPending, Setting, States, SessionOK
  <2>3. SessionOK'
    BY DEF Alone, Setting, States, SessionOK
  <2> QED
    BY <2>1, <2>2, <2>3
<1> QED
  BY <1>1, <1>2, <1>3, <1>4, <1>5, <1>6

LEMMA MqttDataStep ==
  ASSUME RunInv, MqttData, Head(inbox) # "reset"
  PROVE  RunInv'
<1> USE DEF RunInv, TypeOK, TaskTypes, CallTypes, NetTypes, Tasks, Callers
<1>0. "mqtt" \in Callers /\ call["mqtt"] = "no" /\ client \in {"subscribed", "ready"}
  BY DEF MqttData, MqttIdle
<1>1. PICK st \in States : BeginSetState("mqtt", st)
  BY DEF MqttData, States
<1>2. /\ CallTypes'
      /\ call'["mqtt"] = "bit" /\ arg'["mqtt"] = st /\ asked' = st
      /\ call'["main"] = call["main"] /\ arg'["main"] = arg["main"]
      /\ ~raced' => ~Setting("main")
  <2>1. mutex' = mutex /\ mode' = mode
    BY DEF MqttData
  <2> HIDE DEF CallTypes
  <2> QED
    BY <1>0, <1>1, <2>1, BeginFacts
<1>3. UNCHANGED <<bits, waits, timer, mainPc, plcPc, mutex, mode, wifi, client, session, status, sent, faults>>
  BY DEF MqttData, taskVars
<1>4. TaskTypes'
  BY <1>3 DEF Bits
<1>5. NetTypes'
  <2>1. inbox' \in Seq(Control)
    BY InboxFacts DEF MqttData
  <2> QED
    BY <1>3, <2>1 DEF States
<1> USE DEF Late, StartOK, WaitsOK, CallOK
<1>6. StartOK'
  BY <1>0, <1>2, <1>3
<1>7. WaitsOK' /\ OneBudget'
  BY <1>2, <1>3 DEF OneBudget
<1>8. CallOK'
  BY <1>2, <1>3 DEF States
<1>9. Alone' /\ AgreeSoFar'
  BY <1>0, <1>2, <1>3 DEF Alone, AgreeSoFar, StatusPending, BitPending, Setting, States
<1>10. SessionOK'
  BY <1>2, <1>3 DEF SessionOK, States
<1> QED
  BY <1>2, <1>4, <1>5, <1>6, <1>7, <1>8, <1>9, <1>10

LEMMA OperatorStep ==
  ASSUME RunInv, Operator
  PROVE  RunInv'
<1> USE DEF RunInv, TypeOK, TaskTypes, CallTypes, NetTypes, Tasks, Callers
<1> USE DEF Operator, taskVars, callVars
<1>1. TaskTypes'
  BY DEF Bits
<1>2. CallTypes'
  BY DEF States
<1>3. NetTypes'
  <2>1. inbox' \in Seq(Control)
    <3>1. PICK m \in Control : inbox' = Append(inbox, m)
      OBVIOUS
    <3>2. inbox \in Seq(Control)
      OBVIOUS
    <3> QED
      BY ONLY <3>1, <3>2, InboxFacts
  <2>2. sent' \in 0..MaxSent
    <3>1. sent \in 0..MaxSent /\ sent < MaxSent /\ sent' = sent + 1
      OBVIOUS
    <3>2. MaxSent \in Nat
      BY ParametersAssumption
    <3> QED
      BY ONLY <3>1, <3>2, CountFacts
  <2> QED
    BY <2>1, <2>2
<1> USE DEF Late, StartOK, WaitsOK, CallOK
<1>4. StartOK' /\ WaitsOK' /\ CallOK'
  <2>1. StartOK'
    OBVIOUS
  <2>2. WaitsOK'
    OBVIOUS
  <2>3. CallOK'
    BY DEF States
  <2> QED
    BY <2>1, <2>2, <2>3
<1>5. OneBudget'
  BY DEF OneBudget
<1>6. Alone' /\ AgreeSoFar' /\ SessionOK'
  <2>1. Alone'
    BY DEF Alone, Setting, States
  <2>2. AgreeSoFar'
    BY DEF Alone, AgreeSoFar, StatusPending, BitPending, Setting, States, SessionOK
  <2>3. SessionOK'
    BY DEF Alone, Setting, States, SessionOK
  <2> QED
    BY <2>1, <2>2, <2>3
<1> QED
  BY <1>1, <1>2, <1>3, <1>4, <1>5, <1>6

LEMMA RunInit == Init => RunInv
<1> SUFFICES ASSUME Init PROVE RunInv
  OBVIOUS
<1> USE DEF Init, Tasks, Callers
<1>1. TaskTypes
  BY WaitTimeFacts DEF TaskTypes, Bits
<1>2. CallTypes
  BY DEF CallTypes, States
<1>3. NetTypes
  <2>1. inbox \in Seq(Control)
    BY InboxFacts
  <2>2. sent \in 0..MaxSent /\ faults \in 0..MaxFaults
    BY ParametersAssumption
  <2> QED
    BY <2>1, <2>2 DEF NetTypes, States
<1>4. StartOK /\ WaitsOK /\ OneBudget /\ CallOK
  BY DEF StartOK, Late, WaitsOK, OneBudget, CallOK, States
<1>5. Alone /\ AgreeSoFar /\ SessionOK
  BY DEF Alone, AgreeSoFar, StatusPending, BitPending, Setting, States, SessionOK
<1> QED
  BY <1>1, <1>2, <1>3, <1>4, <1>5 DEF RunInv, TypeOK

LEMMA RunStep == RunInv /\ [Next]_vars => RunInv'
<1> SUFFICES ASSUME RunInv, [Next]_vars PROVE RunInv'
  OBVIOUS
<1>1. ASSUME NEW c \in Callers, SetState(c) PROVE RunInv'
  BY <1>1, SetStateBitStep, PublishTakeStep, PublishDropStep, PublishSendStep,
     SetStateModeStep DEF SetState
<1>2. CASE MainTask
  BY <1>1, <1>2, MainPlcStep, MainUavcanStep, MainWifiStep, MainMqttStep,
     MainMqttStartStep, MainRunStep DEF MainTask, Callers
<1>3. CASE PlcTask
  BY <1>3, PlcStartStep, PlcTickStep, PlcScanEndStep DEF PlcTask
<1>4. sent \in 0..MaxSent /\ faults \in 0..MaxFaults
  BY DEF RunInv, TypeOK, NetTypes
<1>5. CASE MqttTask
  <2>1. CASE MqttData
    <3>1. CASE Head(inbox) = "reset"
      BY <1>4, <2>1, <3>1, RebootStep DEF MqttData
    <3>2. CASE Head(inbox) # "reset"
      BY <2>1, <3>2, MqttDataStep
    <3> QED
      BY <3>1, <3>2
  <2> QED
    BY <1>1, <1>5, <2>1, MqttConnectedStep, MqttSubscribeStep, MqttSubscribedStep,
       MqttDisconnectedStep DEF MqttTask, Callers
<1>6. CASE WaitTimeout
  BY <1>4, <1>6, RebootStep DEF WaitTimeout
<1>7. CASE Crash
  <2>1. faults < MaxFaults /\ faults' = faults + 1 /\ Reboot /\ sent' = sent
    BY <1>7 DEF Crash
  <2>2. MaxFaults \in Nat
    BY ParametersAssumption
  <2>3. faults' \in 0..MaxFaults
    BY ONLY <1>4, <2>1, <2>2, CountFacts
  <2> QED
    BY <1>4, <2>1, <2>3, RebootStep
<1>8. CASE Tick \/ WifiGotIp \/ WifiDisconnected \/ ConnectionCut \/ Will \/ Operator
  BY <1>8, TickStep, WifiGotIpStep, WifiDisconnectedStep, ConnectionCutStep,
     WillStep, OperatorStep
<1>9. CASE UNCHANGED vars
  <2>1. /\ UNCHANGED <<bits, waits, timer, mainPc, plcPc>>
        /\ UNCHANGED <<call, arg, mutex, mode, asked, raced>>
        /\ UNCHANGED <<wifi, client, session, status, inbox, sent, faults>>
    BY <1>9 DEF vars, taskVars, callVars, netVars
  <2>2. TypeOK'
    <3>1. TaskTypes' /\ CallTypes'
      BY <2>1 DEF RunInv, TypeOK, TaskTypes, CallTypes
    <3>2. NetTypes'
      BY <2>1 DEF RunInv, TypeOK, NetTypes
    <3> QED
      BY <3>1, <3>2 DEF TypeOK
  <2>3. StartOK' /\ WaitsOK' /\ OneBudget' /\ CallOK'
    BY <2>1 DEF RunInv, StartOK, WaitsOK, OneBudget, CallOK
  <2>4. Alone' /\ AgreeSoFar' /\ SessionOK'
    BY <2>1 DEF RunInv, Alone, AgreeSoFar, StatusPending, BitPending, Setting, SessionOK
  <2> QED
    BY <2>2, <2>3, <2>4 DEF RunInv
<1> QED
  BY <1>2, <1>3, <1>5, <1>6, <1>7, <1>8, <1>9 DEF Next

\* The invariant from which the properties below follow.
THEOREM RunInvariant == Spec => []RunInv
BY RunInit, RunStep, PTL DEF Spec

-----------------------------------------------------------------------------
(* What follows from it *)

\* The types, that publish_mutex is held exactly by the task that publishes,
\* and that no wait of locks.h outlasts MAX_BIT_WAIT_TIME.
THEOREM RunTypeCorrect == Spec => []TypeOK
<1>1. RunInv => TypeOK
  BY DEF RunInv
<1> QED
  BY <1>1, RunInvariant, PTL

\* After calls of plc_set_state that did not overlap, the RUNNING bit, the node
\* mode and the status the broker retains agree with the last call.
THEOREM StateAgrees == Spec => []Agree
<1>1. RunInv => Agree
  BY DEF RunInv, AgreeSoFar, Agree, BitPending, StatusPending
<1> QED
  BY <1>1, RunInvariant, PTL

\* The waits of main_init share the budget of plc_task's wait for RUNNING.
THEOREM BudgetIsShared == Spec => []OneBudget
<1>1. RunInv => OneBudget
  BY DEF RunInv
<1> QED
  BY <1>1, RunInvariant, PTL

\* Once main_init has ended no wait can end in a restart.
THEOREM NoLateTimeout == Spec => []NoTimeoutOnceUp
<1>1. RunInv => NoTimeoutOnceUp
  BY DEF RunInv, WaitsOK, NoTimeoutOnceUp, Tasks
<1> QED
  BY <1>1, RunInvariant, PTL

\* Nothing runs before the parts it needs: neither the program, nor a call that
\* publishes under publish_mutex.
THEOREM PartsAreReady == Spec => []ReadyBeforeRun
<1>1. RunInv => ReadyBeforeRun
  BY DEF RunInv, StartOK, Late, ReadyBeforeRun, Callers
<1> QED
  BY <1>1, RunInvariant, PTL
=============================================================================
