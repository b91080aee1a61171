------------------------------ MODULE PlcScan ------------------------------
(***************************************************************************)
(* The scan cycle of the PLC (plc_task in plc/src/plc.c) with its clock    *)
(* and its local inputs and outputs (plc/src/io.c).  The remote variables  *)
(* are the subject of RemoteIO; who pauses the program that of RunControl. *)
(* The PLC has no analog pins: hal_esp32.c refuses them and io_init fails. *)
(*                                                                         *)
(* Times are in an arbitrary unit that a nanosecond is a multiple of.      *)
(***************************************************************************)
EXTENDS Integers

CONSTANTS
  TickTime,       \* common_ticktime__: the period of the program
  Billion,        \* one second
  Million,        \* one millisecond
  RtosTick,       \* milliseconds of a tick of the RTOS (1000 / CONFIG_FREERTOS_HZ)
  LongMax,        \* the largest value of tv_nsec, a long
  RemoteIndex,    \* REMOTE_VARS_INDEX: local variables come before it
  DIVars, DOVars, \* the indexes the program has a located variable at
  DisNum, DosNum, \* how many pins are configured
  DisInverted, DosInverted, \* DIS_PINS_INVERTED, DOS_PINS_INVERTED
  MaxWait,        \* bound: RTOS ticks before the program may start
  MaxScans,       \* bound: turns of the task
  MaxLate         \* bound: RTOS ticks a turn may be late

\* pdMS_TO_TICKS(common_ticktime__ / MILLION)
Period == (TickTime \div Million) \div RtosTick

ASSUME TimesAssumption ==
  /\ TickTime \in Nat /\ Billion \in Nat \ {0} /\ Million \in Nat \ {0}
  /\ RtosTick \in Nat \ {0} /\ LongMax \in Nat
  /\ Billion <= LongMax
  /\ Period \in Nat \ {0}   \* vTaskDelayUntil refuses 0

\* tv_nsec may wrap, but no further than an unsigned long reaches.
ASSUME LongAssumption == TickTime + Billion <= 2 * (LongMax + 1)

ASSUME VarsAssumption ==
  /\ RemoteIndex \in Nat /\ DisNum \in Nat /\ DosNum \in Nat
  /\ DIVars \subseteq Nat /\ DOVars \subseteq 0..(RemoteIndex - 1)
  /\ DisInverted \in BOOLEAN /\ DosInverted \in BOOLEAN
  /\ MaxWait \in Nat /\ MaxScans \in Nat /\ MaxLate \in Nat

VARIABLES
  pc,              \* plc_task: "start", "carry", "inputs", "run", "outputs", "delay"
  at,              \* the index its loop is at
  sec, nsec, tick, \* __CURRENT_TIME and tick
  last_wake, now,  \* last_wake, and the tick count of the RTOS
  running,         \* PLC_RUNNING_BIT
  din, dout,       \* the program's local inputs and outputs
  di, do,          \* the levels of the pins
  begun,           \* (history) the tick count when the bit was first seen
  shown            \* (history) the levels each input pin had during this turn

clockVars == <<sec, nsec, tick>>
vars == <<pc, at, clockVars, last_wake, now, running, din, dout, di, do, begun, shown>>

-----------------------------------------------------------------------------
(* io.c *)

DiPinValue(x) == x # DisInverted
DoPinValue(x) == x # DosInverted

\* The definitions named ...Mistaken are what a plausible mistake would make of
\* the definition after them; each breaks one of the properties below.
GetDiMistaken(i) == IF i < DisNum THEN {di[i]} ELSE BOOLEAN

\* What *bval may be after io_get_di: update_inputs ignores the result, and the
\* variable it passes is uninitialised when there is no such pin.
GetDi(i) == IF i < DisNum THEN {DiPinValue(di[i])} ELSE BOOLEAN

\* io_set_do: the level of the pins afterwards.
SetDo(i, value) == IF i < DosNum THEN [do EXCEPT ![i] = DoPinValue(value)] ELSE do

-----------------------------------------------------------------------------
(* The clock *)

Modulus == 2 * (LongMax + 1)

\* An unsigned sum once it is stored in a long.
Long(x) == IF x > LongMax THEN x - Modulus ELSE x

\* A long where an unsigned number is due.
Unsigned(x) == IF x < 0 THEN x + Modulus ELSE x

\* A turn of the task begins, with the first statement of update_time.
BeginTurn ==
  /\ tick < MaxScans
  /\ nsec' = Long(nsec + TickTime)
  /\ shown' = [k \in DOMAIN di |-> {di[k]}]
  /\ pc' = "carry"

StartMistaken ==
  /\ pc = "start" /\ running
  /\ last_wake' = 0 /\ begun' = now
  /\ BeginTurn
  /\ UNCHANGED <<at, sec, tick, now, running, din, dout, di, do>>

\* plc_task once WAIT_BITS(PLC_RUNNING_BIT) is over
Start ==
  /\ pc = "start" /\ running
  /\ last_wake' = now /\ begun' = now
  /\ BeginTurn
  /\ UNCHANGED <<at, sec, tick, now, running, din, dout, di, do>>

CarriesMistaken == nsec >= Billion

\* The condition of update_time's loop: BILLION is unsigned and wider than a long,
\* so that a sum that has wrapped to a negative number is still the larger.
Carries == Unsigned(nsec) >= Billion

\* A turn of that loop, and what follows it.
Carry ==
  /\ pc = "carry" /\ Carries
  /\ nsec' = Long(Unsigned(nsec) - Billion) /\ sec' = sec + 1
  /\ UNCHANGED <<pc, at, tick, last_wake, now, running, din, dout, di, do, begun, shown>>

EndTime ==
  /\ pc = "carry" /\ ~Carries
  /\ tick' = tick + 1
  /\ pc' = IF running THEN "inputs" ELSE "delay"
  /\ at' = 0
  /\ UNCHANGED <<sec, nsec, last_wake, now, running, din, dout, di, do, begun, shown>>

-----------------------------------------------------------------------------
(* The scan *)

\* One turn of the loop over the local inputs.
UpdateInputs ==
  /\ pc = "inputs" /\ at < RemoteIndex
  /\ \E b \in GetDi(at) : din' = IF at \in DIVars THEN [din EXCEPT ![at] = b] ELSE din
  /\ at' = at + 1
  /\ UNCHANGED <<pc, clockVars, last_wake, now, running, dout, di, do, begun, shown>>

EndInputs ==
  /\ pc = "inputs" /\ at = RemoteIndex
  /\ pc' = "run"
  /\ UNCHANGED <<at, clockVars, last_wake, now, running, din, dout, di, do, begun, shown>>

\* config_run__: the user's program, which may compute anything.
Run ==
  /\ pc = "run"
  /\ dout' \in [DOVars -> BOOLEAN]
  /\ pc' = "outputs" /\ at' = 0
  /\ UNCHANGED <<clockVars, last_wake, now, running, din, di, do, begun, shown>>

UpdateOutputsMistaken ==
  /\ pc = "outputs" /\ at < RemoteIndex
  /\ do' = IF at \in DOVars /\ running THEN SetDo(at, dout[at]) ELSE do
  /\ at' = at + 1
  /\ UNCHANGED <<pc, clockVars, last_wake, now, running, din, dout, di, begun, shown>>

\* One turn of the loop over the local outputs.
UpdateOutputs ==
  /\ pc = "outputs" /\ at < RemoteIndex
  /\ do' = IF at \in DOVars THEN SetDo(at, dout[at]) ELSE do
  /\ at' = at + 1
  /\ UNCHANGED <<pc, clockVars, last_wake, now, running, din, dout, di, begun, shown>>

EndOutputs ==
  /\ pc = "outputs" /\ at = RemoteIndex
  /\ pc' = "delay"
  /\ UNCHANGED <<at, clockVars, last_wake, now, running, din, dout, di, do, begun, shown>>

DelayMistaken ==
  /\ pc = "delay" /\ now >= last_wake + Period
  /\ last_wake' = now
  /\ BeginTurn
  /\ UNCHANGED <<at, sec, tick, now, running, din, dout, di, do, begun>>

\* vTaskDelayUntil, which does not wait when the task is late already.
Delay ==
  /\ pc = "delay" /\ now >= last_wake + Period
  /\ last_wake' = last_wake + Period
  /\ BeginTurn
  /\ UNCHANGED <<at, sec, tick, now, running, din, dout, di, do, begun>>

PlcTask == \/ Start \/ Carry \/ EndTime \/ UpdateInputs \/ EndInputs \/ Run
           \/ UpdateOutputs \/ EndOutputs \/ Delay

-----------------------------------------------------------------------------
(* Around it *)

Elapse ==
  /\ now < IF pc = "start" THEN MaxWait ELSE last_wake + Period + MaxLate
  /\ now' = now + 1
  /\ UNCHANGED <<pc, at, clockVars, last_wake, running, din, dout, di, do, begun, shown>>

\* plc_set_state
SetState ==
  /\ running' = ~running
  /\ UNCHANGED <<pc, at, clockVars, last_wake, now, din, dout, di, do, begun, shown>>

PinChanges ==
  /\ \E k \in DOMAIN di, b \in BOOLEAN :
       /\ di' = [di EXCEPT ![k] = b]
       /\ shown' = [shown EXCEPT ![k] = @ \cup {b}]
  /\ UNCHANGED <<pc, at, clockVars, last_wake, now, running, din, dout, do, begun>>

\* io_init has switched the outputs off; the variables of the program are 0.
Init ==
  /\ pc = "start" /\ at = 0
  /\ sec = 0 /\ nsec = 0 /\ tick = 0 /\ last_wake = 0 /\ now = 0 /\ begun = 0
  /\ running = FALSE
  /\ din = [i \in DIVars |-> FALSE]
  /\ dout = [i \in DOVars |-> FALSE]
  /\ di \in [0..(DisNum - 1) -> BOOLEAN]
  /\ do = [k \in 0..(DosNum - 1) |-> DoPinValue(FALSE)]
  /\ shown = [k \in 0..(DisNum - 1) |-> {di[k]}]

Next == PlcTask \/ Elapse \/ SetState \/ PinChanges

Spec == Init /\ [][Next]_vars

-----------------------------------------------------------------------------
(* Properties *)

TypeOK ==
  /\ pc \in {"start", "carry", "inputs", "run", "outputs", "delay"}
  /\ at \in 0..RemoteIndex
  /\ sec \in Nat /\ nsec \in (-LongMax - 1)..LongMax /\ tick \in Nat
  /\ last_wake \in Nat /\ now \in Nat /\ begun \in Nat /\ running \in BOOLEAN
  /\ din \in [DIVars -> BOOLEAN] /\ dout \in [DOVars -> BOOLEAN]
  /\ di \in [0..(DisNum - 1) -> BOOLEAN] /\ do \in [0..(DosNum - 1) -> BOOLEAN]
  /\ shown \in [0..(DisNum - 1) -> SUBSET BOOLEAN]

\* The program's time, and how often it should have been advanced.
Clock == sec * Billion + Unsigned(nsec)
Turns == IF pc = "carry" THEN tick + 1 ELSE tick

(* The clock the program sees has advanced by exactly its period in every turn
   of the task, with the seconds carried (update_time), although tv_nsec may
   have wrapped on the way and is negative until it has been carried. *)
ClockExact ==
  /\ Clock = Turns * TickTime
  /\ pc # "carry" => nsec \in 0..(Billion - 1)

(* "PLC clock can get skewed if PLC task is not fired at the right moment"
   (plc.c:112-114).  Skewed, but in one direction only: however late the turns
   are and whenever the program is paused, its clock is never more than one
   period ahead of the time that has passed since it started. *)
NeverAhead == pc # "start" => Clock <= (now - begun) * RtosTick * Million + TickTime

(* ... and the turns that were late are made up for: none is skipped, and the
   clock always stands at the turn that was due at last_wake. *)
InStep == pc # "start" => Clock = (last_wake - begun) * RtosTick * Million + TickTime

(* What the program reads from a pin that exists is a level the pin has had
   since this turn of the task began, never one left over from an earlier turn
   (update_inputs ignores what io_get_di returns). *)
KnownInputs ==
  pc = "run" => \A i \in DIVars :
    i < DisNum /\ i < RemoteIndex => DiPinValue(din[i]) \in shown[i]

(* A pause never splits a scan: between two scans, paused or not, every output
   pin shows what one run of the program has computed, and a pin that has no
   variable, or no run yet, is off (plc_task tests the bit once per turn). *)
OutputsWhole ==
  pc # "outputs" => \A k \in 0..(DosNum - 1) :
    do[k] = DoPinValue(IF k \in DOVars THEN dout[k] ELSE FALSE)
=============================================================================
