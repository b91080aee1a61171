----------------------------- MODULE SlaveNode -----------------------------
(***************************************************************************)
(* A slave between its messages: the loop of slave/src/main.c, its status  *)
(* message, the temperature sensors (dallas.cpp) and the clean-up of       *)
(* uavcan_update.  All three are timers on counters that wrap.             *)
(*                                                                         *)
(* What the loop does with frames is the subject of RemoteIO, CanNode and  *)
(* StmCan.  The sensors and their bus are external.                        *)
(***************************************************************************)
EXTENDS Integers, FiniteSets

CONSTANTS
  Wrap,            \* millis() and micros() count modulo this number
  UsPerMs,         \* microseconds in a millisecond
  StatusPeriod,    \* UAVCAN_STATUS_PERIOD [ms]
  ReadInterval,    \* TEMPS_READ_INTERVAL [ms]
  WaitInterval,    \* WAIT_INTERVAL [ms]
  CleanupInterval, \* CANARD_RECOMMENDED_STALE_TRANSFER_CLEANUP_INTERVAL_USEC
  Conversion,      \* what a conversion of the sensors takes at most [ms]
  MaxTurn,         \* what setup and a turn of the loop take at most [ms]
  WithDallas,      \* WITH_DALLAS
  TempsNum,        \* TEMPS_NUM, which is also VIRT_AIS_NUM (TEMPS_IDX_START is 0)
  Temps,           \* temperatures, in hundredths of a degree
  Offset,          \* 5000
  Max16,           \* UINT16_MAX
  Refusals,        \* bound: whether libcanard's pool may be short
  MaxBoots         \* bound: restarts

ASSUME TimersAssumption ==
  /\ Wrap \in Nat /\ UsPerMs \in 1..Wrap
  /\ MaxTurn \in Nat /\ Conversion \in Nat
  /\ StatusPeriod \in Nat /\ StatusPeriod + 3 * MaxTurn < Wrap
  /\ WaitInterval \in Nat /\ ReadInterval \in Nat /\ ReadInterval >= WaitInterval
  /\ ReadInterval + 2 * MaxTurn < Wrap
  /\ Conversion + MaxTurn <= WaitInterval
  /\ CleanupInterval \in Nat /\ CleanupInterval + 2 * (MaxTurn * UsPerMs) < Wrap

ASSUME ValuesAssumption ==
  /\ WithDallas \in BOOLEAN /\ TempsNum \in Nat /\ MaxBoots \in Nat /\ Refusals \in BOOLEAN
  /\ Temps \subseteq Int /\ Offset \in Nat /\ Max16 \in Nat
  /\ \A x \in Temps : x + Offset < Max16

Sensors == 0..(TempsNum - 1)

VARIABLES
  pc,                \* "setup", "loop", "status", "dallas", "read", "update"
  ms, us,            \* millis(), micros()
  now,               \* the local variable now of loop and of dallas_update
  last_status,
  state,             \* of dallas.cpp: "START", "READY", "WAITING"
  last_state_change,
  at,                \* the sensor read_temps is at
  virt_ais,
  last_cleanup,
  temp,              \* (world) temp[k]: the temperature at sensor k
  present,           \* (world) the sensors on the bus
  pending,           \* (world) the sensors still converting
  scratch,           \* (world) scratch[k]: the last result of sensor k
  turn,              \* (history) ms since the turn of the loop began
  tried,             \* (history) ms since a status message was last tried
  refused,           \* (history) it found no memory
  sent,              \* (history) ms since one was sent, or since power-on, up to Wrap
  asked,             \* (history) ms since the sensors were asked
  cleaned,           \* (history) microseconds since the last clean-up
  had,               \* (history) the results of all conversions
  boots              \* (history) restarts

timeVars   == <<ms, us, turn, tried, sent, asked, cleaned>>
sensorVars == <<temp, present, pending, scratch, had>>
dallasVars == <<state, last_state_change, at, virt_ais>>
statusVars == <<last_status, refused>>
vars == <<pc, timeVars, now, statusVars, dallasVars, last_cleanup, sensorVars, boots>>

-----------------------------------------------------------------------------

\* The difference of two readings of a counter, as unsigned numbers.
Since(a, b) == IF a >= b THEN a - b ELSE a - b + Wrap

\* A counter after a while.
Count(a, d) == IF a + d >= Wrap THEN a + d - Wrap ELSE a + d

Init ==
  /\ pc = "setup" /\ ms = 0 /\ us = 0 /\ now = 0
  /\ last_status = 0 /\ refused = FALSE
  /\ state = "START" /\ last_state_change = 0 /\ at = 0
  /\ virt_ais = [k \in Sensors |-> 0] /\ last_cleanup = 0
  /\ turn = 0 /\ tried = 0 /\ sent = 0 /\ asked = 0 /\ cleaned = 0
  /\ temp \in [Sensors -> Temps] /\ present = Sensors /\ pending = {}
  /\ scratch = temp /\ had = {temp[k] : k \in Sensors}
  /\ boots = 0

-----------------------------------------------------------------------------
(* setup and loop *)

\* setup ends, or the loop starts over.
LoopStart ==
  /\ pc \in {"setup", "loop"}
  /\ now' = ms /\ turn' = 0
  /\ pc' = "status"
  /\ UNCHANGED <<ms, us, tried, sent, asked, cleaned, statusVars, dallasVars, last_cleanup,
                 sensorVars, boots>>

\* #ifdef WITH_DALLAS: dallas_update begins.
AfterStatus ==
  /\ pc' = IF WithDallas THEN "dallas" ELSE "update"
  /\ now' = ms

StatusNotDue ==
  /\ pc = "status" /\ ~(Since(now, last_status) > StatusPeriod)
  /\ AfterStatus
  /\ UNCHANGED <<timeVars, statusVars, dallasVars, last_cleanup, sensorVars, boots>>

\* uavcan_broadcast_status when the pool of libcanard has room, and when not: the
\* slave tries again in its next turn.  Then dallas_update begins.
StatusSent ==
  /\ pc = "status" /\ Since(now, last_status) > StatusPeriod
  /\ last_status' = now
  /\ tried' = 0 /\ sent' = 0 /\ refused' = FALSE
  /\ AfterStatus
  /\ UNCHANGED <<ms, us, turn, asked, cleaned, dallasVars, last_cleanup, sensorVars, boots>>

StatusRefusedMistaken ==
  /\ Refusals
  /\ pc = "status" /\ Since(now, last_status) > StatusPeriod
  /\ last_status' = now
  /\ tried' = 0 /\ refused' = TRUE
  /\ AfterStatus
  /\ UNCHANGED <<ms, us, turn, sent, asked, cleaned, dallasVars, last_cleanup, sensorVars,
                 boots>>

StatusRefused ==
  /\ Refusals
  /\ pc = "status" /\ Since(now, last_status) > StatusPeriod
  /\ tried' = 0 /\ refused' = TRUE
  /\ AfterStatus
  /\ UNCHANGED <<ms, us, turn, sent, asked, cleaned, last_status, dallasVars, last_cleanup,
                 sensorVars, boots>>

-----------------------------------------------------------------------------
(* dallas_update *)

PrepareDue == state = "READY" /\ Since(now, last_state_change) > ReadInterval - WaitInterval

ReadDueMistaken == state = "WAITING" /\ Since(now, last_state_change) > ReadInterval

ReadDue == state = "WAITING" /\ Since(now, last_state_change) > WaitInterval

PrepareMistaken ==
  /\ pc = "dallas" /\ PrepareDue
  /\ pending' = present /\ asked' = 0
  /\ state' = "WAITING"
  /\ pc' = "update"
  /\ UNCHANGED <<ms, us, turn, tried, sent, cleaned, now, statusVars, last_state_change, at,
                 virt_ais, last_cleanup, temp, present, scratch, had, boots>>

\* requestTemperatures: the sensors start a conversion.
Prepare ==
  /\ pc = "dallas" /\ PrepareDue
  /\ pending' = present /\ asked' = 0
  /\ state' = "WAITING" /\ last_state_change' = now
  /\ pc' = "update"
  /\ UNCHANGED <<ms, us, turn, tried, sent, cleaned, now, statusVars, at, virt_ais,
                 last_cleanup, temp, present, scratch, had, boots>>

ReadBegin ==
  /\ pc = "dallas" /\ ReadDue
  /\ at' = 0 /\ pc' = "read"
  /\ UNCHANGED <<timeVars, now, statusVars, state, last_state_change, virt_ais,
                 last_cleanup, sensorVars, boots>>

DallasStart ==
  /\ pc = "dallas" /\ state = "START"
  /\ state' = "READY" /\ last_state_change' = now
  /\ pc' = "update"
  /\ UNCHANGED <<timeVars, now, statusVars, at, virt_ais, last_cleanup, sensorVars, boots>>

DallasNotDue ==
  /\ pc = "dallas" /\ state # "START" /\ ~PrepareDue /\ ~ReadDue
  /\ pc' = "update"
  /\ UNCHANGED <<timeVars, now, statusVars, dallasVars, last_cleanup, sensorVars, boots>>

EncodeMistaken(x) == {x % (Max16 + 1)}

\* What virt_ais[] holds for a temperature.  Below -50 degrees the conversion of
\* the negative number is undefined.
Encode(x) == IF x + Offset >= 0 THEN {x + Offset} ELSE {0, (x + Offset) % (Max16 + 1)}

\* getTempCByIndex counts the sensors it finds on the bus.
ByIndex(i) == {k \in present : Cardinality({j \in present : j < k}) = i}

\* One turn of the loop of read_temps.
ReadTemp ==
  /\ pc = "read" /\ at < TempsNum
  /\ \E v \in IF ByIndex(at) = {} THEN {Max16}
              ELSE UNION {Encode(scratch[k]) : k \in ByIndex(at)} :
       virt_ais' = [virt_ais EXCEPT ![at] = v]
  /\ at' = at + 1
  /\ UNCHANGED <<pc, timeVars, now, statusVars, state, last_state_change, last_cleanup,
                 sensorVars, boots>>

ReadEnd ==
  /\ pc = "read" /\ at = TempsNum
  /\ state' = "READY" /\ last_state_change' = now
  /\ pc' = "update"
  /\ UNCHANGED <<timeVars, now, statusVars, at, virt_ais, last_cleanup, sensorVars, boots>>

-----------------------------------------------------------------------------
(* uavcan_update *)

CleanupDueMistaken == us > last_cleanup + CleanupInterval

\* The difference has 64 bits and micros() only 32: it is huge after a wrap.
CleanupDue == us < last_cleanup \/ us - last_cleanup > CleanupInterval

Cleanup ==
  /\ pc = "update" /\ CleanupDue
  /\ last_cleanup' = us /\ cleaned' = 0
  /\ pc' = "loop"
  /\ UNCHANGED <<ms, us, turn, tried, sent, asked, now, statusVars, dallasVars, sensorVars, boots>>

NoCleanup ==
  /\ pc = "update" /\ ~CleanupDue
  /\ pc' = "loop"
  /\ UNCHANGED <<timeVars, now, statusVars, dallasVars, last_cleanup, sensorVars, boots>>

\* restart_pending at the end of uavcan_update: memory and counters start anew.
Restart ==
  /\ pc = "loop" /\ boots < MaxBoots
  /\ boots' = boots + 1
  /\ pc' = "setup" /\ ms' = 0 /\ us' = 0 /\ now' = 0
  /\ last_status' = 0 /\ refused' = FALSE
  /\ state' = "START" /\ last_state_change' = 0 /\ at' = 0
  /\ virt_ais' = [k \in Sensors |-> 0] /\ last_cleanup' = 0
  /\ turn' = 0 /\ tried' = 0 /\ sent' = 0 /\ cleaned' = 0
  /\ UNCHANGED <<asked, sensorVars>>

Loop == \/ LoopStart \/ StatusNotDue \/ StatusSent \/ StatusRefused
        \/ Prepare \/ ReadBegin \/ DallasStart \/ DallasNotDue \/ ReadTemp \/ ReadEnd
        \/ Cleanup \/ NoCleanup \/ Restart

-----------------------------------------------------------------------------
(* Time and the sensors *)

\* A millisecond passes.  A turn takes no longer than MaxTurn, a conversion no
\* longer than Conversion.
Elapse ==
  /\ turn < MaxTurn
  /\ pending # {} => asked < Conversion
  /\ ms' = Count(ms, 1) /\ us' = Count(us, UsPerMs)
  /\ turn' = turn + 1 /\ tried' = tried + 1
  /\ sent' = IF sent < Wrap THEN sent + 1 ELSE sent
  /\ cleaned' = cleaned + UsPerMs
  /\ asked' = IF state = "WAITING" \/ pending # {} THEN asked + 1 ELSE asked
  /\ UNCHANGED <<pc, now, statusVars, dallasVars, last_cleanup, sensorVars, boots>>

Converted(k) ==
  /\ k \in pending
  /\ pending' = pending \ {k}
  /\ scratch' = [scratch EXCEPT ![k] = temp[k]]
  /\ had' = had \cup {temp[k]}
  /\ UNCHANGED <<pc, timeVars, now, statusVars, dallasVars, last_cleanup, temp, present, boots>>

TempChanges(k) ==
  /\ temp' \in {[temp EXCEPT ![k] = x] : x \in Temps}
  /\ UNCHANGED <<pc, timeVars, now, statusVars, dallasVars, last_cleanup, present, pending,
                 scratch, had, boots>>

Unplugged(k) ==
  /\ k \in present
  /\ present' = present \ {k} /\ pending' = pending \ {k}
  /\ UNCHANGED <<pc, timeVars, now, statusVars, dallasVars, last_cleanup, temp, scratch, had, boots>>

World == \E k \in Sensors : Converted(k) \/ TempChanges(k) \/ Unplugged(k)

Next == Loop \/ Elapse \/ World

Spec == Init /\ [][Next]_vars

-----------------------------------------------------------------------------
(* Properties *)

TypeOK ==
  /\ pc \in {"setup", "loop", "status", "dallas", "read", "update"}
  /\ ms \in 0..(Wrap - 1) /\ us \in 0..(Wrap - 1) /\ now \in 0..(Wrap - 1)
  /\ last_status \in 0..(Wrap - 1) /\ last_state_change \in 0..(Wrap - 1)
  /\ last_cleanup \in 0..(Wrap - 1)
  /\ state \in {"START", "READY", "WAITING"}
  /\ refused \in BOOLEAN
  /\ at \in 0..TempsNum /\ virt_ais \in [Sensors -> 0..Max16]
  /\ temp \in [Sensors -> Temps] /\ scratch \in [Sensors -> Temps]
  /\ present \subseteq Sensors /\ pending \subseteq present /\ had \subseteq Temps
  /\ turn \in 0..MaxTurn /\ tried \in Nat /\ sent \in 0..Wrap /\ asked \in Nat /\ cleaned \in Nat
  /\ boots \in 0..MaxBoots

(* The status message is tried once per period, the wrap of millis() included.
   If there was no memory for it, it is tried again in the next turn; only when
   that has gone on for as long as millis() takes to wrap is there one more period
   without a try (main.c: loop). *)
StatusInTime ==
  tried <= IF refused /\ sent < Wrap THEN 2 * MaxTurn ELSE StatusPeriod + 3 * MaxTurn

(* Stale transfers are cleaned up once per interval, although the counter has 32
   bits and the difference 64 (uavcan_update). *)
CleanupInTime == cleaned <= CleanupInterval + 2 * (MaxTurn * UsPerMs)

(* The sensors are read when each one has finished the conversion it was last
   asked for: no reading is left over from an earlier one (dallas_update). *)
ReadWhenConverted == pc = "read" => pending = {}

(* ... and soon enough: a result waits no longer than the interval that gives it
   time, and two turns of the loop. *)
ReadInTime == state = "WAITING" => asked <= WaitInterval + 2 * MaxTurn

(* A virtual input shows 0 until it is first read, then the result of a finished
   conversion; the mark of a missing sensor appears only when one is missing
   (read_temps).  All this fails once it has been colder than -50 degrees. *)
ShownIsKnown ==
  (\A x \in had : x + Offset >= 0) =>
    \A k \in Sensors : \/ virt_ais[k] \in {0} \cup {x + Offset : x \in had}
                       \/ virt_ais[k] = Max16 /\ present # Sensors
=============================================================================
