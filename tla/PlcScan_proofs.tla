-------------------------- MODULE PlcScan_proofs --------------------------
(* Theorems about PlcScan, for every period, every set of variables and    *)
(* pins, and any number of turns.                                          *)
EXTENDS PlcScan, TLAPS

-----------------------------------------------------------------------------
(* Arithmetic *)

LEMMA Wraps ==
  ASSUME NEW x \in 0..(Modulus - 1)
  PROVE  /\ Long(x) \in (-LongMax - 1)..LongMax
         /\ Unsigned(Long(x)) = x
BY TimesAssumption DEF Long, Unsigned, Modulus

LEMMA UnsignedRange ==
  ASSUME NEW x \in (-LongMax - 1)..LongMax
  PROVE  /\ Unsigned(x) \in 0..(Modulus - 1)
         /\ x >= 0 => Unsigned(x) = x
         /\ Unsigned(x) <= LongMax => x >= 0
BY TimesAssumption DEF Unsigned, Modulus

LEMMA OneMore ==
  ASSUME NEW n \in Int, NEW d \in Int
  PROVE  (n + 1) * d = n * d + d
OBVIOUS

LEMMA SumTimes ==
  ASSUME NEW m \in Int, NEW n \in Int, NEW d \in Int
  PROVE  (m + n) * d = m * d + n * d
OBVIOUS

LEMMA TimesMonotone ==
  ASSUME NEW m \in Int, NEW n \in Int, NEW d \in Nat, m <= n
  PROVE  m * d <= n * d
<1> DEFINE k == n - m
<1>1. k \in Nat /\ n = m + k
  OBVIOUS
<1> HIDE DEF k
<1>2. n * d = m * d + k * d
  BY ONLY <1>1, SumTimes, m \in Int, d \in Nat
<1>3. k * d >= 0
  BY ONLY <1>1, d \in Nat
<1>4. m * d \in Int /\ k * d \in Int
  BY <1>1
<1> QED
  BY ONLY <1>2, <1>3, <1>4

-----------------------------------------------------------------------------
(* Types *)

\* Outside of update_time the nanoseconds are less than a second, so that the
\* next period can be added to them.
TypeInv ==
  /\ TypeOK
  /\ pc # "carry" => nsec \in 0..(Billion - 1)

LEMMA TurnTypes ==
  ASSUME TypeInv, pc # "carry", BeginTurn
  PROVE  /\ nsec' \in (-LongMax - 1)..LongMax
         /\ Unsigned(nsec') = nsec + TickTime
         /\ shown' \in [0..(DisNum - 1) -> SUBSET BOOLEAN]
<1>1. nsec + TickTime \in 0..(Modulus - 1)
  BY TimesAssumption, LongAssumption DEF TypeInv, Modulus
<1>2. nsec' = Long(nsec + TickTime)
  BY DEF BeginTurn
<1>3. shown' \in [0..(DisNum - 1) -> SUBSET BOOLEAN]
  BY DEF BeginTurn, TypeInv, TypeOK
<1> QED
  BY <1>1, <1>2, <1>3, Wraps

LEMMA CarryTypes ==
  ASSUME TypeInv, Carry
  PROVE  /\ nsec' \in (-LongMax - 1)..LongMax
         /\ Unsigned(nsec') = Unsigned(nsec) - Billion
<1>1. Unsigned(nsec) \in 0..(Modulus - 1) /\ Unsigned(nsec) >= Billion
  BY UnsignedRange DEF TypeInv, TypeOK, Carry, Carries
<1>2. Unsigned(nsec) - Billion \in 0..(Modulus - 1)
  BY <1>1, TimesAssumption DEF Modulus
<1> QED
  BY <1>2, Wraps DEF Carry

LEMMA EndTypes ==
  ASSUME TypeInv, EndTime
  PROVE  nsec \in 0..(Billion - 1)
<1>1. Unsigned(nsec) \in 0..(Modulus - 1) /\ ~(Unsigned(nsec) >= Billion)
  BY UnsignedRange DEF TypeInv, TypeOK, EndTime, Carries
<1>2. Unsigned(nsec) <= LongMax
  BY <1>1, TimesAssumption DEF Modulus
<1> QED
  BY <1>1, <1>2, UnsignedRange, TimesAssumption DEF TypeInv, TypeOK, Modulus

LEMMA TypeInit == Init => TypeInv
<1> SUFFICES ASSUME Init PROVE TypeInv
  OBVIOUS
<1> USE DEF Init
<1>1. /\ pc = "start" /\ at \in 0..RemoteIndex /\ nsec \in 0..(Billion - 1)
      /\ sec \in Nat /\ tick \in Nat /\ last_wake \in Nat /\ now \in Nat /\ begun \in Nat
  BY TimesAssumption, VarsAssumption
<1>2. /\ din \in [DIVars -> BOOLEAN] /\ dout \in [DOVars -> BOOLEAN]
      /\ di \in [0..(DisNum - 1) -> BOOLEAN] /\ running \in BOOLEAN
      /\ do \in [0..(DosNum - 1) -> BOOLEAN]
      /\ shown \in [0..(DisNum - 1) -> SUBSET BOOLEAN]
  BY DEF DoPinValue
<1>3. nsec \in (-LongMax - 1)..LongMax
  BY TimesAssumption
<1> QED
  BY <1>1, <1>2, <1>3 DEF TypeInv, TypeOK

LEMMA TypeStep == TypeInv /\ [Next]_vars => TypeInv'
<1> SUFFICES ASSUME TypeInv, [Next]_vars PROVE TypeInv'
  OBVIOUS
<1> USE TimesAssumption, VarsAssumption DEF TypeInv, TypeOK, clockVars
<1>1. CASE Start
  BY <1>1, TurnTypes DEF Start, BeginTurn
<1>2. CASE Carry
  BY <1>2, CarryTypes DEF Carry
<1>3. CASE EndTime
  BY <1>3, EndTypes DEF EndTime
<1>4. CASE UpdateInputs
  <2>1. PICK b \in GetDi(at) :
          din' = IF at \in DIVars THEN [din EXCEPT ![at] = b] ELSE din
    BY <1>4 DEF UpdateInputs
  <2>2. b \in BOOLEAN
    BY <2>1 DEF GetDi, DiPinValue
  <2> QED
    BY <1>4, <2>1, <2>2 DEF UpdateInputs
<1>5. CASE EndInputs
  BY <1>5 DEF EndInputs
<1>6. CASE Run
  BY <1>6 DEF Run
<1>7. CASE UpdateOutputs
  <2>1. do' \in [0..(DosNum - 1) -> BOOLEAN]
    BY <1>7 DEF UpdateOutputs, SetDo, DoPinValue
  <2> QED
    BY <1>7, <2>1 DEF UpdateOutputs
<1>8. CASE EndOutputs
  BY <1>8 DEF EndOutputs
<1>9. CASE Delay
  BY <1>9, TurnTypes DEF Delay, BeginTurn, Period
<1>10. CASE Elapse
  BY <1>10 DEF Elapse
<1>11. CASE SetState
  BY <1>11 DEF SetState
<1>12. CASE PinChanges
  BY <1>12 DEF PinChanges
<1>13. CASE UNCHANGED vars
  BY <1>13 DEF vars
<1> QED
  BY <1>1, <1>2, <1>3, <1>4, <1>5, <1>6, <1>7, <1>8, <1>9, <1>10, <1>11, <1>12,
     <1>13 DEF Next, PlcTask

LEMMA TypeAlways == Spec => []TypeInv
BY TypeInit, TypeStep, PTL DEF Spec

\* Every variable keeps its type; tv_nsec stays within a long.
THEOREM TypeCorrect == Spec => []TypeOK
<1>1. TypeInv => TypeOK
  BY DEF TypeInv
<1> QED
  BY TypeAlways, <1>1, PTL

-----------------------------------------------------------------------------
(* The clock *)

ClockInv == Clock = Turns * TickTime

LEMMA ClockInit == Init => ClockInv
BY TimesAssumption DEF Init, ClockInv, Clock, Turns, Unsigned

\* A turn of the task begins: the period is added, and the turn counts.
LEMMA ClockTurn ==
  ASSUME TypeInv, ClockInv, pc # "carry", BeginTurn, sec' = sec, tick' = tick
  PROVE  ClockInv'
<1>1. Unsigned(nsec') = nsec + TickTime
  BY TurnTypes
<1>2. Unsigned(nsec) = nsec /\ nsec \in Int /\ sec * Billion \in Int
  BY TimesAssumption DEF TypeInv, TypeOK, Unsigned
<1>3. sec * Billion + nsec = tick * TickTime
  BY <1>2 DEF ClockInv, Clock, Turns
<1>4. (tick + 1) * TickTime = tick * TickTime + TickTime
  BY OneMore, TimesAssumption DEF TypeInv, TypeOK
<1>5. tick * TickTime \in Int /\ TickTime \in Int
  BY TimesAssumption DEF TypeInv, TypeOK
<1>6. sec * Billion + (nsec + TickTime) = (tick + 1) * TickTime
  BY ONLY <1>2, <1>3, <1>4, <1>5
<1>7. Clock' = sec * Billion + (nsec + TickTime)
  BY <1>1 DEF Clock
<1>8. Turns' = tick + 1
  BY DEF Turns, BeginTurn
<1> QED
  BY <1>6, <1>7, <1>8 DEF ClockInv

LEMMA ClockCarry ==
  ASSUME TypeInv, ClockInv, Carry
  PROVE  ClockInv'
<1>1. Unsigned(nsec') = Unsigned(nsec) - Billion
  BY CarryTypes
<1>2. Unsigned(nsec) \in Int
  BY UnsignedRange DEF TypeInv, TypeOK, Modulus
<1>3. (sec + 1) * Billion = sec * Billion + Billion
  BY OneMore, TimesAssumption DEF TypeInv, TypeOK
<1>4. sec * Billion \in Int /\ Billion \in Int
  BY TimesAssumption DEF TypeInv, TypeOK
<1>5. (sec + 1) * Billion + (Unsigned(nsec) - Billion) = sec * Billion + Unsigned(nsec)
  BY ONLY <1>2, <1>3, <1>4
<1>6. Clock' = Clock
  BY <1>1, <1>5 DEF Clock, Carry
<1> QED
  BY <1>6 DEF ClockInv, Turns, Carry

LEMMA ClockStep == TypeInv /\ ClockInv /\ [Next]_vars => ClockInv'
<1> SUFFICES ASSUME TypeInv, ClockInv, [Next]_vars PROVE ClockInv'
  OBVIOUS
<1>1. CASE Start
  BY <1>1, ClockTurn DEF Start
<1>2. CASE Carry
  BY <1>2, ClockCarry
<1>3. CASE EndTime
  BY <1>3 DEF EndTime, ClockInv, Clock, Turns
<1>4. CASE UpdateInputs
  BY <1>4 DEF UpdateInputs, ClockInv, Clock, Turns, clockVars
<1>5. CASE EndInputs
  BY <1>5 DEF EndInputs, ClockInv, Clock, Turns, clockVars
<1>6. CASE Run
  BY <1>6 DEF Run, ClockInv, Clock, Turns, clockVars
<1>7. CASE UpdateOutputs
  BY <1>7 DEF UpdateOutputs, ClockInv, Clock, Turns, clockVars
<1>8. CASE EndOutputs
  BY <1>8 DEF EndOutputs, ClockInv, Clock, Turns, clockVars
<1>9. CASE Delay
  BY <1>9, ClockTurn DEF Delay
<1>10. CASE Elapse
  BY <1>10 DEF Elapse, ClockInv, Clock, Turns, clockVars
<1>11. CASE SetState
  BY <1>11 DEF SetState, ClockInv, Clock, Turns, clockVars
<1>12. CASE PinChanges
  BY <1>12 DEF PinChanges, ClockInv, Clock, Turns, clockVars
<1>13. CASE UNCHANGED vars
  BY <1>13 DEF vars, ClockInv, Clock, Turns, clockVars
<1> QED
  BY <1>1, <1>2, <1>3, <1>4, <1>5, <1>6, <1>7, <1>8, <1>9, <1>10, <1>11, <1>12,
     <1>13 DEF Next, PlcTask

\* The program's clock advances by exactly the period in every turn of the task,
\* for every period that an unsigned long can still add to a second (update_time).
THEOREM ClockStaysExact == Spec => []ClockExact
<1>1. TypeInv /\ ClockInv => ClockExact
  BY DEF TypeInv, ClockInv, ClockExact
<1> QED
  BY TypeAlways, ClockInit, ClockStep, <1>1, PTL DEF Spec

-----------------------------------------------------------------------------
(* The clock and the time that passes, when the period is a whole number of
   ticks of the RTOS *)

Even == TickTime = Period * (RtosTick * Million)

\* What the task has waited for, in turns and in ticks.
WakeInv ==
  /\ pc = "start" => tick = 0 /\ nsec = 0 /\ sec = 0
  /\ pc # "start" => /\ last_wake - begun = (Turns - 1) * Period
                     /\ begun <= last_wake /\ last_wake <= now

LEMMA PeriodType == Period \in Nat
BY TimesAssumption

LEMMA WakeInit == Init => WakeInv
BY DEF Init, WakeInv

LEMMA WakeDelay ==
  ASSUME TypeInv, WakeInv, Delay
  PROVE  WakeInv'
<1>1. last_wake - begun = (tick - 1) * Period
  BY DEF WakeInv, Delay, Turns
<1>2. tick \in Int /\ tick - 1 \in Int /\ Period \in Int /\ last_wake \in Int
      /\ begun \in Int /\ now \in Int
  BY PeriodType DEF TypeInv, TypeOK
<1>3. ((tick - 1) + 1) * Period = (tick - 1) * Period + Period
  BY <1>2, OneMore
<1>4. (tick - 1) * Period \in Int
  BY <1>2
<1>5. (last_wake + Period) - begun = (tick - 1) * Period + Period
  BY ONLY <1>1, <1>2, <1>4
<1>6. Turns' - 1 = (tick - 1) + 1 /\ last_wake' = last_wake + Period /\ begun' = begun
      /\ now' = now /\ pc' = "carry"
  BY <1>2 DEF Delay, BeginTurn, Turns
<1>7. last_wake' - begun' = (Turns' - 1) * Period
  BY ONLY <1>3, <1>5, <1>6
<1>8. begun' <= last_wake' /\ last_wake' <= now'
  BY <1>2, <1>6, PeriodType DEF WakeInv, Delay
<1> QED
  BY <1>6, <1>7, <1>8 DEF WakeInv

LEMMA WakeStart ==
  ASSUME TypeInv, WakeInv, Start
  PROVE  WakeInv'
<1>1. Turns' = 1 /\ last_wake' = now /\ begun' = now /\ now' = now /\ pc' = "carry"
  BY DEF Start, BeginTurn, Turns, WakeInv
<1>2. now \in Int /\ Period \in Int
  BY PeriodType DEF TypeInv, TypeOK
<1>3. (1 - 1) * Period = 0
  BY <1>2
<1> QED
  BY <1>1, <1>2, <1>3 DEF WakeInv

LEMMA WakeStep == TypeInv /\ WakeInv /\ [Next]_vars => WakeInv'
<1> SUFFICES ASSUME TypeInv, WakeInv, [Next]_vars PROVE WakeInv'
  OBVIOUS
<1>1. CASE UNCHANGED <<pc, clockVars, last_wake, now, begun>>
  BY <1>1 DEF WakeInv, Turns, clockVars
<1>2. CASE Start
  BY <1>2, WakeStart
<1>3. CASE Delay
  BY <1>3, WakeDelay
<1>4. CASE Carry
  BY <1>4 DEF Carry, WakeInv, Turns
<1>5. CASE EndTime
  BY <1>5 DEF EndTime, WakeInv, Turns
<1>6. CASE UpdateInputs \/ SetState \/ PinChanges \/ UNCHANGED vars
  BY <1>1, <1>6 DEF UpdateInputs, SetState, PinChanges, vars
<1>7. CASE EndInputs
  BY <1>7 DEF EndInputs, WakeInv, Turns, clockVars
<1>8. CASE Run
  BY <1>8 DEF Run, WakeInv, Turns, clockVars
<1>9. CASE UpdateOutputs
  BY <1>1, <1>9 DEF UpdateOutputs
<1>10. CASE EndOutputs
  BY <1>10 DEF EndOutputs, WakeInv, Turns, clockVars
<1>11. CASE Elapse
  BY <1>11 DEF Elapse, WakeInv, Turns, clockVars, TypeInv, TypeOK
<1> QED
  BY <1>2, <1>3, <1>4, <1>5, <1>6, <1>7, <1>8, <1>9, <1>10, <1>11 DEF Next, PlcTask

LEMMA WakeTimes ==
  ASSUME NEW t \in Int, NEW p \in Int, NEW r \in Int, NEW m \in Int
  PROVE  ((t - 1) * p) * r * m + p * (r * m) = t * (p * (r * m))
<1>1. ((t - 1) * p) * r * m = (t - 1) * (p * (r * m))
  OBVIOUS
<1> DEFINE q == p * (r * m)
<1>2. ((t - 1) + 1) * q = (t - 1) * q + q
  BY OneMore
<1> QED
  BY <1>1, <1>2

LEMMA WakeClock ==
  ASSUME Even, TypeInv, ClockInv, WakeInv, pc # "start"
  PROVE  InStep /\ NeverAhead
<1>1. Turns \in Int /\ Period \in Int /\ RtosTick \in Int /\ Million \in Int
      /\ RtosTick \in Nat /\ Million \in Nat
  BY PeriodType, TimesAssumption DEF TypeInv, TypeOK, Turns
<1>2. last_wake - begun = (Turns - 1) * Period
  BY DEF WakeInv
<1>3. ((Turns - 1) * Period) * RtosTick * Million + Period * (RtosTick * Million)
        = Turns * (Period * (RtosTick * Million))
  BY ONLY <1>1, WakeTimes
<1>4. Clock = (last_wake - begun) * RtosTick * Million + TickTime
  BY <1>2, <1>3 DEF Even, ClockInv
<1>5. last_wake - begun \in Int /\ now - begun \in Int /\ last_wake - begun <= now - begun
  BY DEF WakeInv, TypeInv, TypeOK
<1>6. (last_wake - begun) * RtosTick <= (now - begun) * RtosTick
  BY ONLY <1>1, <1>5, TimesMonotone
<1>7. (last_wake - begun) * RtosTick \in Int /\ (now - begun) * RtosTick \in Int
  BY <1>1, <1>5
<1>8. (last_wake - begun) * RtosTick * Million <= (now - begun) * RtosTick * Million
  BY ONLY <1>1, <1>6, <1>7, TimesMonotone
<1>9. /\ (last_wake - begun) * RtosTick * Million \in Int
      /\ (now - begun) * RtosTick * Million \in Int /\ TickTime \in Int
  BY <1>1, <1>7, TimesAssumption
<1>10. Clock <= (now - begun) * RtosTick * Million + TickTime
  BY ONLY <1>4, <1>8, <1>9
<1> QED
  BY <1>4, <1>10 DEF InStep, NeverAhead

LEMMA StartClock ==
  ASSUME pc = "start"
  PROVE  InStep /\ NeverAhead
BY DEF InStep, NeverAhead

\* When the period is a whole number of ticks of the RTOS, no turn is skipped
\* however late the task is, so its clock stands at the turn that was due
\* (vTaskDelayUntil in plc_task) ...
THEOREM ClockStaysInStep == ASSUME Even PROVE Spec => []InStep
<1>1. TypeInv /\ ClockInv /\ WakeInv => InStep
  BY WakeClock, StartClock
<1> QED
  BY TypeAlways, ClockInit, ClockStep, WakeInit, WakeStep, <1>1, PTL DEF Spec

\* ... and is never more than a period ahead of the time that has passed.
THEOREM ClockIsNeverAhead == ASSUME Even PROVE Spec => []NeverAhead
<1>1. TypeInv /\ ClockInv /\ WakeInv => NeverAhead
  BY WakeClock, StartClock
<1> QED
  BY TypeAlways, ClockInit, ClockStep, WakeInit, WakeStep, <1>1, PTL DEF Spec
-----------------------------------------------------------------------------
(* The inputs and the outputs *)

\* A pin still shows a level it has shown in this turn, and so do the variables
\* the loop has passed.
InputsInv ==
  /\ \A k \in 0..(DisNum - 1) : di[k] \in shown[k]
  /\ pc = "inputs" => \A i \in DIVars :
       i < DisNum /\ i < at => DiPinValue(din[i]) \in shown[i]
  /\ KnownInputs

LEMMA InputsInit == Init => InputsInv
BY DEF Init, InputsInv, KnownInputs

LEMMA InputsTurn ==
  ASSUME TypeInv, BeginTurn, UNCHANGED di
  PROVE  InputsInv'
BY DEF TypeInv, TypeOK, BeginTurn, InputsInv, KnownInputs

LEMMA PinTwice ==
  ASSUME NEW b \in BOOLEAN
  PROVE  DiPinValue(DiPinValue(b)) = b
BY VarsAssumption DEF DiPinValue

LEMMA InputsRead ==
  ASSUME TypeInv, InputsInv, UpdateInputs
  PROVE  InputsInv'
<1> USE VarsAssumption DEF TypeInv, TypeOK
<1>1. PICK b \in GetDi(at) :
        din' = IF at \in DIVars THEN [din EXCEPT ![at] = b] ELSE din
  BY DEF UpdateInputs
<1>2. ASSUME NEW i \in DIVars, i < DisNum, i < at + 1
      PROVE  DiPinValue(din'[i]) \in shown[i]
  <2>1. CASE i = at
    <3>1. i \in 0..(DisNum - 1) /\ di[i] \in BOOLEAN
      BY <1>2
    <3>2. b = DiPinValue(di[i]) /\ din'[i] = b
      BY <1>1, <1>2, <2>1 DEF GetDi
    <3>3. DiPinValue(din'[i]) = di[i]
      BY <3>1, <3>2, PinTwice
    <3> QED
      BY <3>1, <3>3 DEF InputsInv
  <2>2. CASE i # at
    <3>1. i \in Nat /\ i < at
      BY <1>2, <2>2
    <3>2. din'[i] = din[i]
      BY <1>1, <1>2, <2>2
    <3> QED
      BY <1>2, <3>1, <3>2 DEF InputsInv, UpdateInputs
  <2> QED
    BY <2>1, <2>2
<1> QED
  BY <1>2 DEF InputsInv, KnownInputs, UpdateInputs

LEMMA InputsPins ==
  ASSUME TypeInv, InputsInv, PinChanges
  PROVE  InputsInv'
<1>1. PICK k \in DOMAIN di, b \in BOOLEAN :
        /\ di' = [di EXCEPT ![k] = b]
        /\ shown' = [shown EXCEPT ![k] = @ \cup {b}]
  BY DEF PinChanges
<1>2. \A j \in 0..(DisNum - 1) : di'[j] \in shown'[j] /\ shown[j] \subseteq shown'[j]
  BY <1>1 DEF TypeInv, TypeOK, InputsInv
<1>3. \A i \in DIVars : i < DisNum => i \in 0..(DisNum - 1)
  BY VarsAssumption
<1>4. UNCHANGED <<pc, at, din>>
  BY DEF PinChanges
<1>5. \A i \in DIVars : i < DisNum /\ DiPinValue(din[i]) \in shown[i]
         => DiPinValue(din'[i]) \in shown'[i]
  BY <1>2, <1>3, <1>4 DEF DiPinValue
<1> QED
  BY <1>2, <1>4, <1>5 DEF InputsInv, KnownInputs

LEMMA InputsStep == TypeInv /\ InputsInv /\ [Next]_vars => InputsInv'
<1> SUFFICES ASSUME TypeInv, InputsInv, [Next]_vars PROVE InputsInv'
  OBVIOUS
<1> USE DEF InputsInv, KnownInputs, clockVars, DiPinValue
<1>1. CASE Start
  BY <1>1, InputsTurn DEF Start
<1>2. CASE Carry
  BY <1>2 DEF Carry
<1>3. CASE EndTime
  BY <1>3, VarsAssumption DEF EndTime
<1>4. CASE UpdateInputs
  BY <1>4, InputsRead
<1>5. CASE EndInputs
  BY <1>5 DEF EndInputs
<1>6. CASE Run
  BY <1>6 DEF Run
<1>7. CASE UpdateOutputs
  BY <1>7 DEF UpdateOutputs
<1>8. CASE EndOutputs
  BY <1>8 DEF EndOutputs
<1>9. CASE Delay
  BY <1>9, InputsTurn DEF Delay
<1>10. CASE Elapse
  BY <1>10 DEF Elapse
<1>11. CASE SetState
  BY <1>11 DEF SetState
<1>12. CASE PinChanges
  BY <1>12, InputsPins
<1>13. CASE UNCHANGED vars
  BY <1>13 DEF vars
<1> QED
  BY <1>1, <1>2, <1>3, <1>4, <1>5, <1>6, <1>7, <1>8, <1>9, <1>10, <1>11, <1>12,
     <1>13 DEF Next, PlcTask

\* What the program reads from a pin that exists is a level the pin has had since
\* this turn of the task began (update_inputs).
THEOREM InputsAreKnown == Spec => []KnownInputs
<1>1. InputsInv => KnownInputs
  BY DEF InputsInv
<1> QED
  BY TypeAlways, InputsInit, InputsStep, <1>1, PTL DEF Spec

\* What pin k shows when all outputs have been written.
Due(k) == DoPinValue(IF k \in DOVars THEN dout[k] ELSE FALSE)

\* During the loop the pins it has passed are as due, and so are those it leaves
\* alone.
OutputsInv ==
  /\ OutputsWhole
  /\ pc = "outputs" => \A k \in 0..(DosNum - 1) :
       k < at \/ k \notin DOVars => do[k] = Due(k)

LEMMA OutputsInit == Init => OutputsInv
BY DEF Init, OutputsInv, OutputsWhole, DoPinValue

LEMMA OutputsWrite ==
  ASSUME TypeInv, OutputsInv, UpdateOutputs
  PROVE  OutputsInv'
<1> USE VarsAssumption DEF TypeInv, TypeOK
<1>1. pc = "outputs" /\ pc' = "outputs" /\ at' = at + 1 /\ dout' = dout
  BY DEF UpdateOutputs
<1>2. ASSUME NEW k \in 0..(DosNum - 1), k < at + 1 \/ k \notin DOVars
      PROVE  do'[k] = Due(k)
  <2>1. CASE k = at
    <3>1. CASE at \in DOVars
      <4>1. do' = [do EXCEPT ![at] = DoPinValue(dout[at])]
        BY <2>1, <3>1 DEF UpdateOutputs, SetDo
      <4> QED
        BY <2>1, <3>1, <4>1 DEF Due
    <3>2. CASE at \notin DOVars
      BY <1>1, <2>1, <3>2 DEF UpdateOutputs, OutputsInv
    <3> QED
      BY <3>1, <3>2
  <2>2. CASE k # at
    <3>1. k < at \/ k \notin DOVars
      BY <1>2, <2>2
    <3>2. do'[k] = do[k]
      BY <2>2 DEF UpdateOutputs, SetDo
    <3> QED
      BY <1>1, <3>1, <3>2 DEF OutputsInv
  <2> QED
    BY <2>1, <2>2
<1> QED
  BY <1>1, <1>2 DEF OutputsInv, OutputsWhole, Due, DoPinValue

LEMMA OutputsEnd ==
  ASSUME TypeInv, OutputsInv, EndOutputs
  PROVE  OutputsInv'
<1>1. \A k \in 0..(DosNum - 1) : k < at \/ k \notin DOVars
  BY VarsAssumption DEF EndOutputs
<1>2. \A k \in 0..(DosNum - 1) : do[k] = Due(k)
  BY <1>1 DEF OutputsInv, EndOutputs
<1> QED
  BY <1>2 DEF OutputsInv, OutputsWhole, EndOutputs, Due, DoPinValue

LEMMA OutputsRun ==
  ASSUME TypeInv, OutputsInv, Run
  PROVE  OutputsInv'
<1>1. \A k \in 0..(DosNum - 1) : k \notin DOVars => do[k] = DoPinValue(FALSE)
  BY DEF OutputsInv, OutputsWhole, Run
<1>2. \A k \in 0..(DosNum - 1) : ~(k < at')
  BY DEF Run
<1> QED
  BY <1>1, <1>2 DEF OutputsInv, OutputsWhole, Run, Due, DoPinValue

LEMMA OutputsStep == TypeInv /\ OutputsInv /\ [Next]_vars => OutputsInv'
<1> SUFFICES ASSUME TypeInv, OutputsInv, [Next]_vars PROVE OutputsInv'
  OBVIOUS
<1> USE DEF OutputsInv, OutputsWhole, Due, DoPinValue
<1>1. CASE UNCHANGED <<pc, at, do, dout>>
  BY <1>1
<1>2. CASE Start
  BY <1>2 DEF Start, BeginTurn
<1>3. CASE Carry
  BY <1>3 DEF Carry
<1>4. CASE EndTime
  BY <1>4 DEF EndTime
<1>5. CASE UpdateInputs
  BY <1>5 DEF UpdateInputs
<1>6. CASE EndInputs
  BY <1>6 DEF EndInputs
<1>7. CASE Run
  BY <1>7, OutputsRun
<1>8. CASE UpdateOutputs
  BY <1>8, OutputsWrite
<1>9. CASE EndOutputs
  BY <1>9, OutputsEnd
<1>10. CASE Delay
  BY <1>10 DEF Delay, BeginTurn
<1>11. CASE Elapse \/ SetState \/ PinChanges \/ UNCHANGED vars
  BY <1>1, <1>11 DEF Elapse, SetState, PinChanges, vars
<1> QED
  BY <1>2, <1>3, <1>4, <1>5, <1>6, <1>7, <1>8, <1>9, <1>10, <1>11 DEF Next, PlcTask

\* Between two scans every output pin shows what one run of the program computed,
\* whenever the program is paused (plc_task, update_outputs).
THEOREM OutputsStayWhole == Spec => []OutputsWhole
<1>1. OutputsInv => OutputsWhole
  BY DEF OutputsInv
<1> QED
  BY TypeAlways, OutputsInit, OutputsStep, <1>1, PTL DEF Spec
=============================================================================
