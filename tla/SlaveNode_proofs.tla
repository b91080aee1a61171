-------------------------- MODULE SlaveNode_proofs --------------------------
(* Theorems about SlaveNode, for every width of the counters, every interval *)
(* and any number of sensors and restarts.                                   *)
EXTENDS SlaveNode, FiniteSetTheorems, TLAPS

-----------------------------------------------------------------------------
(* Counters that wrap *)

Counter == 0..(Wrap - 1)

LEMMA WrapType == Wrap \in Nat /\ MaxTurn \in Nat /\ StatusPeriod \in Nat
                  /\ StatusPeriod + 3 * MaxTurn < Wrap
BY TimersAssumption

LEMMA SinceType ==
  ASSUME NEW a \in Counter, NEW b \in Counter
  PROVE  Since(a, b) \in Counter /\ Since(a, a) = 0 /\ Since(a, 0) = a
BY WrapType DEF Counter, Since

LEMMA CountType ==
  ASSUME NEW a \in Counter, NEW d \in 0..Wrap
  PROVE  Count(a, d) \in Counter
BY WrapType DEF Counter, Count

\* What a millisecond does to an age.
LEMMA SinceCount ==
  ASSUME NEW a \in Counter, NEW b \in Counter
  PROVE  /\ Count(a, 1) \in Counter
         /\ Since(Count(a, 1), b) =
              IF Since(a, b) + 1 = Wrap THEN 0 ELSE Since(a, b) + 1
BY WrapType DEF Counter, Since, Count

\* An age is the sum of its parts, unless it has wrapped.
LEMMA SinceSum ==
  ASSUME NEW a \in Counter, NEW b \in Counter, NEW c \in Counter
  PROVE  Since(a, c) = IF Since(a, b) + Since(b, c) < Wrap
                       THEN Since(a, b) + Since(b, c)
                       ELSE Since(a, b) + Since(b, c) - Wrap
BY WrapType DEF Counter, Since

LEMMA ModType ==
  ASSUME NEW a \in Int, NEW b \in Nat
  PROVE  a % (b + 1) \in 0..b
OBVIOUS

-----------------------------------------------------------------------------
(* Types *)

LEMMA EncodeType ==
  ASSUME NEW x \in Temps, NEW v \in Encode(x)
  PROVE  v \in 0..Max16
<1>1. x \in Int /\ Offset \in Int /\ Max16 \in Nat /\ x + Offset < Max16
  BY ValuesAssumption
<1>2. CASE x + Offset >= 0
  BY <1>1, <1>2 DEF Encode
<1>3. CASE ~(x + Offset >= 0)
  <2>1. v \in {0, (x + Offset) % (Max16 + 1)}
    BY <1>3 DEF Encode
  <2>2. x + Offset \in Int
    BY <1>1
  <2>3. (x + Offset) % (Max16 + 1) \in 0..Max16
    BY ONLY <1>1, <2>2, ModType
  <2> QED
    BY <1>1, <2>1, <2>3
<1> QED
  BY <1>2, <1>3

LEMMA TypeInit == Init => TypeOK
<1> SUFFICES ASSUME Init PROVE TypeOK
  OBVIOUS
<1> USE TimersAssumption, ValuesAssumption DEF Init
<1>1. /\ pc = "setup" /\ ms \in Counter /\ us \in Counter /\ now \in Counter
      /\ last_status \in Counter /\ last_state_change \in Counter
      /\ last_cleanup \in Counter /\ at \in 0..TempsNum
      /\ turn \in 0..MaxTurn /\ tried \in Nat /\ sent \in 0..Wrap /\ asked \in Nat
      /\ cleaned \in Nat /\ boots \in 0..MaxBoots
  BY DEF Counter
<1>2. virt_ais \in [Sensors -> 0..Max16]
  OBVIOUS
<1>3. had \subseteq Temps
  OBVIOUS
<1> QED
  BY <1>1, <1>2, <1>3 DEF TypeOK, Counter

LEMMA TypeStep == TypeOK /\ [Next]_vars => TypeOK'
<1> SUFFICES ASSUME TypeOK, [Next]_vars PROVE TypeOK'
  OBVIOUS
<1> USE DEF TypeOK, timeVars, sensorVars, dallasVars, statusVars
<1>1. CASE LoopStart
  BY <1>1, WrapType DEF LoopStart
<1>2. CASE StatusNotDue
  BY <1>2 DEF StatusNotDue, AfterStatus
<1>3. CASE StatusSent
  <2>1. 0 \in 0..Wrap
    BY WrapType
  <2> QED
    BY <1>3, <2>1 DEF StatusSent, AfterStatus
<1>4. CASE StatusRefused
  BY <1>4 DEF StatusRefused, AfterStatus
<1>5. CASE Prepare
  BY <1>5 DEF Prepare
<1>6. CASE ReadBegin
  BY <1>6, ValuesAssumption DEF ReadBegin
<1>7. CASE DallasStart
  BY <1>7 DEF DallasStart
<1>8. CASE DallasNotDue
  BY <1>8 DEF DallasNotDue
<1>9. CASE ReadTemp
  <2>1. PICK v \in IF ByIndex(at) = {} THEN {Max16}
                   ELSE UNION {Encode(scratch[k]) : k \in ByIndex(at)} :
          virt_ais' = [virt_ais EXCEPT ![at] = v]
    BY <1>9 DEF ReadTemp
  <2>2. v \in 0..Max16
    <3>1. CASE v = Max16
      BY <3>1, ValuesAssumption
    <3>2. CASE v # Max16
      <4>1. PICK k \in ByIndex(at) : v \in Encode(scratch[k])
        BY <2>1, <3>2
      <4>2. scratch[k] \in Temps
        BY <4>1 DEF ByIndex
      <4> QED
        BY <4>1, <4>2, EncodeType
    <3> QED
      BY <3>1, <3>2
  <2>3. at + 1 \in 0..TempsNum
    BY <1>9, ValuesAssumption DEF ReadTemp
  <2> QED
    BY <1>9, <2>1, <2>2, <2>3 DEF ReadTemp
<1>10. CASE ReadEnd
  BY <1>10 DEF ReadEnd
<1>11. CASE Cleanup
  BY <1>11 DEF Cleanup
<1>12. CASE NoCleanup
  BY <1>12 DEF NoCleanup
<1>13. CASE Restart
  <2>1. /\ 0 \in 0..(Wrap - 1) /\ 0 \in 0..TempsNum /\ 0 \in 0..MaxTurn /\ 0 \in 0..Wrap
        /\ boots' \in 0..MaxBoots
    BY <1>13, TimersAssumption, ValuesAssumption DEF Restart
  <2>2. virt_ais' \in [Sensors -> 0..Max16]
    BY <1>13, ValuesAssumption DEF Restart
  <2> QED
    BY <1>13, <2>1, <2>2 DEF Restart
<1>14. CASE Elapse
  <2>1. Count(ms, 1) \in 0..(Wrap - 1) /\ Count(us, UsPerMs) \in 0..(Wrap - 1)
    <3>1. ms \in Counter /\ us \in Counter
      BY DEF Counter
    <3>2. 1 \in 0..Wrap /\ UsPerMs \in 0..Wrap
      BY TimersAssumption
    <3> QED
      BY ONLY <3>1, <3>2, CountType DEF Counter
  <2>2. /\ turn + 1 \in 0..MaxTurn /\ tried + 1 \in Nat /\ cleaned + UsPerMs \in Nat
        /\ asked' \in Nat /\ sent' \in 0..Wrap
    BY <1>14, TimersAssumption DEF Elapse
  <2> QED
    BY <1>14, <2>1, <2>2 DEF Elapse
<1>15. ASSUME NEW k \in Sensors, Converted(k)
       PROVE  TypeOK'
  BY <1>15 DEF Converted
<1>16. ASSUME NEW k \in Sensors, TempChanges(k)
       PROVE  TypeOK'
  BY <1>16 DEF TempChanges
<1>17. ASSUME NEW k \in Sensors, Unplugged(k)
       PROVE  TypeOK'
  BY <1>17 DEF Unplugged
<1>18. CASE UNCHANGED vars
  BY <1>18 DEF vars
<1> QED
  BY <1>1, <1>2, <1>3, <1>4, <1>5, <1>6, <1>7, <1>8, <1>9, <1>10, <1>11, <1>12, <1>13,
     <1>14, <1>15, <1>16, <1>17, <1>18 DEF Next, Loop, World

\* Every variable keeps its type; the counters stay within their width.
THEOREM TypeCorrect == Spec => []TypeOK
BY TypeInit, TypeStep, PTL DEF Spec

-----------------------------------------------------------------------------
(* The ages of what the timers compare *)

Lag       == Since(ms, now)                 \* of the clock the code goes by
StatusAge == Since(ms, last_status)
StateAge  == Since(ms, last_state_change)

LEMMA Limits ==
  /\ Wrap \in Nat /\ MaxTurn \in Nat /\ StatusPeriod \in Nat /\ Conversion \in Nat
  /\ WaitInterval \in Nat
  /\ StatusPeriod + 3 * MaxTurn < Wrap /\ WaitInterval + 2 * MaxTurn < Wrap
  /\ Conversion + MaxTurn <= WaitInterval
BY TimersAssumption

\* The ages are readings of a counter.
LEMMA AgeType ==
  ASSUME TypeOK
  PROVE  Lag \in Counter /\ StatusAge \in Counter /\ StateAge \in Counter
BY SinceType DEF TypeOK, Counter, Lag, StatusAge, StateAge

\* A millisecond makes each one older by one, unless it wraps.
LEMMA AgeElapse ==
  ASSUME TypeOK, Elapse
  PROVE  /\ Lag'       = IF Lag + 1 = Wrap THEN 0 ELSE Lag + 1
         /\ StatusAge' = IF StatusAge + 1 = Wrap THEN 0 ELSE StatusAge + 1
         /\ StateAge'  = IF StateAge + 1 = Wrap THEN 0 ELSE StateAge + 1
<1>1. /\ ms \in Counter /\ now \in Counter /\ last_status \in Counter
      /\ last_state_change \in Counter
  BY DEF TypeOK, Counter
<1>2. /\ ms' = Count(ms, 1) /\ now' = now /\ last_status' = last_status
      /\ last_state_change' = last_state_change
  BY DEF Elapse, statusVars, dallasVars
<1> QED
  BY <1>1, <1>2, SinceCount DEF Lag, StatusAge, StateAge

\* What the code compares is the age when it read the clock.
LEMMA AgeParts ==
  ASSUME TypeOK
  PROVE  /\ StatusAge = IF Lag + Since(now, last_status) < Wrap
                        THEN Lag + Since(now, last_status)
                        ELSE Lag + Since(now, last_status) - Wrap
         /\ StateAge = IF Lag + Since(now, last_state_change) < Wrap
                       THEN Lag + Since(now, last_state_change)
                       ELSE Lag + Since(now, last_state_change) - Wrap
         /\ Since(now, last_status) \in Counter
         /\ Since(now, last_state_change) \in Counter
BY SinceSum, SinceType DEF TypeOK, Counter, Lag, StatusAge, StateAge

-----------------------------------------------------------------------------
(* The status message *)

\* What a wait is longer by between the start of a turn and the status message.
StatusSlack == IF pc = "status" THEN MaxTurn ELSE 0

\* The last try was in this turn or, before its status message, in the last.
Recent == tried <= turn + StatusSlack

\* millis() has wrapped since the last message that was sent.
Wrapped ==
  /\ StatusAge <= StatusPeriod + turn + StatusSlack
  /\ tried <= StatusAge + MaxTurn
  /\ sent < Wrap => StatusAge < sent

StatusInv ==
  /\ pc = "status" => Lag = turn /\ turn <= sent
  /\ ~refused => tried <= StatusAge /\ StatusAge <= StatusPeriod + turn + StatusSlack
  /\ refused => Recent \/ Wrapped
  /\ sent < Wrap => \/ StatusAge - sent \in 0..MaxTurn
                    \/ StatusAge + Wrap - sent \in 0..MaxTurn
  /\ refused /\ sent < Wrap /\ StatusAge >= sent => StatusAge > StatusPeriod + turn

LEMMA StatusInit == Init => StatusInv
<1> SUFFICES ASSUME Init PROVE StatusInv
  OBVIOUS
<1>1. pc = "setup" /\ refused = FALSE /\ tried = 0 /\ sent = 0 /\ turn = 0
  BY DEF Init
<1>2. StatusAge = 0
  <2>1. ms = 0 /\ last_status = 0 /\ 0 \in Counter
    BY Limits DEF Init, Counter
  <2> QED
    BY <2>1, SinceType DEF StatusAge
<1> QED
  BY <1>1, <1>2, Limits DEF StatusInv, StatusSlack, Recent, Wrapped

LEMMA StatusStep == TypeOK /\ StatusInv /\ [Next]_vars => StatusInv'
<1> SUFFICES ASSUME TypeOK, StatusInv, [Next]_vars PROVE StatusInv'
  OBVIOUS
<1> USE DEF StatusInv, StatusSlack, Recent, Wrapped
<1>a. /\ ms \in Counter /\ now \in Counter /\ turn \in 0..MaxTurn /\ tried \in Nat
      /\ sent \in 0..Wrap /\ refused \in BOOLEAN
      /\ Lag \in Int /\ StatusAge \in Counter
  BY AgeType DEF TypeOK, Counter
<1>b. ASSUME UNCHANGED <<ms, turn, tried, sent, last_status, refused>>,
             pc # "status", pc' # "status"
      PROVE  StatusInv'
  BY <1>b DEF StatusAge
<1>1. CASE LoopStart
  <2>1. /\ pc # "status" /\ pc' = "status" /\ turn' = 0 /\ Lag' = 0
        /\ UNCHANGED <<StatusAge, tried, sent, refused>>
    BY <1>1, <1>a, SinceType DEF LoopStart, Lag, StatusAge, statusVars
  <2> QED
    BY <2>1, <1>a, Limits DEF Counter
<1>2. CASE StatusNotDue
  <2>1. /\ pc = "status" /\ pc' # "status" /\ Since(now, last_status) <= StatusPeriod
        /\ UNCHANGED <<StatusAge, turn, tried, sent, refused>>
    BY <1>2, AgeParts, Limits DEF StatusNotDue, AfterStatus, timeVars, statusVars, StatusAge,
       Counter
  <2>2. StatusAge = turn + Since(now, last_status) /\ Since(now, last_status) \in Nat
    BY <2>1, <1>a, AgeParts, Limits DEF Counter
  <2> QED
    BY <2>1, <2>2, <1>a, Limits DEF Counter
<1>3. CASE StatusSent
  <2>1. /\ pc = "status" /\ pc' # "status" /\ ~refused' /\ tried' = 0 /\ sent' = 0
        /\ StatusAge' = turn /\ turn' = turn
    BY <1>3 DEF StatusSent, AfterStatus, StatusAge, Lag
  <2> QED
    BY <2>1, <1>a, Limits
<1>4. CASE StatusRefused
  <2>1. /\ pc = "status" /\ pc' # "status" /\ Since(now, last_status) > StatusPeriod
        /\ refused' /\ tried' = 0 /\ UNCHANGED <<StatusAge, turn, sent>>
    BY <1>4 DEF StatusRefused, AfterStatus, StatusAge
  <2>2. /\ StatusAge = IF turn + Since(now, last_status) < Wrap
                       THEN turn + Since(now, last_status)
                       ELSE turn + Since(now, last_status) - Wrap
        /\ Since(now, last_status) \in 0..(Wrap - 1)
    BY <2>1, AgeParts DEF Counter
  <2> QED
    BY <2>1, <2>2, <1>a, Limits DEF Counter
<1>5. CASE Prepare \/ ReadBegin \/ DallasStart \/ DallasNotDue \/ ReadTemp \/ ReadEnd
  BY <1>5, <1>b DEF Prepare, ReadBegin, DallasStart, DallasNotDue, ReadTemp, ReadEnd,
     timeVars, statusVars
<1>6. CASE Cleanup \/ NoCleanup
  BY <1>6, <1>b DEF Cleanup, NoCleanup, timeVars, statusVars
<1>7. CASE Restart
  <2>1. /\ pc' = "setup" /\ ~refused' /\ tried' = 0 /\ sent' = 0 /\ turn' = 0
        /\ ms' = 0 /\ last_status' = 0
    BY <1>7 DEF Restart
  <2>2. StatusAge' = 0
    BY <2>1, <1>a, SinceType, Limits DEF StatusAge, Counter
  <2> QED
    BY <2>1, <2>2, Limits
<1>8. CASE Elapse
  <2>1. /\ pc' = pc /\ refused' = refused /\ turn < MaxTurn /\ turn' = turn + 1
        /\ tried' = tried + 1 /\ sent' = IF sent < Wrap THEN sent + 1 ELSE sent
    BY <1>8 DEF Elapse, statusVars
  <2>2. /\ Lag' = IF Lag + 1 = Wrap THEN 0 ELSE Lag + 1
        /\ StatusAge' = IF StatusAge + 1 = Wrap THEN 0 ELSE StatusAge + 1
    BY <1>8, AgeElapse
  <2> QED
    BY <2>1, <2>2, <1>a, Limits DEF Counter
<1>9. CASE World
  <2>1. UNCHANGED <<pc, timeVars, now, statusVars>>
    BY <1>9 DEF World, Converted, TempChanges, Unplugged
  <2> QED
    BY <2>1 DEF timeVars, statusVars, StatusAge, Lag
<1>10. CASE UNCHANGED vars
  BY <1>10 DEF vars, timeVars, statusVars, StatusAge, Lag
<1> QED
  BY <1>1, <1>2, <1>3, <1>4, <1>5, <1>6, <1>7, <1>8, <1>9, <1>10 DEF Next, Loop

LEMMA StatusBound == TypeOK /\ StatusInv => StatusInTime
<1> SUFFICES ASSUME TypeOK, StatusInv PROVE StatusInTime
  OBVIOUS
<1>1. /\ turn \in 0..MaxTurn /\ tried \in Nat /\ sent \in 0..Wrap /\ refused \in BOOLEAN
      /\ StatusAge \in Counter
  BY AgeType DEF TypeOK
<1> QED
  BY <1>1, Limits DEF StatusInv, StatusSlack, Recent, Wrapped, StatusInTime, Counter

\* The status message is tried once per period, across the wrap of millis(), and in
\* the next turn when there was no memory for it (main.c: loop).
THEOREM StatusIsInTime == Spec => []StatusInTime
<1>1. TypeOK /\ StatusInv /\ [Next]_vars => (TypeOK /\ StatusInv)'
  BY TypeStep, StatusStep
<1> QED
  BY <1>1, TypeInit, StatusInit, StatusBound, PTL DEF Spec

-----------------------------------------------------------------------------
(* The clean-up *)

\* Microseconds in a number of milliseconds, at most MaxTurn.
LEMMA TurnTimes ==
  ASSUME NEW t \in 0..MaxTurn
  PROVE  /\ t * UsPerMs \in Nat /\ MaxTurn * UsPerMs \in Nat /\ 0 * UsPerMs = 0
         /\ t * UsPerMs <= MaxTurn * UsPerMs
         /\ (t + 1) * UsPerMs = t * UsPerMs + UsPerMs
         /\ t < MaxTurn => t * UsPerMs + UsPerMs <= MaxTurn * UsPerMs
<1>1. t \in Nat /\ MaxTurn \in Nat /\ UsPerMs \in Nat /\ t <= MaxTurn
  BY TimersAssumption
<1>2. /\ t * UsPerMs \in Nat /\ MaxTurn * UsPerMs \in Nat /\ 0 * UsPerMs = 0
      /\ (t + 1) * UsPerMs = t * UsPerMs + UsPerMs
  BY ONLY <1>1, SMTT(30)
<1>3. t * UsPerMs <= MaxTurn * UsPerMs
  BY ONLY <1>1, SMTT(30)
<1>4. ASSUME t < MaxTurn PROVE (t + 1) * UsPerMs <= MaxTurn * UsPerMs
  <2>1. t + 1 \in Nat /\ t + 1 <= MaxTurn
    BY ONLY <1>1, <1>4
  <2> HIDE <1>4
  <2> QED
    BY ONLY <1>1, <2>1, SMTT(30)
<1> QED
  BY <1>2, <1>3, <1>4

\* In a turn, before it gets to the clean-up.
Before == pc \in {"status", "dallas", "read", "update"}

CleanupSlack == IF Before THEN MaxTurn * UsPerMs ELSE 0

CleanupInv ==
  /\ \/ cleaned = us - last_cleanup
     \/ us < last_cleanup /\ cleaned = us - last_cleanup + Wrap
  /\ cleaned <= CleanupInterval + turn * UsPerMs + CleanupSlack

LEMMA CleanupInit == Init => CleanupInv
<1> SUFFICES ASSUME Init PROVE CleanupInv
  OBVIOUS
<1>1. pc = "setup" /\ us = 0 /\ last_cleanup = 0 /\ cleaned = 0 /\ turn = 0
  BY DEF Init
<1>2. 0 * UsPerMs = 0 /\ CleanupInterval \in Nat
  BY TurnTimes, TimersAssumption
<1> QED
  BY <1>1, <1>2 DEF CleanupInv, CleanupSlack, Before

LEMMA CleanupStep == TypeOK /\ CleanupInv /\ [Next]_vars => CleanupInv'
<1> SUFFICES ASSUME TypeOK, CleanupInv, [Next]_vars PROVE CleanupInv'
  OBVIOUS
<1> DEFINE T == turn * UsPerMs
           M == MaxTurn * UsPerMs
<1>a. /\ us \in 0..(Wrap - 1) /\ last_cleanup \in 0..(Wrap - 1) /\ cleaned \in Nat
      /\ turn \in 0..MaxTurn /\ T \in Nat /\ M \in Nat /\ T <= M
  BY TurnTimes DEF TypeOK
<1>b. /\ CleanupInterval \in Nat /\ Wrap \in Nat /\ UsPerMs \in 1..Wrap
      /\ CleanupInterval + 2 * M < Wrap
  BY TimersAssumption
<1>c. /\ \/ cleaned = us - last_cleanup
         \/ us < last_cleanup /\ cleaned = us - last_cleanup + Wrap
      /\ cleaned <= CleanupInterval + T + CleanupSlack
  BY DEF CleanupInv
<1>d. CleanupSlack \in {0, M} /\ CleanupSlack' \in {0, M}
  BY DEF CleanupSlack
<1>e. ASSUME UNCHANGED <<us, last_cleanup, cleaned, turn>>, Before' <=> Before
      PROVE  CleanupInv'
  BY <1>e DEF CleanupInv, CleanupSlack
<1>1. CASE LoopStart
  <2>1. /\ CleanupSlack = 0 /\ CleanupSlack' = M /\ turn' = 0 /\ 0 * UsPerMs = 0
        /\ UNCHANGED <<us, last_cleanup, cleaned>>
    BY <1>1, <1>a, TurnTimes DEF LoopStart, CleanupSlack, Before
  <2>2. cleaned <= CleanupInterval + M
    BY ONLY <2>1, <1>a, <1>b, <1>c
  <2> HIDE DEF T, M
  <2> QED
    BY <2>1, <2>2, <1>a, <1>b, <1>c DEF CleanupInv
<1>2. CASE StatusNotDue \/ StatusSent \/ StatusRefused
  BY <1>2, <1>e DEF StatusNotDue, StatusSent, StatusRefused, AfterStatus, timeVars, Before
<1>3. CASE Prepare \/ ReadBegin \/ DallasStart \/ DallasNotDue \/ ReadTemp \/ ReadEnd
  BY <1>3, <1>e DEF Prepare, ReadBegin, DallasStart, DallasNotDue, ReadTemp, ReadEnd,
     timeVars, dallasVars, Before
<1>4. CASE Cleanup
  <2>1. /\ cleaned' = 0 /\ last_cleanup' = us /\ us' = us /\ turn' = turn
        /\ CleanupSlack' = 0
    BY <1>4 DEF Cleanup, CleanupSlack, Before
  <2> QED
    BY <2>1, <1>a, <1>b DEF CleanupInv
<1>5. CASE NoCleanup
  <2>1. /\ UNCHANGED <<us, last_cleanup, cleaned, turn>> /\ CleanupSlack' = 0
        /\ ~(us < last_cleanup) /\ us - last_cleanup <= CleanupInterval
    BY <1>5, <1>a, <1>b DEF NoCleanup, timeVars, CleanupSlack, Before, CleanupDue
  <2>2. cleaned <= CleanupInterval + T
    BY ONLY <2>1, <1>a, <1>b, <1>c
  <2>3. turn' * UsPerMs = T
    BY <2>1
  <2> QED
    BY <2>1, <2>2, <2>3, <1>a, <1>b, <1>c DEF CleanupInv
<1>6. CASE Restart
  <2>1. /\ cleaned' = 0 /\ last_cleanup' = 0 /\ us' = 0 /\ turn' = 0
        /\ CleanupSlack' = 0 /\ 0 * UsPerMs = 0
    BY <1>6, TurnTimes, <1>a DEF Restart, CleanupSlack, Before
  <2> QED
    BY <2>1, <1>b DEF CleanupInv
<1>7. CASE Elapse
  <2>1. /\ pc' = pc /\ last_cleanup' = last_cleanup /\ cleaned' = cleaned + UsPerMs
        /\ turn < MaxTurn /\ turn' = turn + 1 /\ us' = Count(us, UsPerMs)
    BY <1>7 DEF Elapse
  <2>2. us' = IF us + UsPerMs >= Wrap THEN us + UsPerMs - Wrap ELSE us + UsPerMs
    BY <2>1 DEF Count
  <2>3. (turn + 1) * UsPerMs = T + UsPerMs /\ T + UsPerMs <= M
    BY <2>1, <1>a, TurnTimes
  <2>4. CleanupSlack' = CleanupSlack
    BY <2>1 DEF CleanupSlack, Before
  <2>5. /\ \/ cleaned' = us' - last_cleanup'
           \/ us' < last_cleanup' /\ cleaned' = us' - last_cleanup' + Wrap
        /\ cleaned' <= CleanupInterval + (T + UsPerMs) + CleanupSlack'
    <3> HIDE DEF T, M
    <3> QED
      BY ONLY <2>1, <2>2, <2>3, <2>4, <1>a, <1>b, <1>c, <1>d
  <2> QED
    BY <2>1, <2>3, <2>5 DEF CleanupInv
<1>8. CASE World
  BY <1>8, <1>e DEF World, Converted, TempChanges, Unplugged, timeVars, Before
<1>9. CASE UNCHANGED vars
  BY <1>9, <1>e DEF vars, timeVars, Before
<1> QED
  BY <1>1, <1>2, <1>3, <1>4, <1>5, <1>6, <1>7, <1>8, <1>9 DEF Next, Loop

LEMMA CleanupBound == TypeOK /\ CleanupInv => CleanupInTime
<1> SUFFICES ASSUME TypeOK, CleanupInv PROVE CleanupInTime
  OBVIOUS
<1> DEFINE T == turn * UsPerMs
           M == MaxTurn * UsPerMs
<1>1. T \in Nat /\ M \in Nat /\ T <= M /\ cleaned \in Nat /\ CleanupInterval \in Nat
  BY TurnTimes, TimersAssumption DEF TypeOK
<1>2. cleaned <= CleanupInterval + T + CleanupSlack /\ CleanupSlack \in {0, M}
  BY DEF CleanupInv, CleanupSlack
<1>3. cleaned <= CleanupInterval + 2 * M
  <2> HIDE DEF T, M
  <2> QED
    BY ONLY <1>1, <1>2
<1> QED
  BY <1>3 DEF CleanupInTime

\* Stale transfers are cleaned up once per interval, across the wrap of micros()
\* (uavcan_update).
THEOREM CleanupIsInTime == Spec => []CleanupInTime
<1>1. TypeOK /\ CleanupInv /\ [Next]_vars => (TypeOK /\ CleanupInv)'
  BY TypeStep, CleanupStep
<1> QED
  BY <1>1, TypeInit, CleanupInit, CleanupBound, PTL DEF Spec

-----------------------------------------------------------------------------
(* The temperature sensors *)

\* In a turn, before it gets to the end of dallas_update.
StateSlack == IF pc \in {"status", "dallas", "read"} THEN MaxTurn ELSE 0

DallasInv ==
  /\ ~WithDallas => state = "START" /\ pc \notin {"dallas", "read"}
  /\ pc = "dallas" => Lag <= turn /\ (state = "WAITING" => Lag <= StateAge)
  /\ pc = "read" => state = "WAITING" /\ pending = {}
  /\ pending # {} => asked <= Conversion
  /\ state = "WAITING" => /\ StateAge - asked \in 0..MaxTurn
                          /\ StateAge <= WaitInterval + turn + StateSlack

LEMMA DallasInit == Init => DallasInv
BY DEF Init, DallasInv

LEMMA DallasStep == TypeOK /\ DallasInv /\ [Next]_vars => DallasInv'
<1> SUFFICES ASSUME TypeOK, DallasInv, [Next]_vars PROVE DallasInv'
  OBVIOUS
<1> USE DEF DallasInv, StateSlack
<1>a. /\ turn \in 0..MaxTurn /\ asked \in Nat /\ Lag \in 0..(Wrap - 1)
      /\ StateAge \in 0..(Wrap - 1)
  BY AgeType DEF TypeOK, Counter
<1>1. CASE LoopStart
  <2>1. /\ pc \in {"setup", "loop"} /\ pc' = "status" /\ turn' = 0
        /\ UNCHANGED <<StateAge, asked, state, pending>>
    BY <1>1 DEF LoopStart, StateAge, dallasVars, sensorVars
  <2> QED
    BY <2>1, <1>a, Limits
<1>2. CASE StatusNotDue \/ StatusSent \/ StatusRefused
  <2>1. /\ pc = "status" /\ pc' = IF WithDallas THEN "dallas" ELSE "update"
        /\ now' = ms /\ ms' = ms /\ UNCHANGED <<StateAge, turn, asked, state, pending>>
    BY <1>2 DEF StatusNotDue, StatusSent, StatusRefused, AfterStatus, StateAge, timeVars,
       dallasVars, sensorVars
  <2>2. Lag' = 0
    BY <2>1, SinceType DEF Lag, TypeOK, Counter
  <2> QED
    BY <2>1, <2>2, <1>a, Limits
<1>3. CASE Prepare
  <2>1. /\ pc = "dallas" /\ pc' = "update" /\ state' = "WAITING" /\ asked' = 0
        /\ turn' = turn /\ StateAge' = Lag
    BY <1>3 DEF Prepare, StateAge, Lag
  <2> QED
    BY <2>1, <1>a, Limits
<1>4. CASE ReadBegin
  <2>1. /\ pc = "dallas" /\ pc' = "read" /\ state = "WAITING"
        /\ Since(now, last_state_change) > WaitInterval
        /\ UNCHANGED <<StateAge, turn, asked, state, pending>>
    BY <1>4 DEF ReadBegin, ReadDue, StateAge, timeVars, sensorVars
  <2>2. StateAge = Lag + Since(now, last_state_change)
        /\ Since(now, last_state_change) \in Nat
    BY <2>1, <1>a, AgeParts, Limits DEF Counter
  <2>3. asked > Conversion
    BY <2>1, <2>2, <1>a, Limits
  <2>4. pending = {}
    BY <2>3, <1>a, Limits
  <2> QED
    BY <2>1, <2>4, <1>a, Limits
<1>5. CASE DallasStart \/ ReadEnd
  <2>1. /\ pc \in {"dallas", "read"} /\ pc' = "update" /\ state' = "READY"
        /\ UNCHANGED <<asked, pending>>
    BY <1>5 DEF DallasStart, ReadEnd, timeVars, sensorVars
  <2> QED
    BY <2>1
<1>6. CASE DallasNotDue
  <2>1. /\ pc = "dallas" /\ pc' = "update"
        /\ state = "WAITING" => ~(Since(now, last_state_change) > WaitInterval)
        /\ UNCHANGED <<StateAge, turn, asked, state, pending>>
    BY <1>6 DEF DallasNotDue, ReadDue, StateAge, timeVars, dallasVars, sensorVars
  <2>2. state = "WAITING" => StateAge <= turn + WaitInterval
    BY <2>1, <1>a, AgeParts, Limits DEF Counter
  <2> QED
    BY <2>1, <2>2, <1>a, Limits
<1>7. CASE ReadTemp
  <2>1. UNCHANGED <<pc, StateAge, Lag, turn, asked, state, pending>>
    BY <1>7 DEF ReadTemp, StateAge, Lag, timeVars, sensorVars
  <2> QED
    BY <2>1
<1>8. CASE Cleanup \/ NoCleanup
  <2>1. /\ pc = "update" /\ pc' = "loop"
        /\ UNCHANGED <<StateAge, turn, asked, state, pending>>
    BY <1>8 DEF Cleanup, NoCleanup, StateAge, timeVars, dallasVars, sensorVars
  <2> QED
    BY <2>1
<1>9. CASE Restart
  <2>1. pc' = "setup" /\ state' = "START" /\ UNCHANGED <<asked, pending>>
    BY <1>9 DEF Restart, sensorVars
  <2> QED
    BY <2>1
<1>10. CASE Elapse
  <2>1. /\ turn < MaxTurn /\ turn' = turn + 1 /\ UNCHANGED <<pc, state, pending>>
        /\ pending # {} => asked < Conversion
        /\ asked' = IF state = "WAITING" \/ pending # {} THEN asked + 1 ELSE asked
    BY <1>10 DEF Elapse, dallasVars, sensorVars
  <2>2. /\ Lag' = IF Lag + 1 = Wrap THEN 0 ELSE Lag + 1
        /\ StateAge' = IF StateAge + 1 = Wrap THEN 0 ELSE StateAge + 1
    BY <1>10, AgeElapse
  <2>3. pending' # {} => asked' <= Conversion
    BY <2>1, <1>a, Limits
  <2>4. state' = "WAITING" => /\ StateAge' = StateAge + 1 /\ asked' = asked + 1
                              /\ StateAge' <= WaitInterval + turn' + StateSlack'
    BY <2>1, <2>2, <1>a, Limits
  <2>5. pc' = "dallas" => Lag' <= turn' /\ (state' = "WAITING" => Lag' <= StateAge')
    BY <2>1, <2>2, <2>4, <1>a, Limits
  <2> QED
    BY <2>1, <2>3, <2>4, <2>5, <1>a, Limits
<1>11. CASE World
  <2>1. /\ UNCHANGED <<pc, StateAge, Lag, turn, asked, state>>
        /\ pending' \subseteq pending
    BY <1>11 DEF World, Converted, TempChanges, Unplugged, StateAge, Lag, timeVars, dallasVars
  <2> QED
    BY <2>1
<1>12. CASE UNCHANGED vars
  <2>1. UNCHANGED <<pc, StateAge, Lag, turn, asked, state, pending>>
    BY <1>12 DEF vars, StateAge, Lag, timeVars, dallasVars, sensorVars
  <2> QED
    BY <2>1
<1> QED
  BY <1>1, <1>2, <1>3, <1>4, <1>5, <1>6, <1>7, <1>8, <1>9, <1>10, <1>11, <1>12
     DEF Next, Loop

LEMMA DallasBound == TypeOK /\ DallasInv => ReadWhenConverted /\ ReadInTime
<1> SUFFICES ASSUME TypeOK, DallasInv PROVE ReadWhenConverted /\ ReadInTime
  OBVIOUS
<1>1. turn \in 0..MaxTurn /\ asked \in Nat /\ StateAge \in 0..(Wrap - 1)
  BY AgeType DEF TypeOK, Counter
<1> QED
  BY <1>1, Limits DEF DallasInv, StateSlack, ReadWhenConverted, ReadInTime

LEMMA DallasInvariant == Spec => [](TypeOK /\ DallasInv)
<1>1. TypeOK /\ DallasInv /\ [Next]_vars => (TypeOK /\ DallasInv)'
  BY TypeStep, DallasStep
<1> QED
  BY <1>1, TypeInit, DallasInit, PTL DEF Spec

\* The sensors are read when each has finished the conversion it was asked for
\* (dallas_update).
THEOREM ReadsAreConverted == Spec => []ReadWhenConverted
BY DallasInvariant, DallasBound, PTL

\* ... and within the time for it and two turns of the loop (dallas_update).
THEOREM ReadsAreInTime == Spec => []ReadInTime
BY DallasInvariant, DallasBound, PTL

-----------------------------------------------------------------------------
(* What the virtual inputs show *)

\* With every sensor on the bus, the index is the sensor.
LEMMA AllFound ==
  ASSUME NEW i \in Sensors, present = Sensors
  PROVE  i \in ByIndex(i)
<1>1. i \in Nat /\ TempsNum \in Nat /\ i <= TempsNum - 1
  BY ValuesAssumption DEF Sensors
<1>2. {j \in present : j < i} = 0..(i - 1)
  BY <1>1 DEF Sensors
<1>3. Cardinality(0..(i - 1)) = i
  BY <1>1, FS_Interval
<1> QED
  BY <1>2, <1>3 DEF ByIndex

Known(v) == \/ v \in {0} \cup {x + Offset : x \in had}
            \/ v = Max16 /\ present # Sensors

Mild == \A x \in had : x + Offset >= 0

KnownInv ==
  /\ \A k \in Sensors : scratch[k] \in had
  /\ Mild => \A k \in Sensors : Known(virt_ais[k])

LEMMA KnownInit == Init => KnownInv
BY DEF Init, KnownInv, Known

LEMMA KnownStep == TypeOK /\ KnownInv /\ [Next]_vars => KnownInv'
<1> SUFFICES ASSUME TypeOK, KnownInv, [Next]_vars PROVE KnownInv'
  OBVIOUS
<1>a. /\ virt_ais \in [Sensors -> 0..Max16] /\ scratch \in [Sensors -> Temps]
      /\ present \subseteq Sensors
  BY DEF TypeOK
<1>b. ASSUME UNCHANGED <<virt_ais, scratch, had, present>> PROVE KnownInv'
  BY <1>b DEF KnownInv, Known, Mild
<1>1. CASE LoopStart \/ StatusNotDue \/ StatusSent \/ StatusRefused
  BY <1>1, <1>b DEF LoopStart, StatusNotDue, StatusSent, StatusRefused, dallasVars, sensorVars
<1>2. CASE Prepare \/ ReadBegin \/ DallasStart \/ DallasNotDue \/ ReadEnd
  BY <1>2, <1>b DEF Prepare, ReadBegin, DallasStart, DallasNotDue, ReadEnd, dallasVars,
     sensorVars
<1>3. CASE ReadTemp
  <2>1. PICK v \in IF ByIndex(at) = {} THEN {Max16}
                   ELSE UNION {Encode(scratch[k]) : k \in ByIndex(at)} :
          virt_ais' = [virt_ais EXCEPT ![at] = v]
    BY <1>3 DEF ReadTemp
  <2>2. UNCHANGED <<scratch, had, present>>
    BY <1>3 DEF ReadTemp, sensorVars
  <2>3. at \in Sensors
    BY <1>3, ValuesAssumption DEF ReadTemp, TypeOK, Sensors
  <2>4. ASSUME Mild PROVE Known(v)
    <3>1. CASE ByIndex(at) = {}
      <4>1. present # Sensors
        BY <2>3, <3>1, AllFound
      <4> QED
        BY <2>1, <3>1, <4>1 DEF Known
    <3>2. CASE ByIndex(at) # {}
      <4>1. PICK k \in ByIndex(at) : v \in Encode(scratch[k])
        BY <2>1, <3>2
      <4>2. scratch[k] \in had
        BY <4>1, <1>a DEF ByIndex, KnownInv
      <4>3. v = scratch[k] + Offset
        BY <4>1, <4>2, <2>4 DEF Encode, Mild
      <4> QED
        BY <4>2, <4>3 DEF Known
    <3> QED
      BY <3>1, <3>2
  <2>5. ASSUME Mild, NEW k \in Sensors PROVE Known(virt_ais'[k])
    <3>1. virt_ais'[k] = IF k = at THEN v ELSE virt_ais[k]
      BY <2>1, <1>a
    <3> QED
      BY <3>1, <2>4, <2>5 DEF KnownInv
  <2>6. Mild' <=> Mild
    BY <2>2 DEF Mild
  <2>7. \A k \in Sensors : Known(virt_ais'[k]) => Known(virt_ais[k])'
    BY <2>2 DEF Known
  <2> QED
    BY <2>2, <2>5, <2>6, <2>7 DEF KnownInv
<1>4. CASE Cleanup \/ NoCleanup \/ Elapse
  BY <1>4, <1>b DEF Cleanup, NoCleanup, Elapse, dallasVars, sensorVars
<1>5. CASE Restart
  <2>1. virt_ais' = [k \in Sensors |-> 0] /\ UNCHANGED <<scratch, had>>
    BY <1>5 DEF Restart, sensorVars
  <2> QED
    BY <2>1 DEF KnownInv, Known
<1>6. ASSUME NEW k \in Sensors, Converted(k)
      PROVE  KnownInv'
  <2>1. /\ scratch' = [scratch EXCEPT ![k] = temp[k]] /\ had' = had \cup {temp[k]}
        /\ UNCHANGED <<virt_ais, present>>
    BY <1>6 DEF Converted, dallasVars
  <2>2. \A j \in Sensors : scratch'[j] \in had'
    BY <2>1, <1>a DEF KnownInv
  <2>3. Mild' => \A j \in Sensors : Known(virt_ais[j])'
    BY <2>1 DEF KnownInv, Mild, Known
  <2> QED
    BY <2>2, <2>3 DEF KnownInv
<1>7. ASSUME NEW k \in Sensors, TempChanges(k)
      PROVE  KnownInv'
  BY <1>7, <1>b DEF TempChanges, dallasVars
<1>8. ASSUME NEW k \in Sensors, Unplugged(k)
      PROVE  KnownInv'
  <2>1. present' # Sensors /\ UNCHANGED <<virt_ais, scratch, had>>
    BY <1>8, <1>a DEF Unplugged, dallasVars
  <2> QED
    BY <2>1 DEF KnownInv, Mild, Known
<1>9. CASE UNCHANGED vars
  BY <1>9, <1>b DEF vars, dallasVars, sensorVars
<1> QED
  BY <1>1, <1>2, <1>3, <1>4, <1>5, <1>6, <1>7, <1>8, <1>9 DEF Next, Loop, World

\* A virtual input shows 0, a finished conversion, or the mark of a missing sensor
\* when one is missing (read_temps).
THEOREM ShownValuesAreKnown == Spec => []ShownIsKnown
<1>1. TypeOK /\ KnownInv /\ [Next]_vars => (TypeOK /\ KnownInv)'
  BY TypeStep, KnownStep
<1>2. KnownInv => ShownIsKnown
  BY DEF KnownInv, Known, Mild, ShownIsKnown
<1> QED
  BY <1>1, <1>2, TypeInit, KnownInit, PTL DEF Spec
=============================================================================
