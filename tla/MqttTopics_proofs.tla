-------------------------- MODULE MqttTopics_proofs --------------------------
(* Theorems about MqttTopics, for all topics the configuration may name. *)
EXTENDS MqttTopics, SequenceTheorems, TLAPS

Named == {PAUSE, RESET, STATUS}

LEMMA NamedType ==
  /\ MQTT_ROOT_TOPIC \in Seq(Letters) /\ Named \subseteq Seq(Letters)
  /\ \A a, b \in Named : IsPrefix(a, b) => a = b
  /\ PAUSE # RESET /\ PAUSE # STATUS /\ RESET # STATUS
BY TopicsAssumption DEF Named

-----------------------------------------------------------------------------
(* What is_topic compares *)

\* The beginnings of two sequences are equal if their letters are.
LEMMA SameLetters ==
  ASSUME NEW s \in Seq(Letters), NEW t \in Seq(Letters), NEW n \in Nat,
         n <= Len(s), n <= Len(t)
  PROVE  SubSeq(s, 1, n) = SubSeq(t, 1, n) <=> \A i \in 1..n : s[i] = t[i]
<1>1. /\ SubSeq(s, 1, n) \in Seq(Letters) /\ SubSeq(t, 1, n) \in Seq(Letters)
      /\ Len(SubSeq(s, 1, n)) = n /\ Len(SubSeq(t, 1, n)) = n
      /\ \A i \in 1..n : SubSeq(s, 1, n)[i] = s[i] /\ SubSeq(t, 1, n)[i] = t[i]
  OBVIOUS
<1>2. ASSUME \A i \in 1..n : s[i] = t[i]
      PROVE  SubSeq(s, 1, n) = SubSeq(t, 1, n)
  BY <1>1, <1>2, SeqEqual
<1> QED
  BY <1>1, <1>2

\* Below the root a topic is taken for another one only if one of them begins with
\* the other.
LEMMA TakenForPrefix ==
  ASSUME NEW a \in Seq(Letters), NEW b \in Seq(Letters), NEW e,
         e.topic = MQTT_SUBTOPIC(a), is_topic(e, MQTT_SUBTOPIC(b))
  PROVE  IsPrefix(a, b) \/ IsPrefix(b, a)
<1> DEFINE r == Len(MQTT_ROOT_TOPIC)
           s == MQTT_ROOT_TOPIC \o a
           t == MQTT_ROOT_TOPIC \o b
           n == MinLen(s, t)
<1>1. /\ s \in Seq(Letters) /\ t \in Seq(Letters)
      /\ r \in Nat /\ Len(a) \in Nat /\ Len(b) \in Nat
      /\ Len(s) = r + Len(a) /\ Len(t) = r + Len(b)
      /\ \A i \in 1..Len(a) : s[r + i] = a[i]
      /\ \A i \in 1..Len(b) : t[r + i] = b[i]
  BY NamedType
<1>2. n \in Nat /\ n <= Len(s) /\ n <= Len(t) /\ (n = Len(s) \/ n = Len(t))
  BY <1>1 DEF MinLen
<1>3. SubSeq(s, 1, n) = SubSeq(t, 1, n)
  BY DEF is_topic, MQTT_SUBTOPIC
<1>4. \A i \in 1..n : s[i] = t[i]
  BY <1>1, <1>2, <1>3, SameLetters
<1> HIDE DEF r, s, t, n
<1>5. \A i \in 1..(n - r) : i <= Len(a) /\ i <= Len(b) /\ a[i] = b[i]
  <2> TAKE i \in 1..(n - r)
  <2>1. /\ i \in 1..Len(a) /\ i \in 1..Len(b) /\ r + i \in 1..n
    BY <1>1, <1>2
  <2> QED
    BY <2>1, <1>1, <1>4
<1>6. CASE n = Len(s)
  <2>1. n - r = Len(a) /\ Len(a) <= Len(b)
    BY <1>1, <1>2, <1>6
  <2> QED
    BY <2>1, <1>1, <1>5, SameLetters DEF IsPrefix
<1>7. CASE n = Len(t)
  <2>1. n - r = Len(b) /\ Len(b) <= Len(a)
    BY <1>1, <1>2, <1>7
  <2> QED
    BY <2>1, <1>1, <1>5, SameLetters DEF IsPrefix
<1> QED
  BY <1>2, <1>6, <1>7

\* A control topic is taken for itself and for no other.
LEMMA NamedApart ==
  ASSUME NEW a \in Named, NEW b \in Named, NEW e, e.topic = MQTT_SUBTOPIC(a)
  PROVE  is_topic(e, MQTT_SUBTOPIC(b)) <=> a = b
<1>1. CASE a = b
  BY <1>1 DEF is_topic
<1>2. CASE a # b
  BY <1>2, NamedType, TakenForPrefix
<1> QED
  BY <1>1, <1>2

LEMMA NamedEvents ==
  ASSUME NEW e
  PROVE  /\ e.topic = MQTT_PAUSE_TOPIC => (Pauses(e) <=> e.data # "none") /\ ~Resets(e)
         /\ e.topic = MQTT_RESET_TOPIC => ~Pauses(e) /\ (Resets(e) <=> e.data # "none")
         /\ e.topic = MQTT_STATUS_TOPIC => ~Pauses(e) /\ ~Resets(e)
<1>1. PAUSE \in Named /\ RESET \in Named /\ STATUS \in Named
  BY DEF Named
<1>2. e.topic = MQTT_PAUSE_TOPIC => is_topic(e, MQTT_PAUSE_TOPIC)
  BY <1>1, NamedApart DEF MQTT_PAUSE_TOPIC
<1>3. e.topic = MQTT_RESET_TOPIC =>
        ~is_topic(e, MQTT_PAUSE_TOPIC) /\ is_topic(e, MQTT_RESET_TOPIC)
  BY <1>1, NamedApart, NamedType DEF MQTT_PAUSE_TOPIC, MQTT_RESET_TOPIC
<1>4. e.topic = MQTT_STATUS_TOPIC =>
        ~is_topic(e, MQTT_PAUSE_TOPIC) /\ ~is_topic(e, MQTT_RESET_TOPIC)
  BY <1>1, NamedApart, NamedType DEF MQTT_PAUSE_TOPIC, MQTT_RESET_TOPIC, MQTT_STATUS_TOPIC
<1> QED
  BY <1>2, <1>3, <1>4 DEF Pauses, Resets

-----------------------------------------------------------------------------
(* What a message does *)

ControlStep ==
  /\ Handled(MQTT_PAUSE_TOPIC) /\ Head(events).data # "none" =>
       up' /\ plc_state' = IF Head(events).data = "zero" THEN "running" ELSE "paused"
  /\ Handled(MQTT_RESET_TOPIC) => up' = (Head(events).data = "none")

StatusStep == Handled(MQTT_STATUS_TOPIC) => UNCHANGED <<plc_state, up>>

\* Only a running node has events.
Inv == up \in BOOLEAN /\ (~up => events = <<>>)

LEMMA InvHolds == Spec => []Inv
<1>1. Init => Inv
  BY DEF Init, Inv
<1>2. Inv /\ [Next]_vars => Inv'
  BY DEF Inv, Next, vars, Publish, PauseMessage, ResetMessage, OtherMessage, Restarted,
     plc_set_state
<1> QED
  BY <1>1, <1>2, PTL DEF Spec

LEMMA Steps == Inv /\ [Next]_vars => ControlStep /\ StatusStep
<1> SUFFICES ASSUME Inv, Next, events # <<>>, events' # events
             PROVE  ControlStep /\ StatusStep
  BY DEF ControlStep, StatusStep, Handled, vars
<1>1. CASE PauseMessage
  <2>1. /\ Pauses(Head(events)) /\ up /\ up' = up
        /\ plc_state' = IF Head(events).data = "zero" THEN "running" ELSE "paused"
    BY <1>1 DEF PauseMessage, plc_set_state
  <2> QED
    BY <2>1, NamedEvents DEF ControlStep, StatusStep, Handled
<1>2. CASE ResetMessage
  <2>1. Resets(Head(events)) /\ up' = FALSE
    BY <1>2 DEF ResetMessage
  <2> QED
    BY <2>1, NamedEvents DEF ControlStep, StatusStep, Handled
<1>3. CASE OtherMessage
  <2>1. ~Pauses(Head(events)) /\ ~Resets(Head(events)) /\ up = TRUE
        /\ UNCHANGED <<plc_state, up>>
    BY <1>3 DEF OtherMessage, Inv
  <2> QED
    BY <2>1, NamedEvents DEF ControlStep, StatusStep, Handled
<1>4. CASE Publish \/ Restarted
  BY <1>4 DEF Publish, Restarted
<1> QED
  BY <1>1, <1>2, <1>3, <1>4 DEF Next

\* A message on a control topic does what the topic is for (mqtt_handle_msg).
THEOREM ControlTopicsAct == Spec => ControlActs
<1>1. Inv /\ [Next]_vars => [ControlStep]_vars
  BY Steps
<1>2. ControlActs <=> [][ControlStep]_vars
  BY DEF ControlActs, ControlStep
<1> QED
  BY <1>1, <1>2, InvHolds, PTL DEF Spec

\* What the PLC hears of its own status never pauses or restarts it
\* (mqtt_handle_msg, plc_set_state).
THEOREM StatusTopicIsHarmless == Spec => StatusIsHarmless
<1>1. Inv /\ [Next]_vars => [StatusStep]_vars
  BY Steps
<1>2. StatusIsHarmless <=> [][StatusStep]_vars
  BY DEF StatusIsHarmless, StatusStep
<1> QED
  BY <1>1, <1>2, InvHolds, PTL DEF Spec
-----------------------------------------------------------------------------
(* Type correctness *)

Event == [topic : Seq(Letters), data : Data]

LEMMA MessageType ==
  ASSUME NEW t \in Seq(Letters), NEW d \in Data, NEW n \in 1..MaxParts
  PROVE  Message(t, d, n) \in Seq(Event) /\ Len(Message(t, d, n)) = n
<1>1. \A i \in 1..n :
        [topic |-> IF i = 1 THEN t ELSE <<>>, data |-> IF i = 1 THEN d ELSE "other"] \in Event
  BY DEF Event, Data
<1>2. n \in Nat
  BY TopicsAssumption
<1> QED
  BY <1>1, <1>2 DEF Message

LEMMA SetStateType ==
  ASSUME TypeOK, events # <<>>, NEW st \in {"running", "paused"}, plc_set_state(st)
  PROVE  TypeOK'
<1> DEFINE status == Message(MQTT_STATUS_TOPIC, "other", 1)
<1>1. status \in Seq(Event) /\ Len(status) = 1
  <2>1. MQTT_STATUS_TOPIC \in Seq(Letters) /\ 1 \in 1..MaxParts /\ "other" \in Data
    BY TopicsAssumption DEF MQTT_STATUS_TOPIC, MQTT_SUBTOPIC, Data
  <2> QED
    BY <2>1, MessageType
<1>2. Tail(events) \in Seq(Event) /\ Len(Tail(events)) = Len(events) - 1 /\ Len(events) \in Nat
  BY DEF TypeOK, Event
<1> DEFINE rest == Tail(events)
<1>3. events' = rest \o status /\ plc_state' = st /\ up' = up
  BY DEF plc_set_state
<1>4. rest \in Seq(Event) /\ Len(rest) = Len(events) - 1 /\ Len(events) \in Nat
  BY <1>2
<1> HIDE DEF status, rest
<1>5. rest \o status \in Seq(Event) /\ Len(rest \o status) = Len(rest) + Len(status)
  BY ONLY <1>1, <1>4, ConcatProperties
<1>6. Len(rest \o status) = Len(events)
  BY ONLY <1>1, <1>4, <1>5
<1>7. events' \in Seq(Event) /\ Len(events') = Len(events)
  BY ONLY <1>3, <1>5, <1>6
<1> QED
  BY <1>3, <1>7 DEF TypeOK, Event

\* Events have a topic and data, and there are never more of them than of one message,
\* although handling one publishes another (mqtt_handle_msg, plc_set_state).
THEOREM TypeCorrect == Spec => []TypeOK
<1>1. Init => TypeOK
  BY TopicsAssumption DEF Init, TypeOK
<1>2. TypeOK /\ [Next]_vars => TypeOK'
  <2> SUFFICES ASSUME TypeOK, [Next]_vars PROVE TypeOK'
    OBVIOUS
  <2>1. CASE Publish
    <3>1. PICK t \in Topics, d \in Data, n \in 1..MaxParts : events' = Message(t, d, n)
      BY <2>1 DEF Publish
    <3>2. t \in Seq(Letters)
      BY <3>1 DEF Topics
    <3>3. events' \in Seq(Event) /\ Len(events') <= MaxParts
      BY <3>1, <3>2, MessageType, TopicsAssumption
    <3> QED
      BY <3>3, <2>1 DEF TypeOK, Event, Publish
  <2>2. CASE PauseMessage
    BY <2>2, SetStateType DEF PauseMessage
  <2>3. CASE ResetMessage
    <3>1. <<>> \in Seq(Event) /\ Len(<<>>) = 0
      BY EmptySeq
    <3>2. events' = <<>> /\ up' = FALSE /\ plc_state' = plc_state
      BY <2>3 DEF ResetMessage
    <3>3. events' \in Seq(Event) /\ Len(events') <= MaxParts
      BY <3>1, <3>2, TopicsAssumption
    <3> QED
      BY <3>2, <3>3 DEF TypeOK, Event
  <2>4. CASE OtherMessage
    <3>1. Tail(events) \in Seq(Event) /\ Len(Tail(events)) <= MaxParts
      BY <2>4, TopicsAssumption DEF OtherMessage, TypeOK, Event
    <3> QED
      BY <3>1, <2>4 DEF OtherMessage, TypeOK, Event
  <2>5. CASE Restarted
    BY <2>5 DEF Restarted, TypeOK
  <2>6. CASE UNCHANGED vars
    BY <2>6 DEF vars, TypeOK
  <2> QED
    BY <2>1, <2>2, <2>3, <2>4, <2>5, <2>6 DEF Next
<1> QED
  BY <1>1, <1>2, PTL DEF Spec
=============================================================================
