----------------------------- MODULE MqttTopics -----------------------------
(***************************************************************************)
(* Which MQTT message pauses, resumes or restarts the PLC: the             *)
(* subscription and mqtt_handle_msg of plc/src/hal_esp32.c, and the status *)
(* that plc_set_state publishes below the same root.                       *)
(*                                                                         *)
(* RunControl says when such a message acts; this module says which one.   *)
(* Topics are sequences of letters, since they are compared by the letter. *)
(* The client library and the broker are external.                         *)
(***************************************************************************)
EXTENDS Naturals, Sequences, SequencesExt

CONSTANTS
  Letters,       \* of topics
  Slash,         \* the one between the levels
  MQTT_ROOT_TOPIC, PAUSE, RESET, STATUS,   \* MQTT_SUBTOPIC("pause"), ...
  MaxLetters,    \* bound: letters of a topic
  MaxParts       \* bound: events the client makes of one message

MQTT_SUBTOPIC(x) == MQTT_ROOT_TOPIC \o x

MQTT_PAUSE_TOPIC  == MQTT_SUBTOPIC(PAUSE)
MQTT_RESET_TOPIC  == MQTT_SUBTOPIC(RESET)
MQTT_STATUS_TOPIC == MQTT_SUBTOPIC(STATUS)

\* "must be empty or end with a slash"; no control topic begins with another.
ASSUME TopicsAssumption ==
  /\ Slash \in Letters
  /\ {MQTT_ROOT_TOPIC, PAUSE, RESET, STATUS} \subseteq Seq(Letters)
  /\ MQTT_ROOT_TOPIC = <<>> \/ Last(MQTT_ROOT_TOPIC) = Slash
  /\ \A a, b \in {PAUSE, RESET, STATUS} : a # <<>> /\ (IsPrefix(a, b) => a = b)
  /\ PAUSE # RESET /\ PAUSE # STATUS /\ RESET # STATUS
  /\ MaxLetters \in Nat /\ MaxParts \in Nat \ {0}

\* The payload of an event: nothing, something that begins with '0', or other.
Data == {"none", "zero", "other"}

VARIABLES
  plc_state,   \* "running" or "paused"
  up,          \* the node runs; when not, it is being restarted
  events       \* MQTT_EVENT_DATA events on their way, [topic, data]

vars == <<plc_state, up, events>>

-----------------------------------------------------------------------------
(* The broker and the client library *)

\* The filter "<root>#" also matches the level above it.
Subscribed(t) == \/ IsPrefix(MQTT_ROOT_TOPIC, t)
                 \/ Append(t, Slash) = MQTT_ROOT_TOPIC

Topics == {t \in UNION {[1..n -> Letters] : n \in 1..MaxLetters} : Subscribed(t)}

\* Of a message that does not fit the client's buffer only the first event has
\* the topic.
Message(t, first, parts) ==
  [i \in 1..parts |-> [topic |-> IF i = 1 THEN t ELSE <<>>,
                       data  |-> IF i = 1 THEN first ELSE "other"]]

Publish ==
  /\ up /\ events = <<>>
  /\ \E t \in Topics, d \in Data, n \in 1..MaxParts :
       /\ n > 1 => d # "none"
       /\ events' = Message(t, d, n)
  /\ UNCHANGED <<plc_state, up>>

-----------------------------------------------------------------------------
(* mqtt_handle_msg *)

MinLen(a, b) == IF Len(a) < Len(b) THEN Len(a) ELSE Len(b)

\* As long as a pointer, not as the topic.
is_topicMistaken(event, topic) ==
  LET n == MinLen(event.topic, <<0, 0>>)
  IN  SubSeq(event.topic, 1, n) = SubSeq(topic, 1, n)

\* strncmp, up to the end of the shorter one.
is_topic(event, topic) ==
  LET n == MinLen(event.topic, topic)
  IN  SubSeq(event.topic, 1, n) = SubSeq(topic, 1, n)

\* plc_set_state; the status comes back as an event.
plc_set_state(st) ==
  /\ plc_state' = st
  /\ events' = Tail(events) \o Message(MQTT_STATUS_TOPIC, "other", 1)
  /\ UNCHANGED up

\* What is left of the handler's tests; the one for the wall clock cannot be
\* compiled.
Pauses(event) == is_topic(event, MQTT_PAUSE_TOPIC) /\ event.data # "none"
Resets(event) == ~is_topic(event, MQTT_PAUSE_TOPIC) /\ is_topic(event, MQTT_RESET_TOPIC)
                   /\ event.data # "none"

PauseMessage ==
  /\ up /\ events # <<>> /\ Pauses(Head(events))
  /\ plc_set_state(IF Head(events).data = "zero" THEN "running" ELSE "paused")

ResetMessage ==
  /\ up /\ events # <<>> /\ Resets(Head(events))
  /\ up' = FALSE /\ events' = <<>>
  /\ UNCHANGED plc_state

OtherMessage ==
  /\ up /\ events # <<>> /\ ~Pauses(Head(events)) /\ ~Resets(Head(events))
  /\ events' = Tail(events)
  /\ UNCHANGED <<plc_state, up>>

\* The PLC is back after hal_restart, and runs.
Restarted ==
  /\ ~up /\ up' = TRUE
  /\ plc_state' = "running"
  /\ UNCHANGED events

Init == plc_state = "running" /\ up = TRUE /\ events = <<>>

Next == Publish \/ PauseMessage \/ ResetMessage \/ OtherMessage \/ Restarted

Spec == Init /\ [][Next]_vars

-----------------------------------------------------------------------------
(* Properties *)

TypeOK ==
  /\ plc_state \in {"running", "paused"} /\ up \in BOOLEAN
  /\ events \in Seq([topic : Seq(Letters), data : Data])
  /\ Len(events) <= MaxParts

Handled(t) == events # <<>> /\ Head(events).topic = t /\ events' # events

(* A message on a control topic does what the topic is for, and no other topic
   is taken for it first (mqtt_handle_msg). *)
ControlActs ==
  [][/\ Handled(MQTT_PAUSE_TOPIC) /\ Head(events).data # "none" =>
          up' /\ plc_state' = IF Head(events).data = "zero" THEN "running" ELSE "paused"
     /\ Handled(MQTT_RESET_TOPIC) => up' = (Head(events).data = "none")]_vars

(* The PLC hears its own status, retained or not, since it subscribes to all that
   is below its root: "paused" or "running" there never pauses or restarts it. *)
StatusIsHarmless ==
  [][Handled(MQTT_STATUS_TOPIC) => UNCHANGED <<plc_state, up>>]_vars

(* Only a message on its topic pauses or restarts the PLC, as is_topic is named
   and the log says: all others are "unexpected mqtt msg". *)
OnlyItsTopic ==
  [][events # <<>> =>
       /\ plc_state' # plc_state => Head(events).topic = MQTT_PAUSE_TOPIC
       /\ up' # up => Head(events).topic = MQTT_RESET_TOPIC]_vars
=============================================================================
