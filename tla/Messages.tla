------------------------------ MODULE Messages ------------------------------
(***************************************************************************)
(* The messages of lib/uavcan_automation: what each sending function puts  *)
(* on the bus, through the generated codecs (automation/*.c), and which    *)
(* function of the application the receivers call for it.  One message is  *)
(* followed at a time; queues and tasks are the subject of RemoteIO.       *)
(*                                                                         *)
(* The senders fill a struct on the stack field by field.  A field they do *)
(* not assign holds whatever was there before: one of Garbage.             *)
(***************************************************************************)
EXTENDS Integers, Sequences, FiniteSetsExt

CONSTANTS
  Slaves,    \* node ids of the slaves; the PLC has none of them
  Reading,   \* Reading[g]: what the channels of group g of a slave read
  Garbage,   \* what an unassigned field may hold
  Targets,   \* node ids messages are sent to
  Indexes,   \* start indexes of blocks
  Lengths,   \* lengths asked for by GetValues requests
  DigValues, \* digital values that are sent: sequences of bits
  AnValues   \* analog values that are sent

Byte == 0..255
Word == 0..(2^16 - 1)
ASSUME InputsAssumption ==
  /\ Slaves \subseteq Byte /\ Targets \subseteq Byte
  /\ Indexes \subseteq Byte /\ Lengths \subseteq Byte
  /\ Garbage \subseteq Nat
  /\ \A ch \in DOMAIN Reading["DI"] : Reading["DI"][ch] \in {0, 1}
  /\ \A ch \in DOMAIN Reading["AI"] : Reading["AI"][ch] \in Word
  /\ \A v \in DigValues : v \in Seq({0, 1}) /\ Len(v) <= 32
  /\ \A v \in AnValues : v \in Seq(Word) /\ Len(v) <= 2

VARIABLES
  asked,   \* what the application asked for, or None
  wire,    \* the message on the bus, or None
  calls    \* the application functions the receivers have called

vars == <<asked, wire, calls>>
None == [op |-> "none"]

-----------------------------------------------------------------------------
(* Layouts: the fields of a message, each with its bits and where they begin.   *)
(* Like the generated functions, a part takes its offset from what it is in.    *)

Field(name, i, at, width) == [key |-> <<name, i>>, at |-> at, width |-> width]
Scalar(name, at, width)   == {Field(name, 0, at, width)}
Array(name, at, n, width) == {Field(name, i, at + (i - 1) * width, width) : i \in 1..n}

PortType(at)  == Scalar("port_type", at, 1)
ValueType(at) == Scalar("value_type", at, 2)

\* The definitions named ...Mistaken are what a plausible mistake would make of
\* the definition after them; each breaks one of the properties below.
DigitalValuesMistaken(at) == Scalar("values_len", at, 8) \cup Array("values", at + 8, 32, 1)

DigitalValues(at) == Scalar("values_len", at, 6) \cup Array("values", at + 6, 32, 1)
AnalogValues(at)  == Scalar("values_len", at, 2) \cup Array("values", at + 2, 2, 16)

\* A union: nothing follows a tag that names no member.
Values(tag, at) == Scalar("union_tag", at, 1) \cup CASE tag = 0 -> DigitalValues(at + 1)
                                                    [] tag = 1 -> AnalogValues(at + 1)
                                                    [] OTHER   -> {}

SetValues(tag)         == Scalar("node_id", 0, 8) \cup Scalar("index", 8, 8) \cup Values(tag, 16)
TellValues(tag)        == PortType(0) \cup Scalar("index", 1, 8) \cup Values(tag, 9)
GetValuesRequest       == PortType(0) \cup Scalar("index", 1, 8) \cup ValueType(9)
                            \cup Scalar("length", 11, 6)
GetValuesResponse(tag) == Scalar("result", 0, 2) \cup PortType(2) \cup Scalar("index", 3, 8)
                            \cup Values(tag, 11)

Layout(kind, tag) == CASE kind = "SetValues"  -> SetValues(tag)
                       [] kind = "TellValues" -> TellValues(tag)
                       [] kind = "Request"    -> GetValuesRequest
                       [] kind = "Response"   -> GetValuesResponse(tag)

\* The bits of a field, counted from 1; all bits, and bytes, of a layout.
Bits(f)      == (f.at + 1)..(f.at + f.width)
Size(layout) == Max({f.at + f.width : f \in layout})
Bytes(bits)  == (bits + 7) \div 8

\* The bytes of the buffers messages are encoded into (..._MAX_SIZE, buff_size).
BufferSize(kind) == CASE kind = "TellValues" -> Bytes(48)
                      [] kind = "Request"    -> Bytes(17)
                      [] kind \in {"SetValues", "Response"} -> Bytes(55)

-----------------------------------------------------------------------------
(* Codecs.  A struct is a function from the keys of fields to numbers. *)

CutMistaken(v, width) == v % 2^width

\* CANARD_INTERNAL_SATURATE_UNSIGNED; a Boolean that is not 0 encodes as 1.
Cut(v, width) == IF v < 2^width THEN v ELSE 2^width - 1

\* canardEncodeScalar, canardDecodeScalar (external; the order of the bits in
\* a scalar is theirs).
ToBit(v, b)    == (v \div 2^(b - 1)) % 2
FromBits(bits) ==
  LET top[n \in 0..Len(bits)] ==
        IF n = 0 THEN 0 ELSE 2 * top[n - 1] + bits[Len(bits) + 1 - n]
  IN  top[Len(bits)]

\* The payload has whole bytes; what its last bits hold is left to chance.
Encode(kind, struct, pad) ==
  LET layout == Layout(kind, struct[<<"union_tag", 0>>])
      bit(b) == LET f == CHOOSE f \in layout : b \in Bits(f)
                IN  ToBit(Cut(struct[f.key], f.width), b - f.at)
  IN  [b \in 1..(8 * Bytes(Size(layout))) |-> IF b > Size(layout) THEN pad ELSE bit(b)]

Decoded(layout, payload) ==
  [k \in {f.key : f \in layout} |->
     LET f == CHOOSE f \in layout : f.key = k
     IN  FromBits([b \in 1..f.width |-> payload[f.at + b]])]

\* The structs a payload decodes to: none when it is too short for the layout
\* its union tag calls for.
Decode(kind, payload) ==
  LET head   == Layout(kind, 2)
      tag    == Decoded(head, payload)[<<"union_tag", 0>>]
      layout == IF kind = "Request" THEN head ELSE Layout(kind, tag)
  IN  IF Size(head) > Len(payload) \/ Size(layout) > Len(payload) THEN {}
      ELSE {Decoded(layout, payload)}

-----------------------------------------------------------------------------
(* Senders *)

\* A struct with some fields assigned and the rest unassigned.
ScalarNames == {"node_id", "port_type", "index", "value_type", "length",
                "result", "union_tag", "values_len"}
Keys == {<<n, 0>> : n \in ScalarNames} \cup {<<"values", i>> : i \in 1..32}
Struct(assigned, garbage) ==
  [k \in Keys |-> IF k \in DOMAIN assigned THEN assigned[k] ELSE garbage]

\* Assignments, and others behind them: the first to a field counts.
f ++ g == [k \in DOMAIN f \cup DOMAIN g |-> IF k \in DOMAIN f THEN f[k] ELSE g[k]]

Assign(name, v)  == [k \in {<<name, 0>>} |-> v]
AssignValues(vs) == [k \in {<<"values", i>> : i \in DOMAIN vs} |-> vs[k[2]]]

Tag(g) == IF g \in {"DI", "DO"} THEN 0 ELSE 1
MaxLen(g) == IF g \in {"DI", "DO"} THEN 32 ELSE 2

\* The assigned fields of a block of values.
Block(g, index, vals) ==
  Assign("index", index) ++ Assign("union_tag", Tag(g))
    ++ Assign("values_len", Len(vals)) ++ AssignValues(vals)

ValuesOf(g) == IF g \in {"DI", "DO"} THEN DigValues ELSE AnValues

Message(kind, from, to, struct, pad) ==
  [op |-> kind, from |-> from, to |-> to, payload |-> Encode(kind, struct, pad)]

\* automation_send_set_dos, _aos
SendSet ==
  \E to \in Targets, index \in Indexes, g \in {"DO", "AO"}, garbage \in Garbage :
    \E vals \in ValuesOf(g), pad \in {0, 1} :
      /\ asked' = [op |-> "set", grp |-> g, node |-> to, index |-> index, vals |-> vals]
      /\ wire' = Message("SetValues", "plc", "all",
                   Struct(Assign("node_id", to) ++ Block(g, index, vals), garbage), pad)

\* automation_send_tell_dis, _ais
SendTell ==
  \E from \in Slaves, index \in Indexes, g \in {"DI", "AI"}, garbage \in Garbage :
    \E vals \in ValuesOf(g), pad \in {0, 1} :
      /\ asked' = [op |-> "tell", grp |-> g, node |-> from, index |-> index,
                   vals |-> vals]
      /\ wire' = Message("TellValues", from, "all",
                   Struct(Assign("port_type", 0) ++ Block(g, index, vals), garbage), pad)

\* automation_send_get_dis, _ais: the port type stays unassigned.
SendGet ==
  \E to \in Targets, index \in Indexes, g \in {"DI", "AI"}, garbage \in Garbage :
    \E len \in Lengths, pad \in {0, 1} :
      /\ asked' = [op |-> "get", grp |-> g, node |-> to, index |-> index, len |-> len]
      /\ wire' = Message("Request", "plc", to,
                   Struct(Assign("index", index) ++ Assign("length", len)
                            ++ Assign("value_type", IF g = "DI" THEN 1 ELSE 2),
                          garbage), pad)

Send == asked = None /\ (SendSet \/ SendTell \/ SendGet) /\ UNCHANGED calls

-----------------------------------------------------------------------------
(* Receivers *)

\* The call of an application function with the values of a decoded struct.
Call(op, g, node, s) ==
  [op |-> op, grp |-> g, node |-> node, index |-> s[<<"index", 0>>],
   vals |-> [i \in 1..s[<<"values_len", 0>>] |-> s[<<"values", i>>]]]

GroupOf(s, dig, an) == IF s[<<"union_tag", 0>>] = 0 THEN dig ELSE an

SetCallsMistaken(s) == {Call("set", GroupOf(s, "DO", "AO"), n, s) : n \in Slaves}

\* handle_SetValues at every slave: only the one that is meant acts.
SetCalls(s) ==
  {Call("set", GroupOf(s, "DO", "AO"), n, s) : n \in Slaves \cap {s[<<"node_id", 0>>]}}

HandleSet ==
  /\ wire.op = "SetValues"
  /\ calls' = UNION {SetCalls(s) : s \in Decode("SetValues", wire.payload)}
  /\ wire' = None

\* handle_TellValues at the PLC; values of outputs are not handled.
HandleTell ==
  /\ wire.op = "TellValues"
  /\ calls' = {Call("tell", GroupOf(s, "DI", "AI"), wire.from, s) :
                 s \in {s \in Decode("TellValues", wire.payload) :
                          s[<<"port_type", 0>>] = 0}}
  /\ wire' = None

\* automation_get_dis, _ais: the values before the first channel that does not
\* exist or cannot be read, and the result.
Channel(index, i) == (index + i - 1) % 256
Exists(g, ch)     == ch \in DOMAIN Reading[g]
ReadTo(g, index, n) == [i \in 1..n |-> Reading[g][Channel(index, i)]]
Reads(g, index, len) ==
  {[vals |-> ReadTo(g, index, r.n), result |-> r.result] : r \in
     {r \in [n : 0..len, result : {0, 1, 2}] :
        /\ \A i \in 1..r.n : Exists(g, Channel(index, i))
        /\ r.result = 0 <=> r.n = len
        /\ r.result = 1 => ~Exists(g, Channel(index, r.n + 1))
        /\ r.result = 2 => r.n < len /\ Exists(g, Channel(index, r.n + 1))}}

\* The fields handle_GetValues_req assigns in its response to request q: with a
\* length that is too big only result and index, else the whole header.
Answers(q) ==
  LET g     == IF q[<<"value_type", 0>>] = 1 THEN "DI" ELSE "AI"
      index == q[<<"index", 0>>]
      len   == q[<<"length", 0>>]
      BAD_ARGUMENT == 1
  IN  IF len > MaxLen(g)
      THEN {Assign("result", BAD_ARGUMENT) ++ Assign("index", index)}
      ELSE {Assign("result", r.result) ++ Assign("port_type", 0)
              ++ Assign("values_len", len) ++ Block(g, index, r.vals) :
              r \in Reads(g, index, len)}

\* handle_GetValues_req: a request for outputs or of another value type, or for
\* a node that is not there, is not answered.
HandleRequest ==
  /\ wire.op = "Request"
  /\ IF wire.to \notin Slaves THEN wire' = None
     ELSE LET requests == {q \in Decode("Request", wire.payload) :
                             q[<<"port_type", 0>>] = 0 /\ q[<<"value_type", 0>>] \in {1, 2}}
          IN  \/ requests = {} /\ wire' = None
              \/ \E q \in requests : \E a \in Answers(q), garbage \in Garbage, pad \in {0, 1} :
                   wire' = Message("Response", wire.to, wire.from,
                                   Struct(a, garbage), pad)
  /\ UNCHANGED calls

\* handle_GetValues_resp: an error response, or one about outputs, is dropped.
ResponseCalls(s) ==
  IF s[<<"result", 0>>] # 0 \/ s[<<"port_type", 0>>] # 0 THEN {}
  ELSE {Call("got", GroupOf(s, "DI", "AI"), wire.from, s)}

HandleResponse ==
  /\ wire.op = "Response"
  /\ calls' = UNION {ResponseCalls(s) : s \in Decode("Response", wire.payload)}
  /\ wire' = None

Handle == /\ HandleSet \/ HandleTell \/ HandleRequest \/ HandleResponse
          /\ UNCHANGED asked

Init == asked = None /\ wire = None /\ calls = {}
Next == Send \/ Handle
Spec == Init /\ [][Next]_vars

-----------------------------------------------------------------------------
(* Properties *)

\* "32+6 bits fit into one packet for all contexts it is used in"
\* (DigitalValues.h): whatever is sent fits the buffer it is encoded into and the
\* seven bytes one CAN frame carries.
FitsOneFrame ==
  wire # None => LET bytes == Len(wire.payload) \div 8
                 IN  bytes <= BufferSize(wire.op) /\ bytes <= 7

Done == asked # None /\ wire = None

\* A SetValues or TellValues message makes exactly the call its sender meant: at
\* the node it names, or the PLC, with its index and values, whatever the fields
\* and bits held that the sender left unassigned.
SetsAndTellsArrive ==
  Done /\ asked.op \in {"set", "tell"} =>
    calls = IF asked.op = "tell" \/ asked.node \in Slaves THEN {asked} ELSE {}

\* A GetValues request ends in no call or in one: with the readings of exactly
\* the channels that were asked for.  A length that does not fit the message, a
\* channel that does not exist or an unassigned field is never taken for values.
AnswersAreRight ==
  \A c \in calls : c.op = "got" =>
    /\ c.grp = asked.grp /\ c.node = asked.node /\ c.index = asked.index
    /\ Len(c.vals) = asked.len
    /\ \A i \in DOMAIN c.vals : /\ Exists(c.grp, Channel(c.index, i))
                                /\ c.vals[i] = Reading[c.grp][Channel(c.index, i)]
=============================================================================
