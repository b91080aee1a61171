---------------------------- MODULE NodeMessages ----------------------------
(***************************************************************************)
(* The other messages of the bus: the standard ones of a node              *)
(* (lib/uavcan_node/src/uavcan/protocol), their codecs, and the handlers   *)
(* of uavcan_node.c that answer them.  A node tells messages apart by      *)
(* their type and handles one transfer after the other, so that one        *)
(* exchange is followed at a time, an automation message (Messages) or one *)
(* of these; queues, flushing and the bus are the subject of CanNode.      *)
(*                                                                         *)
(* A type is a sequence of fields, those of its parts and of the members   *)
(* of its unions in their places; one encoder and one decoder walk it.     *)
(* The buffers a message is encoded into are not cleared: bits that are    *)
(* skipped hold whatever was there before, all Pad here.                   *)
(***************************************************************************)
EXTENDS Messages, SequencesExt

CONSTANTS
  NodeInputs,  \* the messages that are sent: records [kind, body]
  Pad,         \* what the bits of an uncleared buffer may hold
  NodeInfo,    \* uavcan_node_info
  MaxCut       \* how many bytes a foreign payload may be short of

\* Values of scalars are below 2^WordBits: the bits above are 0.
WordBits == 30
Number   == 0..(2^WordBits - 1)

VARIABLES
  sent,      \* the message last encoded, or None
  transfer,  \* its payload on the bus, or None
  heard,     \* what its receiver decoded: a message, Failed, or None
  restart_pending

nodeVars == <<sent, transfer, heard, restart_pending>>
Failed   == [kind |-> "failed"]

-----------------------------------------------------------------------------
(* Types *)

\* A field: how it is written, in which part it is, the bits skipped before it, and
\* in which member of a union it is.  Member 0 of every union is empty: 0 stands for
\* fields outside of unions.
Item(t, part, name, width, n) ==
  [t |-> t, part |-> part, name |-> name, width |-> width, n |-> n,
   skip |-> 0, member |-> 0]

Uint(part, name, width)         == Item("uint", part, name, width, 0)
Items(part, name, n)            == Item("items", part, name, 0, n)
\* Up to n bytes with their number in front; a tail goes without it at the end of
\* the message itself, which is part "".
ByteArray(part, name, width, n) == Item("bytes", part, name, width, n)
TailArray(part, name, width, n) == Item("tail", part, name, width, n)
UnionTag(part, width, skip)     == [Uint(part, "tag", width) EXCEPT !.skip = skip]
Member(k, f)                    == [f EXCEPT !.member = k]

NodeStatus(part) ==
  <<Uint(part, "uptime_sec", 32), Uint(part, "health", 2), Uint(part, "mode", 3),
    Uint(part, "sub_mode", 3), Uint(part, "vendor_specific_status_code", 16)>>
SoftwareVersion(part) ==
  <<Uint(part, "major", 8), Uint(part, "minor", 8), Uint(part, "optional_field_flags", 8),
    Uint(part, "vcs_commit", 32), Uint(part, "image_crc", 64)>>
HardwareVersion(part) ==
  <<Uint(part, "major", 8), Uint(part, "minor", 8), Items(part, "unique_id", 16),
    TailArray(part, "certificate_of_authenticity", 8, 255)>>
GetNodeInfoResponse ==
  NodeStatus("status") \o SoftwareVersion("software_version")
    \o HardwareVersion("hardware_version") \o <<TailArray("", "name", 7, 80)>>
RestartNodeRequest  == <<Uint("", "magic_number", 40)>>
RestartNodeResponse == <<Uint("", "ok", 1)>>
LogLevel(part)      == <<Uint(part, "value", 3)>>
LogMessage == LogLevel("level") \o <<ByteArray("", "source", 5, 31), TailArray("", "text", 7, 90)>>
Empty      == <<>>
Value(part, skip) ==
  <<UnionTag(part, 3, skip),
    Member(1, Uint(part, "integer_value", 64)), Member(2, Uint(part, "real_value", 32)),
    Member(3, Uint(part, "boolean_value", 8)), Member(4, TailArray(part, "string_value", 8, 128))>>
NumericValue(part, skip) ==
  <<UnionTag(part, 2, skip),
    Member(1, Uint(part, "integer_value", 64)), Member(2, Uint(part, "real_value", 32))>>
GetSetRequest  == <<Uint("", "index", 13)>> \o Value("value", 0) \o <<TailArray("", "name", 7, 92)>>
GetSetResponse == Value("value", 5) \o Value("default_value", 5)
                    \o NumericValue("max_value", 6) \o NumericValue("min_value", 6)
                    \o <<TailArray("", "name", 7, 92)>>

Type(kind) == CASE kind = "NodeStatus"          -> NodeStatus("")
                [] kind = "GetNodeInfoRequest"  -> Empty
                [] kind = "GetNodeInfoResponse" -> GetNodeInfoResponse
                [] kind = "RestartNodeRequest"  -> RestartNodeRequest
                [] kind = "RestartNodeResponse" -> RestartNodeResponse
                [] kind = "LogMessage"          -> LogMessage
                [] kind = "GetSetRequest"       -> GetSetRequest
                [] kind = "GetSetResponse"      -> GetSetResponse
                [] kind = "HardwareVersion"     -> HardwareVersion("")

\* The bytes of the buffer a message is encoded into (..._MAX_SIZE).
MaxSize(kind) == CASE kind = "NodeStatus"          -> Bytes(56)
                   [] kind = "GetNodeInfoRequest"  -> Bytes(0)
                   [] kind = "GetNodeInfoResponse" -> Bytes(3015)
                   [] kind = "RestartNodeRequest"  -> Bytes(40)
                   [] kind = "RestartNodeResponse" -> Bytes(1)
                   [] kind = "LogMessage"          -> Bytes(983)
                   [] kind = "GetSetRequest"       -> Bytes(1791)
                   [] kind = "GetSetResponse"      -> Bytes(2967)
                   [] kind = "HardwareVersion"     -> Bytes(2192)

-----------------------------------------------------------------------------
(* A struct is a function from the keys of its fields to their values: numbers, or *)
(* sequences of bytes.                                                            *)

Key(f)    == <<f.part, f.name>>
TagKey(f) == <<f.part, "tag">>

\* Of a union only the member its tag names is there.
Present(f, struct) == f.member = 0 \/ struct[TagKey(f)] = f.member

\* The C types, whose widths may be above those of the fields.
TypedField(f, struct) ==
  LET v == struct[Key(f)]
  IN  Present(f, struct) =>
        /\ Key(f) \in DOMAIN struct
        /\ f.t = "uint"  => v \in Number /\ (f.name = "tag" => v < 2^f.width)
        /\ f.t = "items" => v \in Seq(Byte) /\ Len(v) = f.n
        /\ f.t \in {"bytes", "tail"} => v \in Seq(Byte) /\ Len(v) <= f.n

HasType(fields, struct) == \A i \in DOMAIN fields : TypedField(fields[i], struct)

ASSUME NodeInputsAssumption ==
  /\ \A m \in NodeInputs :
       /\ m = [kind |-> m.kind, body |-> m.body]
       /\ m.kind \in {"NodeStatus", "GetNodeInfoRequest", "RestartNodeRequest", "LogMessage",
                     "HardwareVersion", "GetSetRequest"}
       /\ HasType(Type(m.kind), m.body)
  /\ HasType(GetNodeInfoResponse, NodeInfo)
  /\ Pad \subseteq {0, 1} /\ MaxCut \in Nat

-----------------------------------------------------------------------------
(* Encoder *)

\* CANARD_INTERNAL_SATURATE_UNSIGNED; the C type of a field without it has the
\* width of the field, so that nothing is cut there.
Saturate(v, width) == IF width < WordBits /\ v >= 2^width THEN 2^width - 1 ELSE v

\* canardEncodeScalar (external).
ScalarBits(v, width) == [b \in 1..width |-> IF b > WordBits THEN 0 ELSE ToBit(v, b)]
ByteBits(s) == [b \in 1..(8 * Len(s)) |-> ToBit(s[(b + 7) \div 8], 1 + ((b - 1) % 8))]

\* The definitions named ...Mistaken are what a plausible mistake would make of
\* the definition after them; each breaks one of the properties below.
LengthBitsMistaken(f, v) == ScalarBits(Len(v), f.width)

\* Only the tail of the message itself goes without its length.
LengthBits(f, v) == IF f.t = "tail" /\ f.part = "" THEN <<>> ELSE ScalarBits(Len(v), f.width)

FieldBits(f, struct, pad) ==
  IF ~Present(f, struct) THEN <<>>
  ELSE [b \in 1..f.skip |-> pad]
         \o CASE f.t = "uint"  -> ScalarBits(Saturate(struct[Key(f)], f.width), f.width)
              [] f.t = "items" -> ByteBits(struct[Key(f)])
              [] OTHER         -> LengthBits(f, struct[Key(f)]) \o ByteBits(struct[Key(f)])

\* The bits of the first n fields, for every n.
BitsUpTo(fields, struct, pad) ==
  LET bits[n \in 0..Len(fields)] ==
        IF n = 0 THEN <<>> ELSE bits[n - 1] \o FieldBits(fields[n], struct, pad)
  IN  bits

\* A message in whole bytes.
Payload(m, pad) ==
  LET bits == BitsUpTo(Type(m.kind), m.body, pad)[Len(Type(m.kind))]
  IN  [b \in 1..(8 * Bytes(Len(bits))) |-> IF b > Len(bits) THEN pad ELSE bits[b]]

-----------------------------------------------------------------------------
(* Decoder: [ok, at, val] is what a field, or the fields up to it, decoded to and *)
(* where the next begins.                                                         *)

Good(at, val) == [ok |-> TRUE, at |-> at, val |-> val]
Bad           == [ok |-> FALSE, at |-> 0, val |-> None]

ReadMistaken(payload, at, width) ==
  Good(at + width, FromBits([b \in 1..width |->
                     IF at + b > Len(payload) THEN 0 ELSE payload[at + b]]))

\* canardDecodeScalar (external): all bits of the scalar, or an error.
Read(payload, at, width) ==
  IF at + width > Len(payload) THEN Bad
  ELSE Good(at + width, FromBits([b \in 1..width |-> payload[at + b]]))

ReadBytes(payload, at, n) ==
  IF at + 8 * n > Len(payload) THEN Bad
  ELSE Good(at + 8 * n, [i \in 1..n |-> Read(payload, at + 8 * (i - 1), 8).val])

\* / of C, which rounds towards 0.
Quotient(a, b) == IF a >= 0 THEN a \div b ELSE -((-a) \div b)

\* A tail takes its length from that of the message (payload_len bytes), wherever it
\* is nested; the length is a uint8_t.
ReadLength(f, payload, at) ==
  IF f.t = "tail" /\ payload # <<>> THEN Good(at, Quotient(Len(payload) - at, 8) % 256)
  ELSE Read(payload, at, f.width)

ReadField(f, payload, at) ==
  CASE f.t = "uint"  -> Read(payload, at, f.width)
    [] f.t = "items" -> ReadBytes(payload, at, f.n)
    [] OTHER         -> LET n == ReadLength(f, payload, at)
                        IN  IF n.ok THEN ReadBytes(payload, n.at, n.val) ELSE Bad

NoFields == [k \in {} |-> 0]

\* One field more; the first error is the end of it.  A tag that names no member is
\* followed by nothing.
Then(d, f, payload) ==
  IF ~d.ok THEN Bad
  ELSE IF ~Present(f, d.val) THEN d
  ELSE LET v == ReadField(f, payload, d.at + f.skip)
       IN  IF v.ok THEN Good(v.at, [k \in {Key(f)} |-> v.val] ++ d.val) ELSE Bad

\* What the first n fields are decoded to, for every n.
After(fields, payload) ==
  LET after[n \in 0..Len(fields)] ==
        IF n = 0 THEN Good(0, NoFields) ELSE Then(after[n - 1], fields[n], payload)
  IN  after

Received(kind, payload) ==
  LET d == After(Type(kind), payload)[Len(Type(kind))]
  IN  IF d.ok THEN [kind |-> kind, body |-> d.val] ELSE Failed

-----------------------------------------------------------------------------
(* Sending, and the handlers *)

Put(m) == \E pad \in Pad :
  /\ sent' = m
  /\ transfer' = [kind |-> m.kind, payload |-> Payload(m, pad)]

\* uavcan_broadcast_status, uavcan_log, or a request of another node.
Begin ==
  /\ transfer = None /\ ~restart_pending
  /\ \E m \in NodeInputs : Put(m)
  /\ heard' = None
  /\ UNCHANGED restart_pending

\* A node of another make sends a shorter message of the same type.
Shorten ==
  /\ transfer # None /\ transfer.payload # <<>>
  /\ Len(Payload(sent, 0)) - Len(transfer.payload) < 8 * MaxCut
  /\ transfer' = [transfer EXCEPT !.payload = SubSeq(@, 1, Len(@) - 8)]
  /\ UNCHANGED <<sent, heard, restart_pending>>

NodeRequests == {"GetNodeInfoRequest", "RestartNodeRequest", "GetSetRequest"}

\* handle_NodeStatus, and whoever gets an answer or a log message.
Hear ==
  /\ transfer # None /\ transfer.kind \notin NodeRequests
  /\ heard' = Received(transfer.kind, transfer.payload)
  /\ transfer' = None
  /\ UNCHANGED <<sent, restart_pending>>

HandleGetNodeInfo ==
  /\ transfer # None /\ transfer.kind = "GetNodeInfoRequest"
  /\ Put([kind |-> "GetNodeInfoResponse", body |-> NodeInfo])
  /\ UNCHANGED <<heard, restart_pending>>

\* The request is not decoded.
HandleRestartNode ==
  /\ transfer # None /\ transfer.kind = "RestartNodeRequest"
  /\ Put([kind |-> "RestartNodeResponse", body |-> [k \in {<<"", "ok">>} |-> 1]])
  /\ restart_pending' = TRUE
  /\ UNCHANGED heard

\* param_Value structs in a part of the answer.
EmptyValue(part) == [k \in {<<part, "tag">>} |-> 0]
Integer(part, n) ==
  [k \in {<<part, "tag">>, <<part, "integer_value">>} |-> IF k[2] = "tag" THEN 1 ELSE n]
GetSetAnswer(value, default, min, max, name) ==
  [kind |-> "GetSetResponse",
   body |-> value ++ default ++ min ++ max ++ [k \in {<<"", "name">>} |-> name]]
Parameter(value, default, min, max, name) ==
  GetSetAnswer(Integer("value", value), Integer("default_value", default),
               Integer("min_value", min), Integer("max_value", max), name)
\* The names "first" and "second".
FirstName  == <<102, 105, 114, 115, 116>>
SecondName == <<115, 101, 99, 111, 110, 100>>

GetAnswer(index) ==
  CASE index = 0 -> Parameter(2, 2, 1, 3, FirstName)
    [] index = 1 -> Parameter(5, 5, 4, 6, SecondName)
    [] OTHER     -> GetSetAnswer(EmptyValue("value"), EmptyValue("default_value"),
                                 EmptyValue("min_value"), EmptyValue("max_value"), <<>>)

SetAnswer(n) == Parameter(n, 2, 1, 3, FirstName)

\* handle_param_GetSet, compiled with UAVCAN_WITH_PARAM_GETSET only: a sketch
\* that stores nothing.  Values of other types are not answered.
HandleGetSet ==
  /\ transfer # None /\ transfer.kind = "GetSetRequest"
  /\ LET req == Received("GetSetRequest", transfer.payload)
     IN  IF req = Failed \/ req.body[<<"value", "tag">>] \notin {0, 1}
         THEN transfer' = None /\ UNCHANGED sent
         ELSE Put(IF req.body[<<"value", "tag">>] = 0 THEN GetAnswer(req.body[<<"", "index">>])
                  ELSE SetAnswer(req.body[<<"value", "integer_value">>]))
  /\ UNCHANGED <<heard, restart_pending>>

\* uavcan_restart, once the answer has left.
Restart ==
  /\ restart_pending /\ transfer = None
  /\ restart_pending' = FALSE
  /\ sent' = None /\ heard' = None
  /\ UNCHANGED transfer

NodeInit == sent = None /\ transfer = None /\ heard = None /\ restart_pending = FALSE
NodeNext == \/ Begin \/ Shorten \/ Hear \/ Restart
            \/ HandleGetNodeInfo \/ HandleRestartNode \/ HandleGetSet

\* The bus: an exchange of the one kind or of the other.
BusInit == Init /\ NodeInit
BusNext == \/ sent = None /\ Next /\ UNCHANGED nodeVars
           \/ asked = None /\ NodeNext /\ UNCHANGED vars
BusSpec == BusInit /\ [][BusNext]_<<vars, nodeVars>>

-----------------------------------------------------------------------------
(* Properties *)

Whole == transfer # None /\ Len(transfer.payload) = Len(Payload(sent, 0))
Heard == heard' # heard /\ heard' # None

\* b is the struct a, a field that does not fit its bits being at its maximum.
SameField(f, a, b) ==
  LET v == a[Key(f)]
      w == b[Key(f)]
  IN  Present(f, a) =>
        /\ Key(f) \in DOMAIN b
        /\ IF f.t = "uint" THEN w = v \/ (v > w /\ w = 2^f.width - 1) ELSE w = v

Same(fields, a, b) == \A i \in DOMAIN fields : SameField(fields[i], a, b)

\* Of the messages that are heard, the ones with an array at the end of a part.
HasNestedTail(m) ==
  LET fields == Type(m.kind)
  IN  \E i \in DOMAIN fields : /\ fields[i].t = "tail" /\ fields[i].part # ""
                              /\ Present(fields[i], m.body)

Arrived(m) == heard'.kind = m.kind /\ Same(Type(m.kind), m.body, heard'.body)

\* The longest messages fit the buffers their senders encode them into.
FitsBuffer == transfer # None => Len(transfer.payload) <= 8 * MaxSize(transfer.kind)

(* Every message fits its buffer, and whatever the unused bits of the buffer held,
   it is decoded to the struct that was encoded, up to saturation, unless a part
   of it ends in an array of bytes (the codecs of lib/uavcan_node). *)
RoundTrip ==
  [][FitsBuffer' /\ (Heard /\ Whole /\ ~HasNestedTail(sent) => Arrived(sent))]_nodeVars

\* Messages whose last field is an array of bytes, and its name.
LastArray == [LogMessage |-> "text", HardwareVersion |-> "certificate_of_authenticity",
              GetSetResponse |-> "name"]

(* A message that lost bytes at its end is refused when its type has a fixed
   size; otherwise it is refused too or only its last array is shorter: no
   field takes a value nobody sent. *)
NothingInvented ==
  [][Heard /\ transfer # None /\ ~Whole /\ ~HasNestedTail(sent) =>
       \/ heard' = Failed
       \/ /\ sent.kind \in DOMAIN LastArray
          /\ LET last == <<"", LastArray[sent.kind]>>
             IN  /\ IsStrictPrefix(heard'.body[last], sent.body[last])
                 /\ Arrived([sent EXCEPT !.body[last] = heard'.body[last]])]_nodeVars
=============================================================================
