----------------------------- MODULE MCMessages -----------------------------
(* An instance for TLC of all messages of the bus: those of the automation    *)
(* protocol (Messages) and the standard ones of a node (NodeMessages).  A node *)
(* tells them apart by their type and handles one transfer after the other, so *)
(* that one exchange is followed at a time.                                    *)
EXTENDS NodeMessages

MCSlaves  == {51, 52}
MCTargets == {51, 60}
MCGarbage == {0, 1, 2, 65535}
MCIndexes == {0, 1, 255}
MCLengths == {0, 1, 2, 3, 32, 33, 64, 255}

\* 33 digital inputs, one more than a message carries; two analog ones.
MCReading == [g \in {"DI", "AI"} |->
  IF g = "DI" THEN [ch \in 0..32 |-> (ch \div 3) % 2]
              ELSE [ch \in 0..1 |-> 65535 - ch]]

Alternating(n) == [i \in 1..n |-> i % 2]
MCDigValues == {Alternating(n) : n \in {0, 1, 31, 32}} \cup {[i \in 1..32 |-> 1]}
MCAnValues  == {<<>>, <<65535>>, <<1, 65535>>, <<256, 0>>}

-----------------------------------------------------------------------------
(* The standard messages *)

MCPad == {0, 1}
MCMaxCut == 2
Text(n) == [i \in 1..n |-> (7 * i) % 256]

\* The fields of a part.
In(part, fields) == [k \in {part} \X DOMAIN fields |-> fields[k[2]]]

Status(part, uptime, health, mode, vendor) ==
  In(part, [uptime_sec |-> uptime, health |-> health, mode |-> mode, sub_mode |-> 0,
            vendor_specific_status_code |-> vendor])
Hardware(part, n) ==
  In(part, [major |-> 0, minor |-> 255, unique_id |-> Text(16),
            certificate_of_authenticity |-> Text(n)])

\* uavcan_node_info is all zeros but for what uavcan2_init fills in.
MCNodeInfo ==
  Status("status", 0, 0, 0, 0)
    ++ In("software_version", [major |-> 1, minor |-> 2, optional_field_flags |-> 0,
                               vcs_commit |-> 0, image_crc |-> 0])
    ++ Hardware("hardware_version", 0) ++ In("", [name |-> Text(12)])

\* Stands for 0xACCE551B1E, beyond the integers of TLC, and a wrong number.
MCMagicNumber == 11325425
MCWrong       == 11325426

ParamValues == {In("value", v) : v \in {[tag |-> 0], [tag |-> 1, integer_value |-> 1000000],
                                        [tag |-> 2, real_value |-> 3],
                                        [tag |-> 3, boolean_value |-> 1]}}
Strings     == {In("value", [tag |-> 4, string_value |-> Text(n)]) : n \in {0, 3, 128}}

Of(kind, bodies) == {[kind |-> kind, body |-> b] : b \in bodies}

\* Health and mode beyond their bits; arrays that are empty, short and longest.
MCInputs ==
  Of("NodeStatus", {Status("", u, h, md, 65535) :
                      u \in {0, 1073741823}, h \in {0, 3, 4}, md \in {1, 7, 8}})
  \cup Of("GetNodeInfoRequest", {NoFields})
  \cup Of("RestartNodeRequest", {In("", [magic_number |-> n]) : n \in {MCMagicNumber, MCWrong}})
  \cup Of("LogMessage", {In("level", [value |-> l]) ++ In("", [source |-> Text(s), text |-> Text(t)]) :
                           l \in {0, 9}, s \in {0, 31}, t \in {0, 1, 90}})
  \cup Of("HardwareVersion", {Hardware("", n) : n \in {0, 2, 255}})
  \cup Of("GetSetRequest", {In("", [index |-> i, name |-> <<>>]) ++ v :
                              i \in {0, 1, 2, 9000}, v \in ParamValues})
  \cup Of("GetSetRequest", {In("", [index |-> 0, name |-> Text(92)]) ++ v :
                              v \in ParamValues \cup Strings})
=============================================================================
