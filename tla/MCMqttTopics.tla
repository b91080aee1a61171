---------------------------- MODULE MCMqttTopics ----------------------------
(* An instance of MqttTopics for TLC: the root "1/" with topics that share *)
(* their first letters.                                                    *)
EXTENDS MqttTopics

MCLetters == 0..3
MCRoot    == <<1, 0>>
MCPause   == <<2, 2>>
MCReset   == <<2, 3>>
MCStatus  == <<3>>
=============================================================================
