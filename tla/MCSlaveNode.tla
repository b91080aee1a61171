---------------------------- MODULE MCSlaveNode ----------------------------
(* An instance of SlaveNode for TLC.  The counters wrap so soon that every    *)
(* timer sees a wrap in each of its states.                                   *)
EXTENDS SlaveNode

\* A temperature that can be represented and one that cannot.
MCTemps == {-7, 2}
=============================================================================
