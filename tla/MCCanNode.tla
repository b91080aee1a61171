----------------------------- MODULE MCCanNode -----------------------------
(* An instance of CanNode for TLC: a pool that one answer of GetNodeInfo      *)
(* fills but for a frame, and a driver queue of one.                          *)
EXTENDS CanNode
=============================================================================
