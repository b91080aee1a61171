---------------------------- MODULE MCRunControl ----------------------------
(* An instance of RunControl for TLC. *)
EXTENDS RunControl

PauseRetained == <<"pause">>
=============================================================================
