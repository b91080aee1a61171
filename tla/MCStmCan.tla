------------------------------ MODULE MCStmCan ------------------------------
(* An instance of StmCan for TLC. *)
EXTENDS StmCan

MCMailboxes == 0..2
MCIds       == 1..2
=============================================================================
