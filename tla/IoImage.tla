------------------------------- MODULE IoImage -------------------------------
(***************************************************************************)
(* What the remote I/O promises about every point it carries from where it *)
(* is produced to where it is used: the user of a point sees values its    *)
(* producer had, in the order in which it had them.  Values may be late    *)
(* and may be skipped, but never invented, mixed up with those of another  *)
(* point, or seen again once a newer one has been seen; only a restart     *)
(* takes a point back to 0, the value it has after a reset.                *)
(*                                                                         *)
(* A value is the number of the event that produced it, so "in order"      *)
(* reads "not smaller".                                                    *)
(***************************************************************************)
EXTENDS Naturals

CONSTANT Points    \* the points carried

VARIABLES
  src,     \* the newest value of each point
  dst,     \* the value its user sees
  boots    \* how many times a node has restarted

vars == <<src, dst, boots>>

TypeOK == src \in [Points -> Nat] /\ dst \in [Points -> Nat] /\ boots \in Nat

Init == src = [p \in Points |-> 0] /\ dst = [p \in Points |-> 0] /\ boots = 0

Newer == \A p \in Points : src'[p] >= src[p]

\* Some points get a new value.
Produce == Newer /\ UNCHANGED <<dst, boots>>

\* Some points are carried: their users may see anything between what they
\* saw and the newest value.
Carry ==
  /\ \A p \in Points : dst[p] <= dst'[p] /\ dst'[p] <= src[p]
  /\ UNCHANGED <<src, boots>>

\* A restart takes the points of one node back to 0.
Restart ==
  /\ boots' = boots + 1
  /\ Newer
  /\ \A p \in Points : dst'[p] \in {0, dst[p]}

Next == TypeOK' /\ (Produce \/ Carry \/ Restart)

Spec == Init /\ [][Next]_vars
=============================================================================
