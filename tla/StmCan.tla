------------------------------- MODULE StmCan -------------------------------
(***************************************************************************)
(* How frames leave a slave with an STM32.  uavcan_flush (lib/uavcan_node) *)
(* hands libcanard's queue to uavcan_can_tx (slave/src/hal_stm32.c), which *)
(* fills the three transmit mailboxes of the controller.  libcanard, the   *)
(* controller, set up by can2_init, and the bus are external.              *)
(*                                                                         *)
(* The queue orders frames by their identifiers, so does the controller    *)
(* (TransmitFifoPriority is off), and so does the bus; but a frame that is *)
(* on the wire is not called back, and between frames of one identifier    *)
(* the controller goes by the number of the mailbox.                       *)
(***************************************************************************)
EXTENDS Naturals, Sequences, FiniteSetsExt, SequencesExt

CONSTANTS
  Mailboxes,    \* numbers of the mailboxes
  Ids,          \* identifiers; the smaller the more urgent
  MaxFrames,    \* bound: frames
  MaxTrouble    \* bound: errors, bus-offs, frames of other nodes and restarts

ASSUME SizesAssumption ==
  /\ Mailboxes \subseteq Nat /\ Mailboxes # {} /\ IsFiniteSet(Mailboxes)
  /\ Ids \subseteq Nat
  /\ MaxFrames \in Nat /\ MaxTrouble \in Nat

Free    == [id |-> 0, n |-> 0]           \* what a free mailbox holds
Numbers == 1..MaxFrames
Frames  == [id : Ids, n : Numbers]       \* n tells the frames apart

VARIABLES
  pc,              \* "work" or, in uavcan_flush, "flush"
  txq,             \* libcanard's queue
  restart_pending,
  box,             \* the mailboxes
  wire,            \* "idle", "ours": a mailbox is on the bus, "other": another node
  won,             \* the mailbox that is, or last was, on the bus
  off,             \* bus-off
  made,            \* (history) frames so far
  left,            \* (history) left[n]: how often frame n left, up to 2
  lost,            \* (history) frames a restart has lost
  passed,          \* (history) passed[n]: less urgent frames that left before n
  trouble          \* (history)

controller == <<box, wire, won, off>>
history    == <<made, left, lost, passed, trouble>>
vars == <<pc, txq, restart_pending, controller, history>>

Waiting == {b \in Mailboxes : box[b] # Free}
Pending == ToSet(txq) \cup {box[b] : b \in Waiting}

-----------------------------------------------------------------------------
(* The slave *)

EnqueueMistaken(q, f) == Append(q, f)

\* canardBroadcast and canardRequestOrRespond: after all that are as urgent.
Enqueue(q, f) == InsertAt(q, 1 + Quantify(DOMAIN q, LAMBDA i : q[i].id <= f.id), f)

\* A message, perhaps the answer to a RestartNode request; several with the same
\* identifier stand for one of several frames.
Send(id) ==
  /\ pc = "work" /\ made < MaxFrames
  /\ made' = made + 1
  /\ txq' = Enqueue(txq, [id |-> id, n |-> made + 1])
  /\ restart_pending' \in {restart_pending, TRUE}
  /\ UNCHANGED <<pc, controller, left, lost, passed, trouble>>

FlushBegin ==
  /\ pc = "work" /\ pc' = "flush"
  /\ UNCHANGED <<txq, restart_pending, controller, history>>

TransmitMistaken ==
  /\ pc = "flush" /\ txq # <<>>
  /\ box' = IF \E b \in Mailboxes : box[b] = Free
            THEN [box EXCEPT ![Min(Mailboxes \ Waiting)] = Head(txq)] ELSE box
  /\ txq' = Tail(txq)
  /\ UNCHANGED <<pc, restart_pending, wire, won, off, history>>

TransmitNoPop ==
  /\ pc = "flush" /\ txq # <<>> /\ Waiting # Mailboxes
  /\ box' = [box EXCEPT ![Min(Mailboxes \ Waiting)] = Head(txq)]
  /\ UNCHANGED <<pc, txq, restart_pending, wire, won, off, history>>

\* One turn of uavcan_flush: HAL_CAN_AddTxMessage takes the first free mailbox.
\* When there is none the loop tries the same frame again.
Transmit ==
  /\ pc = "flush" /\ txq # <<>> /\ Waiting # Mailboxes
  /\ box' = [box EXCEPT ![Min(Mailboxes \ Waiting)] = Head(txq)]
  /\ txq' = Tail(txq)
  /\ UNCHANGED <<pc, restart_pending, wire, won, off, history>>

Flushed ==
  /\ pc = "flush" /\ txq = <<>> /\ ~restart_pending
  /\ pc' = "work"
  /\ UNCHANGED <<txq, restart_pending, controller, history>>

RestartMistaken ==
  /\ pc = "flush" /\ restart_pending
  /\ pc' = "work" /\ restart_pending' = FALSE
  /\ lost' = lost \cup {f.n : f \in Pending}
  /\ txq' = <<>> /\ box' = [b \in Mailboxes |-> Free] /\ off' = FALSE
  /\ wire' = IF wire = "ours" THEN "idle" ELSE wire
  /\ UNCHANGED <<won, made, left, passed, trouble>>

\* uavcan_restart (NVIC_SystemReset) right after the flush: what the mailboxes
\* hold is lost, the answer to the request included; can2_init starts anew.
Restart ==
  /\ pc = "flush" /\ txq = <<>> /\ restart_pending
  /\ pc' = "work" /\ restart_pending' = FALSE
  /\ lost' = lost \cup {box[b].n : b \in Waiting}
  /\ box' = [b \in Mailboxes |-> Free] /\ off' = FALSE
  /\ wire' = IF wire = "ours" THEN "idle" ELSE wire
  /\ UNCHANGED <<txq, won, made, left, passed, trouble>>

Slave == FlushBegin \/ Transmit \/ Flushed \/ Restart

-----------------------------------------------------------------------------
(* The controller and the bus *)

First(b) == \A c \in Waiting : \/ box[b].id < box[c].id
                               \/ box[b].id = box[c].id /\ b <= c

WinMistaken ==
  /\ wire = "idle" /\ ~off
  /\ wire' = "ours" /\ won' \in {b \in Mailboxes : First(b)}
  /\ UNCHANGED <<pc, txq, restart_pending, box, off, history>>

\* Arbitration won: by the most urgent mailbox, of equals by the first.
Win ==
  /\ wire = "idle" /\ ~off
  /\ wire' = "ours" /\ won' \in {b \in Waiting : First(b)}
  /\ UNCHANGED <<pc, txq, restart_pending, box, off, history>>

\* The frame has left; the mailbox is free.
Left ==
  /\ wire = "ours"
  /\ LET f == box[won]
     IN  /\ left' = [left EXCEPT ![f.n] = IF @ < 2 THEN @ + 1 ELSE @]
         /\ passed' = [n \in Numbers |->
              IF \E g \in Pending : g.n = n /\ g.id < f.id THEN passed[n] + 1
              ELSE passed[n]]
  /\ box' = [box EXCEPT ![won] = Free] /\ wire' = "idle"
  /\ UNCHANGED <<pc, txq, restart_pending, won, off, made, lost, trouble>>

OtherLeft ==
  /\ wire = "other" /\ wire' = "idle"
  /\ UNCHANGED <<pc, txq, restart_pending, box, won, off, history>>

\* Another node is more urgent, or a frame is destroyed: AutoRetransmission makes
\* the mailbox compete again.
OtherWins ==
  /\ wire = "idle" /\ wire' = "other"
  /\ UNCHANGED <<box, won, off>>
Destroyed ==
  /\ wire = "ours" /\ wire' = "idle"
  /\ UNCHANGED <<box, won, off>>

\* AutoBusOff is off, and nothing in the code ends a bus-off.
BusOff ==
  /\ ~off /\ off' = TRUE
  /\ wire' = IF wire = "ours" THEN "idle" ELSE wire
  /\ UNCHANGED <<box, won>>

Trouble ==
  /\ trouble < MaxTrouble /\ trouble' = trouble + 1
  /\ OtherWins \/ Destroyed \/ BusOff
  /\ UNCHANGED <<pc, txq, restart_pending, made, left, lost, passed>>

Bus == Win \/ Left \/ OtherLeft

-----------------------------------------------------------------------------
Init ==
  /\ pc = "work" /\ txq = <<>> /\ restart_pending = FALSE
  /\ box = [b \in Mailboxes |-> Free] /\ wire = "idle" /\ won = Min(Mailboxes)
  /\ off = FALSE
  /\ made = 0 /\ left = [n \in Numbers |-> 0] /\ lost = {}
  /\ passed = [n \in Numbers |-> 0] /\ trouble = 0

Next == Slave \/ Bus \/ Trouble \/ \E id \in Ids : Send(id)

Spec == Init /\ [][Next]_vars

\* The loop of the slave runs, and the bus carries frames; other nodes and errors
\* are bounded.
LiveSpec == Spec /\ WF_vars(Slave) /\ WF_vars(Bus)

-----------------------------------------------------------------------------
(* Properties *)

TypeOK ==
  /\ pc \in {"work", "flush"} /\ txq \in Seq(Frames) /\ restart_pending \in BOOLEAN
  /\ box \in [Mailboxes -> Frames \cup {Free}] /\ won \in Mailboxes
  /\ wire \in {"idle", "ours", "other"} /\ off \in BOOLEAN
  /\ wire = "ours" => won \in Waiting /\ ~off
  /\ made \in 0..MaxFrames /\ trouble \in 0..MaxTrouble
  /\ left \in [Numbers -> 0..2] /\ passed \in [Numbers -> Nat] /\ lost \subseteq Numbers

(* Every frame is in the queue, in one mailbox, lost by a restart or has left,
   and is so once: a refused frame stays, a taken one is not sent again
   (uavcan_flush, uavcan_can_tx). *)
LeavesOnce ==
  \A n \in 1..made :
    left[n] + (IF n \in lost THEN 1 ELSE 0)
      + Quantify(DOMAIN txq, LAMBDA i : txq[i].n = n)
      + Quantify(Mailboxes, LAMBDA b : box[b].n = n) = 1

(* Mailboxes are filled with less urgent frames when a more urgent one comes, and
   their order is not that of the queue: it still waits for no more of them than
   there are mailboxes, whatever the bus does. *)
InversionBounded == \A n \in Numbers : passed[n] <= Cardinality(Mailboxes)

(* Why these hold.  The queue is sorted, no two frames have one number, and each is
   in one place.  A queued frame can be passed by the less urgent ones that are in
   mailboxes now, one in a mailbox by the one on the wire. *)
Sorted(q) == \A i, k \in DOMAIN q : i < k => q[i].id <= q[k].id

InQueue(n) == \E i \in DOMAIN txq : txq[i].n = n
InBox(n)   == \E b \in Waiting : box[b].n = n

Distinct == /\ \A i, k \in DOMAIN txq : txq[i].n = txq[k].n => i = k
            /\ \A b, c \in Waiting : box[b].n = box[c].n => b = c

OnePlace(n) ==
  /\ n <= made <=> InQueue(n) \/ InBox(n) \/ n \in lost \/ left[n] # 0
  /\ InQueue(n) => ~InBox(n)
  /\ InQueue(n) \/ InBox(n) => n \notin lost /\ left[n] = 0
  /\ n \in lost => left[n] = 0
  /\ left[n] <= 1

LessUrgent(id) == {b \in Waiting : box[b].id > id}
Ahead(id)      == IF wire = "ours" /\ box[won].id > id THEN 1 ELSE 0

Patience ==
  /\ \A n \in Numbers : n > made => passed[n] = 0
  /\ \A i \in DOMAIN txq :
       passed[txq[i].n] + Cardinality(LessUrgent(txq[i].id)) <= Cardinality(Mailboxes)
  /\ \A b \in Waiting : passed[box[b].n] + Ahead(box[b].id) <= Cardinality(Mailboxes)

\* The inductive invariant.
LeaveInv ==
  /\ TypeOK /\ Sorted(txq) /\ Distinct
  /\ \A n \in Numbers : OnePlace(n)
  /\ Patience /\ InversionBounded

(* A restart loses what was in the mailboxes only: a frame still in libcanard's
   queue is handed over first, the answer to the request among them. *)
RestartLosesLittle ==
  [][\A f \in Frames : f \in Pending /\ f.n \in lost' => f \in {box[b] : b \in Waiting}]_vars

(* uavcan_flush, which retries for ever, ends and lets the slave work on or
   restart, unless the bus is off: nothing brings that back. *)
FlushEnds == pc = "flush" ~> pc = "work" \/ off

(* All that is queued leaves, or is lost by a restart. *)
AllLeave == \A n \in Numbers : n <= made ~> left[n] > 0 \/ n \in lost \/ off
=============================================================================
