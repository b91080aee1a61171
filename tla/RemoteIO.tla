------------------------------ MODULE RemoteIO ------------------------------
(***************************************************************************)
(* The remote I/O of the PLC: the PLC task (plc.c) and the UAVCAN task     *)
(* (plc/src/uavcan_impl.c) run on one ESP32 and share the ext_* buffers    *)
(* without a lock; the UAVCAN task exchanges GetValues and SetValues       *)
(* transfers with the slaves (lib/uavcan_automation, slave/src).           *)
(*                                                                         *)
(* The content of a cell, of a pin and of a message is abstracted to the   *)
(* number of the event that produced it: an input value is the number of   *)
(* changes its pin had seen when it was read, an output value the number   *)
(* of the scan (or PLC boot) that wrote it, and 0 stands for "off, as      *)
(* after a reset".                                                         *)
(***************************************************************************)
EXTENDS Integers, Sequences, FiniteSets

CONSTANTS
  Slaves,      \* node ids of the slaves on the bus
  Plc,         \* node id of the PLC
  NumCh,       \* NumCh[s, g]: how many channels of group g slave s has
  Blocks,      \* Blocks[g]: the UAVCAN_*_BLOCKS of group g, in order
  ExtSize,     \* EXT_BUFF_SIZE: cells in each ext_* buffer
  InVars,      \* located remote input variables, in update_inputs order
  OutVars,     \* located remote output variables, in update_outputs order
  PoolCap,     \* frames libcanard's memory pool of a node can queue
  RxCap,       \* RxCap[n]: frames the CAN receive queue of node n holds
  Overwrites,  \* slaves whose full receive FIFO overwrites its newest frame
  MaxScan,     \* bound: scans and PLC boots
  MaxPin,      \* bound: changes of one input pin
  MaxRestart   \* bound: restarts of nodes

-----------------------------------------------------------------------------
InGroups  == {"DI", "AI"}
OutGroups == {"DO", "AO"}
Groups    == InGroups \cup OutGroups
Nodes     == Slaves \cup {Plc}
Byte      == 0..255

\* The groups in the order in which one I/O cycle of uavcan_task serves
\* them; phase 5 is the uavcan_update that ends every turn of its loop.
PhaseGroup == <<"DI", "AI", "DO", "AO">>
LastPhase  == 5

\* AUTOMATION_DIGITALVALUES_VALUES_LENGTH, AUTOMATION_ANALOGVALUES_VALUES_LENGTH
MaxLen(g) == IF g \in {"DI", "DO"} THEN 32 ELSE 2

BlockType == [node : Nat, index : Byte, len : 1..32]
Cells     == Groups \X (0..(ExtSize - 1))

\* connect_buffers: a block starts where the blocks before it end; the
\* running index is a uint8_t.
Offset ==
  [g \in Groups |->
     LET off[b \in DOMAIN Blocks[g]] ==
           IF b = 1 THEN 0 ELSE (off[b - 1] + Blocks[g][b - 1].len) % 256
     IN  off]

\* The cell of the j-th value (from 0) of the b-th block of group g.
Cell(g, b, j) == <<g, Offset[g][b] + j>>

\* All values of all blocks: of the inputs, and of the outputs.
BlockCells(G) ==
  UNION {UNION {{<<g, b, j>> : j \in 0..(Blocks[g][b].len - 1)}
                  : b \in DOMAIN Blocks[g]} : g \in G}
InBlockCells  == BlockCells(InGroups)
OutBlockCells == BlockCells(OutGroups)

\* The channels of the slaves.
Pins == {p \in Slaves \X Groups \X Byte : p[3] < NumCh[<<p[1], p[2]>>]}

\* The channel a block value stands for (start_index + i is cut to a uint8_t).
Channel(bc) == <<Blocks[bc[1]][bc[2]].node, bc[1],
                 (Blocks[bc[1]][bc[2]].index + bc[3]) % 256>>

ASSUME NodesAssumption ==
  /\ Slaves \subseteq Nat /\ Plc \in Nat \ Slaves
  /\ NumCh \in [Slaves \X Groups -> 0..256]
  /\ Overwrites \subseteq Slaves

ASSUME LayoutAssumption ==
  /\ ExtSize \in Nat
  /\ Blocks \in [Groups -> Seq(BlockType)]
  /\ \A g \in Groups : \A b \in DOMAIN Blocks[g] :
       /\ Blocks[g][b].len <= MaxLen(g)
       /\ \A j \in 0..(Blocks[g][b].len - 1) : Cell(g, b, j) \in Cells
  /\ InVars \in Seq(InGroups \X (0..(ExtSize - 1)))
  /\ OutVars \in Seq(OutGroups \X (0..(ExtSize - 1)))

\* No two output values drive the same channel, and no output block runs past
\* the last channel number.
ASSUME OutputsAssumption ==
  /\ \A bc, bd \in OutBlockCells : Channel(bc) = Channel(bd) => bc = bd
  /\ \A g \in OutGroups : \A b \in DOMAIN Blocks[g] :
       Blocks[g][b].index + Blocks[g][b].len <= 256

\* No two input values share a cell: the running index of connect_buffers does
\* not wrap.
ASSUME InputsAssumption ==
  \A bc, bd \in InBlockCells :
    Cell(bc[1], bc[2], bc[3]) = Cell(bd[1], bd[2], bd[3]) => bc = bd

ASSUME BoundsAssumption ==
  /\ PoolCap \in Nat /\ RxCap \in [Nodes -> Nat \ {0}]
  /\ MaxScan \in Nat /\ MaxPin \in Nat /\ MaxRestart \in Nat

VARIABLES
  ext,       \* ext_dis, ext_ais, ext_dos, ext_aos: the shared buffers
  scanNo,    \* number of the scan in progress, or of the last one
  scanPc,    \* where plc_task is: "idle", "in" (update_inputs) or "out"
  pos,       \* the located variable its loop has reached
  img,       \* the program's located remote inputs
  phase,     \* where uavcan_task is in its cycle: a group, or LastPhase
  comPc,     \* "send", or a step of uavcan_update: "rx", "store", "tx"
  blk,       \* the block its loop has reached, or the one being stored
  rgrp,      \* the group of the response being stored
  buf,       \* values copied so far for a SetValues, or left to store
  txq,       \* libcanard's queue of each node
  rxq,       \* frames each node's CAN driver has received
  slavePc,   \* step of uavcan_update each slave is in: "rx" or "tx"
  pin,       \* the slaves' input and output channels
  restarts   \* how many times a node has restarted

plcVars   == <<scanNo, scanPc, pos, img>>
comVars   == <<phase, comPc, blk, rgrp, buf>>
slaveVars == <<slavePc, pin>>
vars      == <<ext, plcVars, comVars, txq, rxq, slaveVars, restarts>>

-----------------------------------------------------------------------------
(* The PLC task *)

ScanStart ==
  /\ scanPc = "idle" /\ scanNo < MaxScan
  /\ scanPc' = "in" /\ pos' = 1 /\ scanNo' = scanNo + 1
  /\ UNCHANGED <<ext, img, comVars, txq, rxq, slaveVars, restarts>>

\* update_inputs copies one shared cell at a time.
ScanInput ==
  /\ scanPc = "in" /\ pos \in DOMAIN InVars
  /\ img' = [img EXCEPT ![pos] = ext[InVars[pos]]]
  /\ pos' = pos + 1
  /\ UNCHANGED <<ext, scanNo, scanPc, comVars, txq, rxq, slaveVars, restarts>>

\* config_run__ computes the outputs of this scan.
ScanRun ==
  /\ scanPc = "in" /\ pos \notin DOMAIN InVars
  /\ scanPc' = (IF OutVars = <<>> THEN "idle" ELSE "out") /\ pos' = 1
  /\ UNCHANGED <<ext, scanNo, img, comVars, txq, rxq, slaveVars, restarts>>

\* update_outputs writes one shared cell at a time.
ScanOutput ==
  /\ scanPc = "out"
  /\ ext' = [ext EXCEPT ![OutVars[pos]] = scanNo]
  /\ IF pos = Len(OutVars) THEN scanPc' = "idle" /\ pos' = 1
                           ELSE pos' = pos + 1 /\ UNCHANGED scanPc
  /\ UNCHANGED <<scanNo, img, comVars, txq, rxq, slaveVars, restarts>>

PlcTask == ScanStart \/ ScanInput \/ ScanRun \/ ScanOutput

-----------------------------------------------------------------------------
(* Frames *)

GetFrame(to, g, index, len, port) ==
  [kind |-> "get", to |-> to, grp |-> g, index |-> index, len |-> len,
   port |-> port]

RespFrame(from, g, index, ok, vals) ==
  [kind |-> "resp", from |-> from, grp |-> g, index |-> index, ok |-> ok,
   vals |-> vals]

SetFrame(to, g, index, vals) ==
  [kind |-> "set", to |-> to, grp |-> g, index |-> index, vals |-> vals]

\* The definitions named ...Mistaken are what a plausible mistake would make of
\* the definition after them; each breaks one of the properties below.
EnqueueMistakenOrder(n, f) ==
  txq' = IF Len(txq[n]) < PoolCap THEN [txq EXCEPT ![n] = <<f>> \o @] ELSE txq

EnqueueMistakenSize(n, f) == txq' = [txq EXCEPT ![n] = Append(@, f)]

\* canardBroadcast and canardRequestOrRespond: a frame that finds the memory
\* pool used up is dropped and the caller gets an error, which it only logs.
Enqueue(n, f) ==
  txq' = IF Len(txq[n]) < PoolCap THEN [txq EXCEPT ![n] = Append(@, f)]
                                  ELSE txq

\* The receive queue of node n after frame f has arrived.
Received(n, f) ==
  IF Len(rxq[n]) < RxCap[n] THEN Append(rxq[n], f)
  ELSE IF n \in Overwrites THEN [rxq[n] EXCEPT ![Len(rxq[n])] = f]
  ELSE rxq[n]

Receivers(f) == CASE f.kind = "get"  -> {f.to} \cap Slaves
                  [] f.kind = "resp" -> {Plc}
                  [] f.kind = "set"  -> Slaves

\* One frame of uavcan_flush: on the bus every receiver gets it, or it is
\* lost (dropped by a bus-off recovery, or refused by the AVR's controller,
\* whose answer hal_avr.cpp does not look at).
Deliver(n) ==
  /\ txq[n] # <<>>
  /\ txq' = [txq EXCEPT ![n] = Tail(@)]
  /\ rxq' = [m \in Nodes |-> IF m \in Receivers(Head(txq[n]))
                              THEN Received(m, Head(txq[n])) ELSE rxq[m]]

Lose(n) ==
  /\ txq[n] # <<>>
  /\ txq' = [txq EXCEPT ![n] = Tail(@)]
  /\ UNCHANGED rxq

-----------------------------------------------------------------------------
(* The UAVCAN task *)

Grp      == PhaseGroup[phase]
MyBlocks == Blocks[Grp]

\* The task begins phase p: it sends for the blocks of the group, if there are
\* any, and calls uavcan_update.
FirstPc(p) == IF p < LastPhase /\ Blocks[PhaseGroup[p]] # <<>> THEN "send" ELSE "rx"
BeginPhase(p) == phase' = p /\ comPc' = FirstPc(p) /\ blk' = 1

\* After the last phase the task turns its loop, and finds the I/O period over
\* (phase 1) or not.
TurnPhases == {1, LastPhase}
NextPhase ==
  \/ phase < LastPhase /\ BeginPhase(phase + 1)
  \/ phase = LastPhase /\ \E p \in TurnPhases : BeginPhase(p)

\* The loop over the blocks of a group goes on, or ends in uavcan_update.
NextBlock ==
  IF blk = Len(MyBlocks) THEN blk' = 1 /\ comPc' = "rx"
                         ELSE blk' = blk + 1 /\ UNCHANGED comPc

\* automation_send_get_dis, _ais.  send_get_values never assigns the port type
\* of the request it encodes, so the receiver may decode either port.
SendGet ==
  /\ comPc = "send" /\ Grp \in InGroups
  /\ \E port \in {"INPUT", "OUTPUT"} :
       Enqueue(Plc, GetFrame(MyBlocks[blk].node, Grp, MyBlocks[blk].index,
                             MyBlocks[blk].len, port))
  /\ NextBlock
  /\ UNCHANGED <<ext, plcVars, phase, rgrp, buf, rxq, slaveVars, restarts>>

CopyCellMistaken ==
  /\ comPc = "send" /\ Grp \in OutGroups /\ Len(buf) < MyBlocks[blk].len
  /\ buf' = <<ext[Cell(Grp, blk, MyBlocks[blk].len - 1 - Len(buf))]>> \o buf
  /\ UNCHANGED <<ext, plcVars, phase, comPc, blk, rgrp, txq, rxq, slaveVars,
                 restarts>>

\* automation_send_set_dos, _aos copy the block out of the shared buffer one
\* value at a time ...
CopyCell ==
  /\ comPc = "send" /\ Grp \in OutGroups
  /\ Len(buf) < MyBlocks[blk].len
  /\ buf' = Append(buf, ext[Cell(Grp, blk, Len(buf))])
  /\ UNCHANGED <<ext, plcVars, phase, comPc, blk, rgrp, txq, rxq, slaveVars,
                 restarts>>

\* ... and then broadcast it.
SendSet ==
  /\ comPc = "send" /\ Grp \in OutGroups
  /\ Len(buf) = MyBlocks[blk].len
  /\ Enqueue(Plc, SetFrame(MyBlocks[blk].node, Grp, MyBlocks[blk].index, buf))
  /\ NextBlock /\ buf' = <<>>
  /\ UNCHANGED <<ext, plcVars, phase, rgrp, rxq, slaveVars, restarts>>

MatchingMistaken(f) ==
  {b \in DOMAIN Blocks[f.grp] :
     /\ Blocks[f.grp][b].node = f.from /\ Blocks[f.grp][b].index = f.index
     /\ Blocks[f.grp][b].len < Len(f.vals)}

\* The blocks a GetValues response is for.
Matching(f) ==
  {b \in DOMAIN Blocks[f.grp] :
     /\ Blocks[f.grp][b].node = f.from
     /\ Blocks[f.grp][b].index = f.index
     /\ Blocks[f.grp][b].len = Len(f.vals)}

\* One frame of uavcan_update's receive loop.  An error response, and one that
\* fits no block, is logged and dropped.
ComRxDrop ==
  /\ comPc = "rx" /\ rxq[Plc] # <<>>
  /\ LET f == Head(rxq[Plc]) IN ~f.ok \/ Matching(f) = {}
  /\ rxq' = [rxq EXCEPT ![Plc] = Tail(@)]
  /\ UNCHANGED <<ext, plcVars, comVars, txq, slaveVars, restarts>>

\* automation_on_get_dis_response, _ais: the first block that fits takes the
\* values ...
ComRx ==
  /\ comPc = "rx" /\ rxq[Plc] # <<>>
  /\ LET f == Head(rxq[Plc])
     IN  /\ f.ok /\ Matching(f) # {}
         /\ rgrp' = f.grp /\ buf' = f.vals
         /\ blk' \in Matching(f) /\ \A c \in Matching(f) : blk' <= c
  /\ rxq' = [rxq EXCEPT ![Plc] = Tail(@)]
  /\ comPc' = "store"
  /\ UNCHANGED <<ext, plcVars, phase, txq, slaveVars, restarts>>

\* ... one at a time.
StoreCell ==
  /\ comPc = "store"
  /\ ext' = [ext EXCEPT
       ![Cell(rgrp, blk, Blocks[rgrp][blk].len - Len(buf))] = Head(buf)]
  /\ buf' = Tail(buf)
  /\ IF Len(buf) = 1 THEN comPc' = "rx" /\ blk' = 1 /\ rgrp' = "DI"
                     ELSE UNCHANGED <<comPc, blk, rgrp>>
  /\ UNCHANGED <<plcVars, phase, txq, rxq, slaveVars, restarts>>

\* The receive loop ends, and the update too when there is nothing to flush.
ComRxEmpty ==
  /\ comPc = "rx" /\ rxq[Plc] = <<>>
  /\ IF txq[Plc] = <<>> THEN NextPhase
                        ELSE comPc' = "tx" /\ UNCHANGED <<phase, blk>>
  /\ UNCHANGED <<ext, plcVars, rgrp, buf, txq, rxq, slaveVars, restarts>>

\* uavcan_flush
ComTx ==
  /\ comPc = "tx" /\ (Deliver(Plc) \/ Lose(Plc))
  /\ IF Len(txq[Plc]) = 1 THEN NextPhase ELSE UNCHANGED <<phase, comPc, blk>>
  /\ UNCHANGED <<ext, plcVars, rgrp, buf, slaveVars, restarts>>

UavcanTask ==
  \/ SendGet \/ CopyCell \/ SendSet
  \/ ComRxDrop \/ ComRx \/ StoreCell \/ ComRxEmpty \/ ComTx

-----------------------------------------------------------------------------
(* A slave: its main loop runs uavcan_update over and over *)

\* handle_GetValues_req and automation_get_dis, _ais: nothing is answered to a
\* request for outputs, an error to one for a channel that does not exist.
Answers(s, f) ==
  LET chan(j) == <<s, f.grp, (f.index + j - 1) % 256>>
      ok      == f.len <= MaxLen(f.grp) /\ \A j \in 1..f.len : chan(j) \in Pins
  IN  IF f.port # "INPUT" THEN {}
      ELSE {RespFrame(s, f.grp, f.index, ok,
                      IF ok THEN [j \in 1..f.len |-> pin[chan(j)]] ELSE <<>>)}

SlaveGet(s) ==
  /\ slavePc[s] = "rx" /\ rxq[s] # <<>> /\ Head(rxq[s]).kind = "get"
  /\ \/ Answers(s, Head(rxq[s])) = {} /\ UNCHANGED txq
     \/ \E r \in Answers(s, Head(rxq[s])) : Enqueue(s, r)
  /\ rxq' = [rxq EXCEPT ![s] = Tail(@)]
  /\ UNCHANGED <<ext, plcVars, comVars, slaveVars, restarts>>

SetPinMistaken(s, f, k) == <<s, f.grp, (f.index + k) % 256>>

\* The pin for the k-th value of a SetValues frame.
SetPin(s, f, k) == <<s, f.grp, (f.index + k - 1) % 256>>

AppliedMistakenNode(s, f) ==
  {k \in DOMAIN f.vals : \A i \in 1..k : SetPin(s, f, i) \in Pins}

AppliedMistakenEnd(s, f) ==
  {k \in DOMAIN f.vals : f.to = s /\ \A i \in 1..(k + 1) : SetPin(s, f, i) \in Pins}

\* The values that reach their pins: those before the first channel the slave
\* does not have.
Applied(s, f) ==
  {k \in DOMAIN f.vals : f.to = s /\ \A i \in 1..k : SetPin(s, f, i) \in Pins}

\* handle_SetValues and automation_set_dos, _aos
SlaveSet(s) ==
  /\ slavePc[s] = "rx" /\ rxq[s] # <<>> /\ Head(rxq[s]).kind = "set"
  /\ LET f == Head(rxq[s])
         K(p) == {k \in Applied(s, f) : SetPin(s, f, k) = p}
     IN  pin' = [p \in Pins |-> IF K(p) = {} THEN pin[p]
                                ELSE f.vals[CHOOSE k \in K(p) : TRUE]]
  /\ rxq' = [rxq EXCEPT ![s] = Tail(@)]
  /\ UNCHANGED <<ext, plcVars, comVars, txq, slavePc, restarts>>

\* The receive loop ends, with responses to flush.
SlaveRxEmpty(s) ==
  /\ slavePc[s] = "rx" /\ rxq[s] = <<>> /\ txq[s] # <<>>
  /\ slavePc' = [slavePc EXCEPT ![s] = "tx"]
  /\ UNCHANGED <<ext, plcVars, comVars, txq, rxq, pin, restarts>>

SlaveTx(s) ==
  /\ slavePc[s] = "tx" /\ (Deliver(s) \/ Lose(s))
  /\ slavePc' = [slavePc EXCEPT ![s] = IF Len(txq[s]) = 1 THEN "rx" ELSE "tx"]
  /\ UNCHANGED <<ext, plcVars, comVars, pin, restarts>>

SlaveLoop(s) ==
  SlaveGet(s) \/ SlaveSet(s) \/ SlaveRxEmpty(s) \/ SlaveTx(s)

-----------------------------------------------------------------------------
(* The environment *)

InPins  == {p \in Pins : p[2] \in InGroups}
OutPins == Pins \ InPins

PinChange ==
  \E p \in InPins :
    /\ pin[p] < MaxPin
    /\ pin' = [pin EXCEPT ![p] = @ + 1]
    /\ UNCHANGED <<ext, plcVars, comVars, txq, rxq, slavePc, restarts>>

\* A slave restarts (power, RestartNode): io_init switches its outputs off.
SlaveRestart(s) ==
  /\ restarts < MaxRestart /\ restarts' = restarts + 1
  /\ pin' = [p \in Pins |-> IF p[1] = s /\ p \in OutPins THEN 0 ELSE pin[p]]
  /\ slavePc' = [slavePc EXCEPT ![s] = "rx"]
  /\ txq' = [txq EXCEPT ![s] = <<>>] /\ rxq' = [rxq EXCEPT ![s] = <<>>]
  /\ UNCHANGED <<ext, plcVars, comVars>>

\* The PLC restarts (hal_restart, die): all its buffers are zero again, which
\* for the outputs is a new value, written by the boot.
PlcRestart ==
  /\ restarts < MaxRestart /\ restarts' = restarts + 1
  /\ scanNo < MaxScan /\ scanNo' = scanNo + 1
  /\ ext' = [c \in Cells |-> IF c[1] \in OutGroups THEN scanNo' ELSE 0]
  /\ scanPc' = "idle" /\ pos' = 1 /\ img' = [v \in DOMAIN InVars |-> 0]
  /\ \E p \in TurnPhases : BeginPhase(p)
  /\ rgrp' = "DI" /\ buf' = <<>>
  /\ txq' = [txq EXCEPT ![Plc] = <<>>] /\ rxq' = [rxq EXCEPT ![Plc] = <<>>]
  /\ UNCHANGED slaveVars

-----------------------------------------------------------------------------
Init ==
  /\ ext = [c \in Cells |-> 0]
  /\ scanNo = 0 /\ scanPc = "idle" /\ pos = 1
  /\ img = [v \in DOMAIN InVars |-> 0]
  /\ phase \in TurnPhases /\ comPc = FirstPc(phase) /\ blk = 1
  /\ rgrp = "DI" /\ buf = <<>>
  /\ txq = [n \in Nodes |-> <<>>] /\ rxq = [n \in Nodes |-> <<>>]
  /\ slavePc = [s \in Slaves |-> "rx"]
  /\ pin = [p \in Pins |-> 0]
  /\ restarts = 0

Next ==
  \/ PlcTask
  \/ UavcanTask
  \/ \E s \in Slaves : SlaveLoop(s) \/ SlaveRestart(s)
  \/ PinChange
  \/ PlcRestart

Spec == Init /\ [][Next]_vars

-----------------------------------------------------------------------------
(* Properties *)

Requests  == [kind : {"get"}, to : Nat, grp : InGroups, index : Byte,
              len : 1..32, port : {"INPUT", "OUTPUT"}]
Commands  == [kind : {"set"}, to : Nat, grp : OutGroups, index : Byte,
              vals : Seq(Nat)]
Responses == [kind : {"resp"}, from : Slaves, grp : InGroups, index : Byte,
              ok : BOOLEAN, vals : Seq(Nat)]

FromPlc   == Requests \cup Commands

\* Frames of set P go from the PLC to the slaves, those of R the other way,
\* and no queue outgrows its node's memory.
TxOK(P, R) == /\ txq \in [Nodes -> Seq(P \cup R)]
              /\ txq[Plc] \in Seq(P) /\ \A s \in Slaves : txq[s] \in Seq(R)
RxOK(P, R) == /\ rxq \in [Nodes -> Seq(P \cup R)]
              /\ rxq[Plc] \in Seq(R) /\ \A s \in Slaves : rxq[s] \in Seq(P)
TxBounded  == \A n \in Nodes : Len(txq[n]) <= PoolCap
RxBounded  == \A n \in Nodes : Len(rxq[n]) <= RxCap[n]

QueuesOK(P, R) == TxOK(P, R) /\ RxOK(P, R) /\ TxBounded /\ RxBounded

\* The two tasks' own state.
PlcOK ==
  /\ scanNo \in 0..MaxScan /\ scanPc \in {"idle", "in", "out"}
  /\ pos \in Nat \ {0} /\ (scanPc = "out" => pos \in DOMAIN OutVars)
  /\ img \in [DOMAIN InVars -> Nat]

ComOK ==
  /\ phase \in 1..LastPhase /\ comPc \in {"send", "rx", "store", "tx"}
  /\ blk \in Nat \ {0} /\ rgrp \in InGroups /\ buf \in Seq(Nat)
  /\ comPc = "send" => /\ phase # LastPhase /\ blk \in DOMAIN MyBlocks
                       /\ Grp \in InGroups => Len(buf) = 0
                       /\ Len(buf) <= MyBlocks[blk].len
  /\ comPc = "store" => /\ blk \in DOMAIN Blocks[rgrp] /\ Len(buf) > 0
                        /\ Len(buf) <= Blocks[rgrp][blk].len
  /\ comPc \in {"rx", "tx"} => Len(buf) = 0

\* The type invariant.  It says which frames travel which way, that no queue
\* outgrows its node's memory, and that every cell either task is about to
\* touch lies inside the shared buffers ("TODO: check bounds" in plc.c).
TypeOK ==
  /\ ext \in [Cells -> Nat]
  /\ PlcOK
  /\ ComOK
  /\ QueuesOK(FromPlc, Responses)
  /\ slavePc \in [Slaves -> {"rx", "tx"}]
  /\ pin \in [Pins -> Nat]
  /\ restarts \in 0..MaxRestart

\* Does the program drive the value?
Driven(bc) == \E v \in DOMAIN OutVars : OutVars[v] = Cell(bc[1], bc[2], bc[3])

\* The UAVCAN task copies a block while the PLC task may be writing it, so a
\* slave can show a mixture of scans.  The mixture is bounded: of two outputs
\* of one block, the later one is never more than one scan older than the
\* earlier one (update_outputs against the copy in automation_send_set_dos).
SkewBounded ==
  \A bc, bd \in OutBlockCells :
    /\ bc[1] = bd[1] /\ bc[2] = bd[2] /\ bc[3] < bd[3] /\ Driven(bd)
    /\ Channel(bd) \in Pins
    => pin[Channel(bd)] >= pin[Channel(bc)] - 1

\* An output channel that no configured block names is never driven: the
\* node id, index and prefix rules keep every SetValues frame to its own pins
\* (handle_SetValues, automation_set_dos, automation_set_aos).
OnlyConfiguredDriven ==
  \A p \in OutPins : pin[p] # 0 => \E bc \in OutBlockCells : Channel(bc) = p

\* Why both hold.  Every driven output is from this scan or the last, and what
\* is being copied is no newer than the scan at the time; the same then goes
\* for every command on its way, and each of them is for a configured block.
OutputsFresh ==
  /\ \A c \in Cells : c[1] \in OutGroups => ext[c] <= scanNo
  /\ \A v \in DOMAIN OutVars :
       /\ ext[OutVars[v]] >= scanNo - 1
       /\ scanPc = "idle" \/ (scanPc = "out" /\ v < pos) => ext[OutVars[v]] = scanNo

SkewIn(g, b, vals) ==
  \A i, k \in DOMAIN vals :
    i < k /\ Driven(<<g, b, k - 1>>) => vals[k] >= vals[i] - 1

CopyOK == comPc = "send" => /\ \A i \in DOMAIN buf : buf[i] <= scanNo
                            /\ SkewIn(Grp, blk, buf)

IsBlockCommand(f, b) ==
  /\ f.to = Blocks[f.grp][b].node /\ f.index = Blocks[f.grp][b].index
  /\ Len(f.vals) = Blocks[f.grp][b].len
  /\ SkewIn(f.grp, b, f.vals)
BlockCommands == {f \in Commands : \E b \in DOMAIN Blocks[f.grp] : IsBlockCommand(f, b)}

\* The inductive invariant.
SkewInv ==
  /\ TypeOK /\ OutputsFresh /\ CopyOK
  /\ QueuesOK(Requests \cup BlockCommands, Responses)
  /\ OnlyConfiguredDriven /\ SkewBounded

\* Why values stay in order.  Those of one block value that are under way form a
\* chain: none is smaller than one that is further on its way.  e is the newest
\* one, at the source, out and in are the queues of the sender and of the receiver,
\* and p is what has arrived.
IsFor(f, bc) ==
  /\ f.grp = bc[1]
  /\ \/ f.kind = "set" /\ IsBlockCommand(f, bc[2])
     \/ f.kind = "resp" /\ bc[2] \in Matching(f)
Value(f, bc) == f.vals[bc[3] + 1]

AtLeast(q, x, bc) == \A i \in DOMAIN q : IsFor(q[i], bc) => x <= Value(q[i], bc)
AtMost(q, x, bc)  == \A i \in DOMAIN q : IsFor(q[i], bc) => Value(q[i], bc) <= x
Rising(q, bc) ==
  \A i, k \in DOMAIN q :
    i < k /\ IsFor(q[i], bc) /\ IsFor(q[k], bc) => Value(q[i], bc) <= Value(q[k], bc)

Chain(p, in, out, e, bc) ==
  /\ p <= e
  /\ Rising(in, bc) /\ AtLeast(in, p, bc) /\ AtMost(in, e, bc)
  /\ Rising(out, bc) /\ AtLeast(out, p, bc) /\ AtMost(out, e, bc)
  /\ \A k \in DOMAIN out : IsFor(out[k], bc) => AtMost(in, Value(out[k], bc), bc)

\* Outputs go from the cell, or from its copy, to the pin.
ChainTo(x, bc) == Chain(pin[Channel(bc)], rxq[Channel(bc)[1]], txq[Plc], x, bc)
Copied(bc)     == comPc = "send" /\ Grp = bc[1] /\ blk = bc[2] /\ bc[3] < Len(buf)

Ordered(bc) ==
  LET e == ext[Cell(bc[1], bc[2], bc[3])]
      x == buf[bc[3] + 1]
  IN  ChainTo(e, bc) /\ (Copied(bc) => x <= e /\ ChainTo(x, bc))

OutputsOrdered == \A bc \in OutBlockCells : Channel(bc) \in Pins => Ordered(bc)

\* Inputs go from the pin to the cell, the last step by way of buf, and from there
\* to the program's variables.
ChainFrom(x, bc) == Chain(x, rxq[Plc], txq[Channel(bc)[1]], pin[Channel(bc)], bc)
Stored(bc)       == Blocks[bc[1]][bc[2]].len - Len(buf)
Storing(bc)      == comPc = "store" /\ rgrp = bc[1] /\ blk = bc[2] /\ bc[3] >= Stored(bc)

InOrdered(bc) ==
  LET e == ext[Cell(bc[1], bc[2], bc[3])]
      y == buf[bc[3] - Stored(bc) + 1]
  IN  /\ ChainFrom(e, bc) /\ (Storing(bc) => e <= y /\ ChainFrom(y, bc))
      /\ \A v \in DOMAIN InVars : InVars[v] = Cell(bc[1], bc[2], bc[3]) => img[v] <= e

OwnAnswers == \A s \in Slaves : \A i \in DOMAIN txq[s] : txq[s][i].from = s

InputsOrdered ==
  OwnAnswers /\ \A bc \in InBlockCells : Channel(bc) \in Pins => InOrdered(bc)

\* Every request on its way asks for inputs, as the comments in uavcan_task
\* (uavcan_impl.c:80, "ask for digital inputs") say.
RequestsAskForInputs ==
  \A n \in Nodes : \A i \in DOMAIN txq[n] :
    txq[n][i].kind = "get" => txq[n][i].port = "INPUT"

-----------------------------------------------------------------------------
(* The remote I/O implements IoImage, in both directions *)

\* Outputs: from a cell of the shared buffer to the pin of a slave.
OutPoint(bc) == [cell |-> Cell(bc[1], bc[2], bc[3]), pin |-> Channel(bc)]
OutPoints == {OutPoint(bc) : bc \in {bd \in OutBlockCells : Channel(bd) \in Pins}}
OutputsImage ==
  INSTANCE IoImage WITH
    Points <- OutPoints,
    src    <- [p \in OutPoints |-> ext[p.cell]],
    dst    <- [p \in OutPoints |-> pin[p.pin]],
    boots  <- restarts

\* A slave's outputs are a late but ordered image of the shared buffer: the
\* promise of IoImage holds across lost frames, full queues and restarts.
OutputsInOrder == OutputsImage!Spec

\* Inputs: from the pin of a slave, by way of the block that has the cell, to the
\* program's variable.
InPoints ==
  {[pin |-> Channel(p[1]), var |-> p[2]] :
     p \in {q \in InBlockCells \X DOMAIN InVars :
             /\ Channel(q[1]) \in Pins
             /\ InVars[q[2]] = Cell(q[1][1], q[1][2], q[1][3])}}
InputsImage ==
  INSTANCE IoImage WITH
    Points <- InPoints,
    src    <- [p \in InPoints |-> pin[p.pin]],
    dst    <- [p \in InPoints |-> img[p.var]],
    boots  <- restarts

\* The program's remote inputs are a late but ordered image of the pins of the
\* slaves: update_inputs never sees an older answer after a newer one.
InputsInOrder == InputsImage!Spec

-----------------------------------------------------------------------------
(* Liveness *)

\* The I/O period (common_ticktime__) is long enough for the slaves to be done
\* with one cycle before the next begins.
Prompt ==
  phase = LastPhase /\ phase' = 1 =>
    \A s \in Slaves : rxq[s] = <<>> /\ txq[s] = <<>>

\* Both tasks and every slave's loop keep running and the I/O period ends again
\* and again; the bus does not lose the frames of one block for ever, nor does
\* the uninitialised port type of its requests read "OUTPUT" for ever.
IsAbout(f, g, b) ==
  /\ f.kind \in {"get", "set"} /\ f.grp = g
  /\ f.to = Blocks[g][b].node /\ f.index = Blocks[g][b].index
  /\ f.kind = "get" => f.port = "INPUT"

BlockFairness(g, b) ==
  /\ SF_vars(SendGet /\ Grp = g /\ blk = b
              /\ \E i \in DOMAIN txq'[Plc] : IsAbout(txq'[Plc][i], g, b))
  /\ SF_vars(ComTx /\ Deliver(Plc) /\ IsAbout(Head(txq[Plc]), g, b))

Fairness ==
  /\ WF_vars(PlcTask) /\ WF_vars(UavcanTask)
  /\ SF_vars(UavcanTask /\ phase = LastPhase /\ phase' = 1)
  /\ \A g \in Groups : \A b \in DOMAIN Blocks[g] : BlockFairness(g, b)
  /\ \A s \in Slaves : WF_vars(SlaveLoop(s)) /\ SF_vars(SlaveTx(s) /\ Deliver(s))

LiveSpec == Init /\ [][Next /\ Prompt]_vars /\ Fairness

\* Once the program stops writing them, the outputs reach the slaves' pins,
\* whatever frames were lost and whichever nodes restarted before.
OutputsArrive == \A p \in OutPoints : <>[](pin[p.pin] = ext[p.cell])

\* Once the pins stop changing, the shared buffer shows their values.
InputsArrive ==
  \A bc \in {bc \in InBlockCells : Channel(bc) \in Pins} :
    <>[](ext[Cell(bc[1], bc[2], bc[3])] = pin[Channel(bc)])
=============================================================================
