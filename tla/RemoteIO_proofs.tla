--------------------------- MODULE RemoteIO_proofs ---------------------------
(* Theorems about RemoteIO, for every configuration of blocks and slaves:   *)
(* TypeOK is inductive; so is SkewInv, and with it SkewBounded and          *)
(* OnlyConfiguredDriven hold.  With OutputsOrdered and InputsOrdered, which *)
(* every step keeps, each step maps to a step of IoImage or to none: the    *)
(* outputs implement it, and so do the inputs.                              *)
EXTENDS RemoteIO, SequenceTheorems, TLAPS

-----------------------------------------------------------------------------
(* The constants *)

LEMMA NodeFacts ==
  Plc \in Nodes /\ Plc \notin Slaves /\ Slaves \subseteq Nodes
BY NodesAssumption DEF Nodes

LEMMA BlockTypeFacts ==
  ASSUME NEW x \in BlockType
  PROVE  /\ x.len \in 1..32 /\ 0 <= x.len
         /\ x.node \in Nat /\ x.index \in Byte /\ x.index \in Int
BY DEF BlockType, Byte

\* A block of a group, and the cells of its values.
LEMMA BlockFacts ==
  ASSUME NEW g \in Groups, NEW b \in DOMAIN Blocks[g]
  PROVE  /\ Blocks[g][b] \in BlockType
         /\ Blocks[g][b].len \in 1..32 /\ 0 <= Blocks[g][b].len
         /\ Blocks[g][b].node \in Nat /\ Blocks[g][b].index \in Byte
         /\ \A j \in 0..(Blocks[g][b].len - 1) : Cell(g, b, j) \in Cells
         /\ DOMAIN Blocks[g] = 1..Len(Blocks[g]) /\ Len(Blocks[g]) \in Nat
<1>1. Blocks[g] \in Seq(BlockType)
  BY LayoutAssumption
<1>2. Blocks[g][b] \in BlockType /\ DOMAIN Blocks[g] = 1..Len(Blocks[g])
      /\ Len(Blocks[g]) \in Nat
  BY <1>1
<1>3. \A j \in 0..(Blocks[g][b].len - 1) : Cell(g, b, j) \in Cells
  BY LayoutAssumption
<1> QED
  BY <1>2, <1>3, BlockTypeFacts

LEMMA GroupFacts ==
  /\ Groups = {"DI", "AI", "DO", "AO"}
  /\ \A p \in 1..4 : PhaseGroup[p] \in Groups
  /\ InGroups \cap OutGroups = {}
BY DEF Groups, InGroups, OutGroups, PhaseGroup

\* The located variables are cells.
LEMMA VarFacts ==
  /\ InVars \in Seq(Cells) /\ OutVars \in Seq(Cells)
  /\ \A v \in DOMAIN InVars : InVars[v] \in Cells /\ InVars[v][1] \in InGroups
  /\ \A v \in DOMAIN OutVars : OutVars[v] \in Cells /\ OutVars[v][1] \in OutGroups
<1>1. \A v \in DOMAIN InVars : InVars[v] \in InGroups \X (0..(ExtSize - 1))
  BY LayoutAssumption
<1>2. \A v \in DOMAIN OutVars : OutVars[v] \in OutGroups \X (0..(ExtSize - 1))
  BY LayoutAssumption
<1>3. (InGroups \X (0..(ExtSize - 1))) \subseteq Cells
      /\ (OutGroups \X (0..(ExtSize - 1))) \subseteq Cells
  BY DEF Cells, Groups
<1> QED
  BY <1>1, <1>2, <1>3, LayoutAssumption

-----------------------------------------------------------------------------
(* Queues *)

LEMMA QueueFacts ==
  ASSUME NEW S, NEW q \in Seq(S)
  PROVE  /\ Len(q) \in Nat
         /\ q # <<>> => /\ Head(q) \in S /\ Tail(q) \in Seq(S)
                        /\ Len(Tail(q)) = Len(q) - 1 /\ Len(q) >= 1
         /\ \A f \in S : /\ Append(q, f) \in Seq(S)
                         /\ Len(Append(q, f)) = Len(q) + 1
OBVIOUS

LEMMA OverwriteFacts ==
  ASSUME NEW S, NEW q \in Seq(S), NEW f \in S, Len(q) >= 1
  PROVE  /\ [q EXCEPT ![Len(q)] = f] \in Seq(S)
         /\ Len([q EXCEPT ![Len(q)] = f]) = Len(q)
<1>1. Len(q) \in 1..Len(q)
  BY QueueFacts
<1> QED
  BY <1>1, ExceptSeq

LEMMA WiderQueue ==
  ASSUME NEW S, NEW T, S \subseteq T, NEW q \in Seq(S)
  PROVE  q \in Seq(T)
OBVIOUS

\* The frames node n sends, and those it receives.
Sent(n, P, R)  == IF n = Plc THEN P ELSE R
Taken(n, P, R) == IF n = Plc THEN R ELSE P

LEMMA TxFacts ==
  ASSUME NEW P, NEW R
  PROVE  TxOK(P, R) <=> /\ txq \in [Nodes -> Seq(P \cup R)]
                        /\ \A n \in Nodes : txq[n] \in Seq(Sent(n, P, R))
BY NodeFacts DEF TxOK, Sent, Nodes

LEMMA RxFacts ==
  ASSUME NEW P, NEW R
  PROVE  RxOK(P, R) <=> /\ rxq \in [Nodes -> Seq(P \cup R)]
                        /\ \A n \in Nodes : rxq[n] \in Seq(Taken(n, P, R))
BY NodeFacts DEF RxOK, Taken, Nodes

\* Sets of frames that tell the two directions apart.
FrameSets(P, R) ==
  (\A f \in P : f.kind \in {"get", "set"}) /\ (\A f \in R : f.kind = "resp")

LEMMA EnqueueOK ==
  ASSUME NEW P, NEW R, TxOK(P, R), TxBounded,
         NEW n \in Nodes, NEW f \in Sent(n, P, R), Enqueue(n, f)
  PROVE  TxOK(P, R)' /\ TxBounded'
<1>1. txq \in [Nodes -> Seq(P \cup R)] /\ \A m \in Nodes : txq[m] \in Seq(Sent(m, P, R))
  BY TxFacts
<1>2. CASE Len(txq[n]) < PoolCap
  <2>1. txq' = [txq EXCEPT ![n] = Append(txq[n], f)]
    BY <1>2 DEF Enqueue
  <2>2. /\ Append(txq[n], f) \in Seq(Sent(n, P, R))
        /\ Len(Append(txq[n], f)) = Len(txq[n]) + 1 /\ Len(txq[n]) \in Nat
    BY <1>1, QueueFacts
  <2>3. Append(txq[n], f) \in Seq(P \cup R)
    BY <2>2, WiderQueue DEF Sent
  <2>4. TxBounded'
    BY <1>1, <1>2, <2>1, <2>2, BoundsAssumption DEF TxBounded
  <2>5. /\ txq' \in [Nodes -> Seq(P \cup R)]
        /\ \A m \in Nodes : txq'[m] \in Seq(Sent(m, P, R))
    BY <1>1, <2>1, <2>2, <2>3
  <2> QED
    BY <2>4, <2>5, NodeFacts DEF TxOK, Sent, Nodes
<1>3. CASE ~(Len(txq[n]) < PoolCap)
  BY <1>3 DEF Enqueue, TxOK, TxBounded
<1> QED
  BY <1>2, <1>3

LEMMA PopTxOK ==
  ASSUME NEW P, NEW R, TxOK(P, R), TxBounded, NEW n \in Nodes,
         txq[n] # <<>>, txq' = [txq EXCEPT ![n] = Tail(@)]
  PROVE  TxOK(P, R)' /\ TxBounded' /\ Head(txq[n]) \in Sent(n, P, R)
<1>1. txq \in [Nodes -> Seq(P \cup R)] /\ \A m \in Nodes : txq[m] \in Seq(Sent(m, P, R))
  BY TxFacts
<1>2. /\ Head(txq[n]) \in Sent(n, P, R) /\ Tail(txq[n]) \in Seq(Sent(n, P, R))
      /\ Len(Tail(txq[n])) = Len(txq[n]) - 1 /\ Len(txq[n]) \in Nat
  BY <1>1, QueueFacts
<1>3. Tail(txq[n]) \in Seq(P \cup R)
  BY <1>2, WiderQueue DEF Sent
<1>4. TxBounded'
  BY <1>1, <1>2, BoundsAssumption DEF TxBounded
<1>5. /\ txq' \in [Nodes -> Seq(P \cup R)]
      /\ \A m \in Nodes : txq'[m] \in Seq(Sent(m, P, R))
  BY <1>1, <1>2, <1>3
<1> QED
  BY <1>2, <1>4, <1>5, NodeFacts DEF TxOK, Sent, Nodes

LEMMA PopRxOK ==
  ASSUME NEW P, NEW R, RxOK(P, R), RxBounded, NEW n \in Nodes,
         rxq[n] # <<>>, rxq' = [rxq EXCEPT ![n] = Tail(@)]
  PROVE  RxOK(P, R)' /\ RxBounded' /\ Head(rxq[n]) \in Taken(n, P, R)
<1>1. rxq \in [Nodes -> Seq(P \cup R)] /\ \A m \in Nodes : rxq[m] \in Seq(Taken(m, P, R))
  BY RxFacts
<1>2. /\ Head(rxq[n]) \in Taken(n, P, R) /\ Tail(rxq[n]) \in Seq(Taken(n, P, R))
      /\ Len(Tail(rxq[n])) = Len(rxq[n]) - 1 /\ Len(rxq[n]) \in Nat
  BY <1>1, QueueFacts
<1>3. Tail(rxq[n]) \in Seq(P \cup R)
  BY <1>2, WiderQueue DEF Taken
<1>4. RxBounded'
  BY <1>1, <1>2, BoundsAssumption DEF RxBounded
<1>5. /\ rxq' \in [Nodes -> Seq(P \cup R)]
      /\ \A m \in Nodes : rxq'[m] \in Seq(Taken(m, P, R))
  BY <1>1, <1>2, <1>3
<1> QED
  BY <1>2, <1>4, <1>5, NodeFacts DEF RxOK, Taken, Nodes

LEMMA ReceivedOK ==
  ASSUME NEW P, NEW R, RxOK(P, R), RxBounded, NEW n \in Nodes,
         NEW f \in Taken(n, P, R)
  PROVE  Received(n, f) \in Seq(Taken(n, P, R)) /\ Len(Received(n, f)) <= RxCap[n]
<1>1. rxq[n] \in Seq(Taken(n, P, R)) /\ Len(rxq[n]) \in Nat /\ Len(rxq[n]) <= RxCap[n]
      /\ RxCap[n] \in Nat /\ RxCap[n] >= 1
  <2>1. rxq[n] \in Seq(Taken(n, P, R))
    BY RxFacts
  <2>2. RxCap[n] \in Nat /\ RxCap[n] >= 1
    BY BoundsAssumption
  <2> QED
    BY <2>1, <2>2, QueueFacts DEF RxBounded
<1>2. CASE Len(rxq[n]) < RxCap[n]
  BY <1>1, <1>2, QueueFacts DEF Received
<1>3. CASE ~(Len(rxq[n]) < RxCap[n]) /\ n \in Overwrites
  BY <1>1, <1>3, OverwriteFacts DEF Received
<1>4. CASE ~(Len(rxq[n]) < RxCap[n]) /\ n \notin Overwrites
  BY <1>1, <1>4 DEF Received
<1> QED
  BY <1>2, <1>3, <1>4

\* Sending a frame, whether it is lost or reaches its receivers, keeps both
\* kinds of queue well formed.
LEMMA TransmitOK ==
  ASSUME NEW P, NEW R, TxOK(P, R), RxOK(P, R), TxBounded, RxBounded,
         FrameSets(P, R), NEW n \in Nodes, Deliver(n) \/ Lose(n)
  PROVE  TxOK(P, R)' /\ RxOK(P, R)' /\ TxBounded' /\ RxBounded'
<1>1. TxOK(P, R)' /\ TxBounded' /\ Head(txq[n]) \in Sent(n, P, R)
  BY PopTxOK DEF Deliver, Lose
<1>2. CASE Lose(n)
  BY <1>1, <1>2 DEF Lose, RxOK, RxBounded
<1>3. CASE Deliver(n)
  <2> DEFINE f == Head(txq[n])
  <2>1. rxq' = [m \in Nodes |-> IF m \in Receivers(f) THEN Received(m, f) ELSE rxq[m]]
    BY <1>3 DEF Deliver
  <2>2. \A m \in Nodes : m \in Receivers(f) => f \in Taken(m, P, R)
    BY <1>1, NodeFacts DEF Receivers, Sent, Taken, FrameSets, Nodes
  <2>3. ASSUME NEW m \in Nodes
        PROVE  /\ rxq'[m] \in Seq(Taken(m, P, R)) /\ Len(rxq'[m]) <= RxCap[m]
               /\ rxq'[m] \in Seq(P \cup R)
    <3>1. rxq[m] \in Seq(Taken(m, P, R)) /\ Len(rxq[m]) <= RxCap[m]
      BY RxFacts DEF RxBounded
    <3>2. rxq'[m] \in Seq(Taken(m, P, R)) /\ Len(rxq'[m]) <= RxCap[m]
      BY <2>1, <2>2, <3>1, ReceivedOK
    <3> QED
      BY <3>2, WiderQueue DEF Taken
  <2>4. rxq' \in [Nodes -> Seq(P \cup R)]
    BY <2>1, <2>3
  <2> QED
    BY <1>1, <2>3, <2>4, NodeFacts DEF RxOK, RxBounded, Taken, Nodes
<1> QED
  BY <1>2, <1>3

-----------------------------------------------------------------------------
(* The type invariant *)

LEMMA FrameFacts == FrameSets(FromPlc, Responses)
BY DEF FrameSets, FromPlc, Requests, Commands, Responses

\* Beginning a phase of the cycle leaves the UAVCAN task in a proper state.
LEMMA BeginPhaseOK ==
  ASSUME NEW p \in 1..LastPhase, BeginPhase(p), rgrp' \in InGroups,
         buf' \in Seq(Nat), Len(buf') = 0
  PROVE  ComOK'
<1>1. phase' = p /\ blk' = 1 /\ comPc' = FirstPc(p)
  BY DEF BeginPhase
<1>2. CASE FirstPc(p) = "send"
  <2>1. p < LastPhase /\ Blocks[PhaseGroup[p]] # <<>>
    BY <1>2 DEF FirstPc
  <2>2. PhaseGroup[p] \in Groups
    BY <2>1, GroupFacts DEF LastPhase
  <2>3. Blocks[PhaseGroup[p]] \in Seq(BlockType)
    BY <2>2, LayoutAssumption
  <2>4. 1 \in DOMAIN Blocks[PhaseGroup[p]]
    BY <2>1, <2>3
  <2>5. 0 <= Blocks[PhaseGroup[p]][1].len
    BY <2>2, <2>4, BlockFacts
  <2>6. phase' # 5 /\ phase' \in 1..5 /\ blk' \in Nat \ {0} /\ comPc' = "send"
    BY <1>1, <1>2, <2>1 DEF LastPhase
  <2>7. /\ blk' \in DOMAIN Blocks[PhaseGroup[phase']]
        /\ Len(buf') <= Blocks[PhaseGroup[phase']][blk'].len
    BY <1>1, <2>4, <2>5
  <2> QED
    BY <2>6, <2>7 DEF ComOK, LastPhase, InGroups, MyBlocks, Grp
<1>3. CASE FirstPc(p) = "rx"
  BY <1>1, <1>3 DEF ComOK
<1> QED
  BY <1>2, <1>3 DEF FirstPc

LEMMA NextPhaseOK ==
  ASSUME ComOK, NextPhase, Len(buf) = 0, UNCHANGED <<buf, rgrp>>
  PROVE  ComOK'
<1>1. PICK p \in 1..LastPhase : BeginPhase(p)
  BY DEF NextPhase, TurnPhases, ComOK, LastPhase
<1> QED
  BY <1>1, BeginPhaseOK DEF ComOK

LEMMA NextBlockOK ==
  ASSUME ComOK, comPc = "send", NextBlock, UNCHANGED <<phase, rgrp>>,
         buf' \in Seq(Nat), Len(buf') = 0
  PROVE  ComOK'
<1> DEFINE g == PhaseGroup[phase]
<1>1. /\ phase # 5 /\ phase \in 1..5 /\ blk \in DOMAIN Blocks[g] /\ rgrp \in InGroups
  BY DEF ComOK, MyBlocks, Grp, LastPhase
<1>2. g \in Groups
  BY <1>1, GroupFacts
<1>3. Blocks[g] \in Seq(BlockType)
  BY <1>2, LayoutAssumption
<1>4. CASE blk = Len(Blocks[g])
  BY <1>1, <1>4 DEF ComOK, NextBlock, MyBlocks, Grp, LastPhase, InGroups
<1>5. CASE blk # Len(Blocks[g])
  <2>1. blk' = blk + 1 /\ comPc' = "send" /\ blk' \in DOMAIN Blocks[g] /\ blk' \in Nat \ {0}
    BY <1>1, <1>3, <1>5 DEF NextBlock, MyBlocks, Grp
  <2>2. 0 <= Blocks[g][blk'].len
    BY <1>2, <2>1, BlockFacts
  <2> QED
    BY <1>1, <2>1, <2>2 DEF ComOK, LastPhase, InGroups, MyBlocks, Grp
<1> QED
  BY <1>4, <1>5

-----------------------------------------------------------------------------
(* What a step leaves alone stays well typed *)

LEMMA ComSame ==
  ASSUME ComOK, UNCHANGED comVars
  PROVE  ComOK'
<1>1. UNCHANGED <<phase, comPc, blk, rgrp, buf>>
  BY DEF comVars
<1> QED
  BY <1>1 DEF ComOK, MyBlocks, Grp

LEMMA PlcSame ==
  ASSUME PlcOK, UNCHANGED plcVars
  PROVE  PlcOK'
<1>1. UNCHANGED <<scanNo, scanPc, pos, img>>
  BY DEF plcVars
<1> QED
  BY <1>1 DEF PlcOK

LEMMA TxSame ==
  ASSUME NEW P, NEW R, TxOK(P, R), TxBounded, UNCHANGED txq
  PROVE  TxOK(P, R)' /\ TxBounded'
BY DEF TxOK, TxBounded

LEMMA RxSame ==
  ASSUME NEW P, NEW R, RxOK(P, R), RxBounded, UNCHANGED rxq
  PROVE  RxOK(P, R)' /\ RxBounded'
BY DEF RxOK, RxBounded

LEMMA QueuesSame ==
  ASSUME NEW P, NEW R, QueuesOK(P, R), UNCHANGED <<txq, rxq>>
  PROVE  QueuesOK(P, R)'
BY TxSame, RxSame DEF QueuesOK

-----------------------------------------------------------------------------
(* The PLC task *)

LEMMA PlcTaskTypeOK ==
  ASSUME TypeOK, PlcTask
  PROVE  TypeOK'
<1> USE DEF TypeOK
<1>1. /\ UNCHANGED comVars /\ UNCHANGED <<txq, rxq>> /\ UNCHANGED slaveVars
      /\ UNCHANGED restarts
  BY DEF PlcTask, ScanStart, ScanInput, ScanRun, ScanOutput
<1>2. ComOK' /\ QueuesOK(FromPlc, Responses)'
  BY <1>1, ComSame, QueuesSame
<1>3. /\ slavePc' \in [Slaves -> {"rx", "tx"}] /\ pin' \in [Pins -> Nat]
      /\ restarts' \in 0..MaxRestart
  BY <1>1 DEF slaveVars
<1>4. /\ scanNo \in 0..MaxScan /\ scanNo \in Nat /\ pos \in Nat \ {0} /\ MaxScan \in Nat
      /\ img \in [DOMAIN InVars -> Nat] /\ ext \in [Cells -> Nat]
      /\ scanPc = "out" => pos \in DOMAIN OutVars
  BY BoundsAssumption DEF PlcOK
<1>5. CASE ScanStart
  BY <1>2, <1>3, <1>4, <1>5 DEF ScanStart, PlcOK
<1>6. CASE ScanInput
  <2>1. ext[InVars[pos]] \in Nat
    BY <1>4, <1>6, VarFacts DEF ScanInput
  <2>2. img' \in [DOMAIN InVars -> Nat]
    BY <1>4, <1>6, <2>1 DEF ScanInput
  <2>3. PlcOK' /\ ext' = ext
    BY <1>4, <1>6, <2>2 DEF ScanInput, PlcOK
  <2> QED
    BY <1>2, <1>3, <1>4, <2>3
<1>7. CASE ScanRun
  <2>1. OutVars # <<>> => 1 \in DOMAIN OutVars
    BY VarFacts
  <2>2. PlcOK' /\ ext' = ext
    BY <1>4, <1>7, <2>1 DEF ScanRun, PlcOK
  <2> QED
    BY <1>2, <1>3, <1>4, <2>2
<1>8. CASE ScanOutput
  <2>1. pos \in DOMAIN OutVars /\ OutVars \in Seq(Cells)
    BY <1>4, <1>8, VarFacts DEF ScanOutput
  <2>2. ext' \in [Cells -> Nat]
    BY <1>4, <1>8 DEF ScanOutput
  <2>3. pos # Len(OutVars) => pos + 1 \in DOMAIN OutVars
    BY <2>1
  <2>4. PlcOK'
    BY <1>4, <1>8, <2>3 DEF ScanOutput, PlcOK
  <2> QED
    BY <1>2, <1>3, <2>2, <2>4
<1> QED
  BY <1>5, <1>6, <1>7, <1>8 DEF PlcTask

-----------------------------------------------------------------------------
(* The UAVCAN task *)

\* Where the task is when it sends: at a block of the group of its phase.
LEMMA SendFacts ==
  ASSUME ComOK, comPc = "send"
  PROVE  /\ Grp \in Groups /\ blk \in DOMAIN Blocks[Grp] /\ MyBlocks = Blocks[Grp]
         /\ phase \in 1..4
         /\ Blocks[Grp][blk].len \in 1..32 /\ 0 <= Blocks[Grp][blk].len
         /\ Blocks[Grp][blk].node \in Nat /\ Blocks[Grp][blk].index \in Byte
         /\ \A j \in 0..(Blocks[Grp][blk].len - 1) : Cell(Grp, blk, j) \in Cells
<1>1. phase \in 1..4 /\ blk \in DOMAIN Blocks[PhaseGroup[phase]]
  BY DEF ComOK, MyBlocks, Grp, LastPhase
<1>2. PhaseGroup[phase] \in Groups
  BY <1>1, GroupFacts
<1> QED
  BY <1>1, <1>2, BlockFacts DEF MyBlocks, Grp

LEMMA PlcSendOK ==
  ASSUME NEW P, NEW R, QueuesOK(P, R), NEW f \in P, Enqueue(Plc, f), UNCHANGED rxq
  PROVE  QueuesOK(P, R)'
<1>1. f \in Sent(Plc, P, R)
  BY DEF Sent
<1>2. TxOK(P, R)' /\ TxBounded'
  BY <1>1, EnqueueOK, NodeFacts DEF QueuesOK
<1> QED
  BY <1>2, RxSame DEF QueuesOK

LEMMA PlcPopOK ==
  ASSUME NEW P, NEW R, QueuesOK(P, R), rxq[Plc] # <<>>,
         rxq' = [rxq EXCEPT ![Plc] = Tail(@)], UNCHANGED txq
  PROVE  QueuesOK(P, R)' /\ Head(rxq[Plc]) \in R
<1>1. RxOK(P, R)' /\ RxBounded' /\ Head(rxq[Plc]) \in Taken(Plc, P, R)
  BY PopRxOK, NodeFacts DEF QueuesOK
<1> QED
  BY <1>1, TxSame DEF QueuesOK, Taken

LEMMA SendGetTypeOK ==
  ASSUME TypeOK, SendGet
  PROVE  TypeOK'
<1> USE DEF TypeOK
<1>1. PICK port \in {"INPUT", "OUTPUT"} :
        Enqueue(Plc, GetFrame(MyBlocks[blk].node, Grp, MyBlocks[blk].index,
                              MyBlocks[blk].len, port))
  BY DEF SendGet
<1>2. comPc = "send" /\ Grp \in InGroups
  BY DEF SendGet
<1>3. GetFrame(MyBlocks[blk].node, Grp, MyBlocks[blk].index, MyBlocks[blk].len, port)
        \in FromPlc
  BY <1>2, SendFacts DEF GetFrame, Requests, FromPlc
<1>4. QueuesOK(FromPlc, Responses)'
  BY <1>1, <1>3, PlcSendOK DEF SendGet
<1>5. buf' = buf /\ Len(buf) = 0 /\ buf \in Seq(Nat)
  BY <1>2 DEF SendGet, ComOK
<1>6. ComOK'
  BY <1>2, <1>5, NextBlockOK DEF SendGet
<1>7. PlcOK'
  BY PlcSame DEF SendGet
<1> QED
  BY <1>4, <1>6, <1>7 DEF SendGet, slaveVars

LEMMA CopyCellTypeOK ==
  ASSUME TypeOK, CopyCell
  PROVE  TypeOK'
<1> USE DEF TypeOK
<1>0. comPc = "send" /\ Grp \notin InGroups /\ UNCHANGED <<phase, comPc, blk, rgrp>>
  BY GroupFacts DEF CopyCell
<1>n. PICK n \in 1..32 : n = Blocks[Grp][blk].len
  BY <1>0, SendFacts
<1>1. Len(buf) < n
  BY <1>0, <1>n, SendFacts DEF CopyCell
<1>2. buf \in Seq(Nat) /\ Len(buf) \in 0..(n - 1)
  <2>1. buf \in Seq(Nat)
    BY DEF ComOK
  <2> QED
    BY <1>1, <2>1, QueueFacts
<1>3. ext[Cell(Grp, blk, Len(buf))] \in Nat
  <2>1. Cell(Grp, blk, Len(buf)) \in Cells
    BY <1>0, <1>n, <1>2, SendFacts
  <2> QED
    BY <2>1
<1>4. buf' \in Seq(Nat) /\ Len(buf') = Len(buf) + 1
  BY <1>2, <1>3 DEF CopyCell
<1>5. Len(buf') <= n
  BY <1>2, <1>4
<1>6. ComOK'
  BY <1>0, <1>n, <1>4, <1>5, SendFacts DEF ComOK, MyBlocks, Grp
<1>7. PlcOK' /\ QueuesOK(FromPlc, Responses)'
  BY PlcSame, QueuesSame DEF CopyCell
<1> QED
  BY <1>6, <1>7 DEF CopyCell, slaveVars

LEMMA SendSetTypeOK ==
  ASSUME TypeOK, SendSet
  PROVE  TypeOK'
<1> USE DEF TypeOK
<1>1. comPc = "send" /\ Grp \in OutGroups /\ buf \in Seq(Nat)
  BY DEF SendSet, ComOK
<1>2. SetFrame(MyBlocks[blk].node, Grp, MyBlocks[blk].index, buf) \in FromPlc
  BY <1>1, SendFacts DEF SetFrame, Commands, FromPlc
<1>3. QueuesOK(FromPlc, Responses)'
  BY <1>2, PlcSendOK DEF SendSet
<1>4. Len(buf') = 0 /\ buf' \in Seq(Nat)
  BY DEF SendSet
<1>5. ComOK'
  BY <1>1, <1>4, NextBlockOK DEF SendSet
<1>6. PlcOK'
  BY PlcSame DEF SendSet
<1> QED
  BY <1>3, <1>5, <1>6 DEF SendSet, slaveVars

LEMMA ComRxDropTypeOK ==
  ASSUME TypeOK, ComRxDrop
  PROVE  TypeOK'
<1> USE DEF TypeOK
<1>1. QueuesOK(FromPlc, Responses)'
  BY PlcPopOK DEF ComRxDrop
<1>2. PlcOK' /\ ComOK'
  BY PlcSame, ComSame DEF ComRxDrop
<1> QED
  BY <1>1, <1>2 DEF ComRxDrop, slaveVars

\* A response that matches carries as many values as its block has cells.
LEMMA ComRxTypeOK ==
  ASSUME TypeOK, ComRx
  PROVE  TypeOK'
<1> USE DEF TypeOK
<1> DEFINE f == Head(rxq[Plc])
<1>1. QueuesOK(FromPlc, Responses)' /\ f \in Responses
  BY PlcPopOK DEF ComRx
<1>2. f.grp \in InGroups /\ f.grp \in Groups /\ f.vals \in Seq(Nat)
  BY <1>1 DEF Responses, Groups
<1>3. /\ Matching(f) # {} /\ rgrp' = f.grp /\ buf' = f.vals /\ comPc' = "store"
      /\ blk' \in Matching(f) /\ UNCHANGED <<ext, phase>> /\ UNCHANGED plcVars /\ UNCHANGED slaveVars
      /\ UNCHANGED restarts
  BY DEF ComRx
<1>4. Blocks[f.grp] \in Seq(BlockType)
  BY <1>2, LayoutAssumption
<1>6. blk' \in DOMAIN Blocks[f.grp] /\ Blocks[f.grp][blk'].len = Len(f.vals)
  BY <1>3 DEF Matching
<1>7. PICK n \in 1..32 : n = Blocks[f.grp][blk'].len
  BY <1>2, <1>6, BlockFacts
<1>8. blk' \in Nat \ {0}
  BY <1>4, <1>6
<1>9. Len(buf') = n /\ n > 0 /\ n <= n
  <2>1. Len(buf') = n
    BY <1>3, <1>6, <1>7, Zenon
  <2>2. n > 0 /\ n <= n
    OBVIOUS
  <2> QED
    BY <2>1, <2>2, Zenon
<1>10. phase' \in 1..LastPhase
  BY <1>3 DEF ComOK
<1>11. ComOK'
  BY <1>2, <1>3, <1>6, <1>7, <1>8, <1>9, <1>10 DEF ComOK
<1>12. PlcOK'
  BY <1>3, PlcSame
<1> QED
  BY <1>1, <1>3, <1>11, <1>12 DEF slaveVars

LEMMA StoreCellTypeOK ==
  ASSUME TypeOK, StoreCell
  PROVE  TypeOK'
<1> USE DEF TypeOK
<1>1. /\ comPc = "store" /\ rgrp \in InGroups /\ rgrp \in Groups /\ buf \in Seq(Nat)
      /\ blk \in DOMAIN Blocks[rgrp] /\ phase \in 1..LastPhase /\ blk \in Nat \ {0}
  BY DEF StoreCell, ComOK, Groups
<1>2. PICK n \in 1..32 : n = Blocks[rgrp][blk].len
  BY <1>1, BlockFacts
<1>3. Len(buf) \in 1..n
  <2>1. Len(buf) > 0 /\ Len(buf) <= n
    BY <1>1, <1>2 DEF ComOK
  <2> QED
    BY <1>1, <2>1, QueueFacts
<1>4. /\ Head(buf) \in Nat /\ Tail(buf) \in Seq(Nat) /\ Len(Tail(buf)) = Len(buf) - 1
  BY <1>1, <1>3
<1>5. Cell(rgrp, blk, n - Len(buf)) \in Cells
  <2>1. n - Len(buf) \in 0..(n - 1)
    BY <1>3
  <2> QED
    BY <1>1, <1>2, <2>1, BlockFacts
<1>6. ext' \in [Cells -> Nat]
  BY <1>2, <1>4, <1>5 DEF StoreCell
<1>7. ComOK'
  <2>1. buf' = Tail(buf) /\ phase' = phase
    BY DEF StoreCell
  <2>2. CASE Len(buf) = 1
    <3>1. comPc' = "rx" /\ blk' = 1 /\ rgrp' = "DI" /\ Len(buf') = 0
      BY <1>4, <2>1, <2>2 DEF StoreCell
    <3> QED
      BY <1>1, <1>4, <2>1, <3>1 DEF ComOK, InGroups
  <2>3. CASE Len(buf) # 1
    <3>1. UNCHANGED <<comPc, blk, rgrp>>
      BY <2>3 DEF StoreCell
    <3>2. Len(buf') > 0 /\ Len(buf') <= n
      BY <1>3, <1>4, <2>1, <2>3
    <3> QED
      BY <1>1, <1>2, <1>4, <2>1, <3>1, <3>2 DEF ComOK
  <2> QED
    BY <2>2, <2>3
<1>8. PlcOK' /\ QueuesOK(FromPlc, Responses)'
  BY PlcSame, QueuesSame DEF StoreCell
<1> QED
  BY <1>6, <1>7, <1>8 DEF StoreCell, slaveVars

LEMMA ComRxEmptyTypeOK ==
  ASSUME TypeOK, ComRxEmpty
  PROVE  TypeOK'
<1> USE DEF TypeOK
<1>1. comPc = "rx" /\ Len(buf) = 0 /\ UNCHANGED <<buf, rgrp>>
  BY DEF ComRxEmpty, ComOK
<1>2. NextPhase => ComOK'
  BY <1>1, NextPhaseOK
<1>3. (comPc' = "tx" /\ UNCHANGED <<phase, blk>>) => ComOK'
  BY <1>1 DEF ComOK
<1>4. ComOK'
  BY <1>2, <1>3 DEF ComRxEmpty
<1>5. PlcOK' /\ QueuesOK(FromPlc, Responses)'
  BY PlcSame, QueuesSame DEF ComRxEmpty
<1> QED
  BY <1>4, <1>5 DEF ComRxEmpty, slaveVars

LEMMA ComTxTypeOK ==
  ASSUME TypeOK, ComTx
  PROVE  TypeOK'
<1> USE DEF TypeOK
<1>1. comPc = "tx" /\ Len(buf) = 0 /\ UNCHANGED <<buf, rgrp>>
  BY DEF ComTx, ComOK
<1>2. NextPhase => ComOK'
  BY <1>1, NextPhaseOK
<1>3. (UNCHANGED <<phase, comPc, blk>>) => ComOK'
  BY <1>1 DEF ComOK
<1>4. ComOK'
  BY <1>2, <1>3 DEF ComTx
<1>5. QueuesOK(FromPlc, Responses)'
  BY TransmitOK, FrameFacts, NodeFacts DEF ComTx, QueuesOK
<1>6. PlcOK'
  BY PlcSame DEF ComTx
<1> QED
  BY <1>4, <1>5, <1>6 DEF ComTx, slaveVars

LEMMA UavcanTaskTypeOK ==
  ASSUME TypeOK, UavcanTask
  PROVE  TypeOK'
BY SendGetTypeOK, CopyCellTypeOK, SendSetTypeOK, ComRxDropTypeOK, ComRxTypeOK,
   StoreCellTypeOK, ComRxEmptyTypeOK, ComTxTypeOK
   DEF UavcanTask

-----------------------------------------------------------------------------
(* The slaves and the environment *)

\* A frame a slave has received is a request or a command.
LEMMA SlavePopOK ==
  ASSUME NEW P, NEW R, QueuesOK(P, R), NEW s \in Slaves, rxq[s] # <<>>,
         rxq' = [rxq EXCEPT ![s] = Tail(@)]
  PROVE  RxOK(P, R)' /\ RxBounded' /\ Head(rxq[s]) \in P
BY PopRxOK, NodeFacts DEF QueuesOK, Taken

\* What a slave answers is a response, with as many values as were asked for.
LEMMA AnswersOK ==
  ASSUME pin \in [Pins -> Nat], NEW s \in Slaves, NEW f \in Requests,
         NEW r \in Answers(s, f)
  PROVE  r \in Responses
<1> DEFINE chan(j) == <<s, f.grp, (f.index + j - 1) % 256>>
           ok      == f.len <= MaxLen(f.grp) /\ \A j \in 1..f.len : chan(j) \in Pins
           vals    == IF ok THEN [j \in 1..f.len |-> pin[chan(j)]] ELSE <<>>
<1>1. r = RespFrame(s, f.grp, f.index, ok, vals)
  BY DEF Answers
<1>2. f.grp \in InGroups /\ f.index \in Byte /\ f.len \in Nat
  BY DEF Requests
<1>3. vals \in Seq(Nat)
  <2>1. CASE ok
    <3>1. \A j \in 1..f.len : pin[chan(j)] \in Nat
      BY <2>1
    <3> HIDE DEF chan
    <3> QED
      BY <1>2, <2>1, <3>1
  <2>2. CASE ~ok
    BY <2>2
  <2> QED
    BY <2>1, <2>2
<1>4. ok \in BOOLEAN
  OBVIOUS
<1> HIDE DEF ok, vals
<1> QED
  BY <1>1, <1>2, <1>3, <1>4 DEF RespFrame, Responses

LEMMA SlaveGetTypeOK ==
  ASSUME TypeOK, NEW s \in Slaves, SlaveGet(s)
  PROVE  TypeOK'
<1> USE DEF TypeOK
<1> DEFINE f == Head(rxq[s])
<1>1. RxOK(FromPlc, Responses)' /\ RxBounded' /\ f \in FromPlc
  BY SlavePopOK DEF SlaveGet
<1>2. f \in Requests
  BY <1>1 DEF SlaveGet, FromPlc, Requests, Commands
<1>3. TxOK(FromPlc, Responses)' /\ TxBounded'
  <2>1. TxOK(FromPlc, Responses) /\ TxBounded
    BY DEF QueuesOK
  <2>2. CASE UNCHANGED txq
    BY <2>1, <2>2, TxSame
  <2>3. ASSUME NEW r \in Answers(s, f), Enqueue(s, r)
        PROVE  TxOK(FromPlc, Responses)' /\ TxBounded'
    <3>1. r \in Sent(s, FromPlc, Responses)
      BY <1>2, <2>3, AnswersOK, NodeFacts DEF Sent
    <3> QED
      BY <2>1, <2>3, <3>1, EnqueueOK, NodeFacts
  <2> QED
    BY <2>2, <2>3 DEF SlaveGet
<1>4. PlcOK' /\ ComOK'
  BY PlcSame, ComSame DEF SlaveGet
<1> QED
  BY <1>1, <1>3, <1>4 DEF SlaveGet, slaveVars, QueuesOK

LEMMA SlaveSetTypeOK ==
  ASSUME TypeOK, NEW s \in Slaves, SlaveSet(s)
  PROVE  TypeOK'
<1> USE DEF TypeOK
<1> DEFINE f    == Head(rxq[s])
           K(p) == {k \in Applied(s, f) : SetPin(s, f, k) = p}
<1>1. RxOK(FromPlc, Responses)' /\ RxBounded' /\ f \in FromPlc
  BY SlavePopOK DEF SlaveSet
<1>2. f \in Commands
  BY <1>1 DEF SlaveSet, FromPlc, Requests, Commands
<1>3. f.vals \in Seq(Nat)
  BY <1>2 DEF Commands
<1>4. \A p : K(p) # {} => f.vals[CHOOSE k \in K(p) : TRUE] \in Nat
  <2>1. \A p : K(p) # {} => (CHOOSE k \in K(p) : TRUE) \in K(p)
    OBVIOUS
  <2>2. \A p : K(p) \subseteq DOMAIN f.vals
    BY DEF Applied
  <2> HIDE DEF f, K
  <2> QED
    BY <1>3, <2>1, <2>2
<1>5. pin' = [p \in Pins |-> IF K(p) = {} THEN pin[p]
                             ELSE f.vals[CHOOSE k \in K(p) : TRUE]]
  BY DEF SlaveSet
<1>6. pin' \in [Pins -> Nat]
  <2> HIDE DEF f, K
  <2> QED
    BY <1>4, <1>5
<1>7. TxOK(FromPlc, Responses)' /\ TxBounded'
  BY TxSame DEF SlaveSet, QueuesOK
<1>8. PlcOK' /\ ComOK'
  BY PlcSame, ComSame DEF SlaveSet
<1> QED
  BY <1>1, <1>6, <1>7, <1>8 DEF SlaveSet, QueuesOK

LEMMA SlaveLoopTypeOK ==
  ASSUME TypeOK, NEW s \in Slaves, SlaveLoop(s)
  PROVE  TypeOK'
<1> USE DEF TypeOK
<1>1. CASE SlaveRxEmpty(s)
  <2>1. PlcOK' /\ ComOK' /\ QueuesOK(FromPlc, Responses)'
    BY <1>1, PlcSame, ComSame, QueuesSame DEF SlaveRxEmpty
  <2> QED
    BY <1>1, <2>1 DEF SlaveRxEmpty
<1>2. CASE SlaveTx(s)
  <2>1. PlcOK' /\ ComOK'
    BY <1>2, PlcSame, ComSame DEF SlaveTx
  <2>2. QueuesOK(FromPlc, Responses)'
    BY <1>2, TransmitOK, FrameFacts, NodeFacts DEF SlaveTx, QueuesOK
  <2> QED
    BY <1>2, <2>1, <2>2 DEF SlaveTx
<1> QED
  BY <1>1, <1>2, SlaveGetTypeOK, SlaveSetTypeOK DEF SlaveLoop

\* A node whose queues a restart empties.
LEMMA EmptiedOK ==
  ASSUME NEW P, NEW R, QueuesOK(P, R), NEW n \in Nodes,
         txq' = [txq EXCEPT ![n] = <<>>], rxq' = [rxq EXCEPT ![n] = <<>>]
  PROVE  QueuesOK(P, R)'
<1>1. Len(<<>>) = 0 /\ \A S : <<>> \in Seq(S)
  OBVIOUS
<1>2. TxOK(P, R)' /\ RxOK(P, R)'
  BY <1>1 DEF QueuesOK, TxOK, RxOK, Nodes
<1>3. TxBounded' /\ RxBounded'
  <2>1. txq \in [Nodes -> Seq(P \cup R)]
        /\ rxq \in [Nodes -> Seq(P \cup R)]
    BY DEF QueuesOK, TxOK, RxOK
  <2>2. \A m \in Nodes : 0 <= PoolCap /\ 0 <= RxCap[m]
    BY BoundsAssumption
  <2> QED
    BY <1>1, <2>1, <2>2 DEF QueuesOK, TxBounded, RxBounded
<1> QED
  BY <1>2, <1>3 DEF QueuesOK

LEMMA PinChangeTypeOK ==
  ASSUME TypeOK, PinChange
  PROVE  TypeOK'
<1> USE DEF TypeOK
<1>1. PlcOK' /\ ComOK' /\ QueuesOK(FromPlc, Responses)'
  BY PlcSame, ComSame, QueuesSame DEF PinChange
<1>2. pin' \in [Pins -> Nat]
  BY DEF PinChange, InPins
<1> QED
  BY <1>1, <1>2 DEF PinChange

LEMMA SlaveRestartTypeOK ==
  ASSUME TypeOK, NEW s \in Slaves, SlaveRestart(s)
  PROVE  TypeOK'
<1> USE DEF TypeOK
<1>1. PlcOK' /\ ComOK' /\ QueuesOK(FromPlc, Responses)'
  BY PlcSame, ComSame, EmptiedOK, NodeFacts DEF SlaveRestart
<1>2. pin' \in [Pins -> Nat] /\ slavePc' \in [Slaves -> {"rx", "tx"}]
  BY DEF SlaveRestart
<1>3. restarts' \in 0..MaxRestart
  BY BoundsAssumption DEF SlaveRestart
<1> QED
  BY <1>1, <1>2, <1>3 DEF SlaveRestart

LEMMA PlcRestartTypeOK ==
  ASSUME TypeOK, PlcRestart
  PROVE  TypeOK'
<1> USE DEF TypeOK
<1>1. QueuesOK(FromPlc, Responses)'
  BY EmptiedOK, NodeFacts DEF PlcRestart
<1>2. PICK p \in 1..LastPhase : BeginPhase(p)
  BY DEF PlcRestart, TurnPhases, LastPhase
<1>3. ComOK'
  <2>1. rgrp' \in InGroups /\ buf' \in Seq(Nat) /\ Len(buf') = 0
    BY DEF PlcRestart, InGroups
  <2> QED
    BY <1>2, <2>1, BeginPhaseOK
<1>4. scanNo' \in 0..MaxScan /\ scanNo' \in Nat /\ restarts' \in 0..MaxRestart
  BY BoundsAssumption DEF PlcRestart, PlcOK
<1>5. PlcOK'
  BY <1>4 DEF PlcRestart, PlcOK
<1>6. ext' \in [Cells -> Nat]
  BY <1>4 DEF PlcRestart
<1> QED
  BY <1>1, <1>3, <1>4, <1>5, <1>6 DEF PlcRestart, slaveVars

-----------------------------------------------------------------------------
LEMMA InitTypeOK == Init => TypeOK
<1> SUFFICES ASSUME Init PROVE TypeOK
  OBVIOUS
<1>1. ext \in [Cells -> Nat] /\ pin \in [Pins -> Nat]
      /\ slavePc \in [Slaves -> {"rx", "tx"}] /\ restarts \in 0..MaxRestart
  BY BoundsAssumption DEF Init
<1>2. PlcOK
  BY BoundsAssumption DEF Init, PlcOK
<1>3. ComOK
  <2>1. /\ phase \in 1..5 /\ blk \in Nat \ {0} /\ rgrp \in InGroups /\ buf \in Seq(Nat)
        /\ Len(buf) = 0 /\ comPc = FirstPc(phase) /\ blk = 1
    BY DEF Init, TurnPhases, LastPhase, InGroups
  <2>2. CASE FirstPc(phase) = "send"
    <3>1. phase \in 1..4 /\ Blocks[PhaseGroup[phase]] # <<>>
      BY <2>1, <2>2 DEF FirstPc, LastPhase
    <3>2. PhaseGroup[phase] \in Groups
      BY <3>1, GroupFacts
    <3>3. 1 \in DOMAIN Blocks[PhaseGroup[phase]]
      BY <3>1, <3>2, LayoutAssumption
    <3>4. 0 <= Blocks[PhaseGroup[phase]][1].len
      BY <3>2, <3>3, BlockFacts
    <3> QED
      BY <2>1, <2>2, <3>1, <3>3, <3>4 DEF ComOK, MyBlocks, Grp, LastPhase
  <2>3. CASE FirstPc(phase) = "rx"
    BY <2>1, <2>3 DEF ComOK, LastPhase
  <2> QED
    BY <2>2, <2>3 DEF FirstPc
<1>4. QueuesOK(FromPlc, Responses)
  <2>1. Len(<<>>) = 0 /\ \A S : <<>> \in Seq(S)
    OBVIOUS
  <2>2. \A m \in Nodes : 0 <= PoolCap /\ 0 <= RxCap[m]
    BY BoundsAssumption
  <2> QED
    BY <2>1, <2>2, NodeFacts
       DEF Init, QueuesOK, TxOK, RxOK, TxBounded, RxBounded
<1> QED
  BY <1>1, <1>2, <1>3, <1>4 DEF TypeOK

LEMMA StutterTypeOK == TypeOK /\ UNCHANGED vars => TypeOK'
<1> SUFFICES ASSUME TypeOK, UNCHANGED vars PROVE TypeOK'
  OBVIOUS
<1>1. /\ UNCHANGED <<ext, txq, rxq, restarts>> /\ UNCHANGED plcVars
      /\ UNCHANGED comVars /\ UNCHANGED slaveVars
  BY DEF vars
<1>2. PlcOK' /\ ComOK' /\ QueuesOK(FromPlc, Responses)'
  BY <1>1, PlcSame, ComSame, QueuesSame DEF TypeOK
<1> QED
  BY <1>1, <1>2 DEF TypeOK, slaveVars

LEMMA NextTypeOK == TypeOK /\ Next => TypeOK'
BY PlcTaskTypeOK, UavcanTaskTypeOK, SlaveLoopTypeOK, SlaveRestartTypeOK,
   PinChangeTypeOK, PlcRestartTypeOK
   DEF Next

\* Every reachable state is well typed: frames travel only the way their kind
\* allows, no queue outgrows its memory, and each cell that plc_task or
\* uavcan_task is about to touch lies inside the shared buffers.
THEOREM TypeCorrect == Spec => []TypeOK
BY InitTypeOK, NextTypeOK, StutterTypeOK, PTL DEF Spec

-----------------------------------------------------------------------------
(* The shared output buffers *)

LEMMA OutVarFacts ==
  ASSUME NEW v \in DOMAIN OutVars
  PROVE  OutVars[v] \in Cells /\ OutVars[v][1] \in OutGroups
BY VarFacts

\* A step that leaves the buffers and the PLC task alone.
LEMMA FreshSame ==
  ASSUME OutputsFresh, UNCHANGED ext, UNCHANGED plcVars
  PROVE  OutputsFresh'
<1>1. UNCHANGED <<ext, scanNo, scanPc, pos>>
  BY DEF plcVars
<1> QED
  BY <1>1 DEF OutputsFresh

LEMMA FreshScan ==
  ASSUME TypeOK, OutputsFresh, PlcTask
  PROVE  OutputsFresh' /\ scanNo <= scanNo'
<1>1. /\ scanNo \in Nat /\ ext \in [Cells -> Nat] /\ pos \in Nat
      /\ scanPc = "out" => pos \in DOMAIN OutVars
  BY BoundsAssumption DEF TypeOK, PlcOK
<1>2. /\ \A c \in Cells : c[1] \in OutGroups => ext[c] <= scanNo
      /\ \A v \in DOMAIN OutVars :
           /\ ext[OutVars[v]] >= scanNo - 1
           /\ scanPc = "idle" \/ (scanPc = "out" /\ v < pos) => ext[OutVars[v]] = scanNo
  BY DEF OutputsFresh
<1>3. \A v \in DOMAIN OutVars : OutVars[v] \in Cells /\ OutVars[v][1] \in OutGroups
  BY VarFacts
<1>4. DOMAIN OutVars = 1..Len(OutVars) /\ Len(OutVars) \in Nat
  BY VarFacts
<1>5. CASE ScanStart
  <2>1. scanNo' = scanNo + 1 /\ scanPc' = "in" /\ ext' = ext /\ scanPc = "idle"
    BY <1>5 DEF ScanStart
  <2>2. \A c \in Cells : c[1] \in OutGroups => ext'[c] <= scanNo'
    BY <1>1, <1>2, <2>1
  <2>3. \A v \in DOMAIN OutVars : ext'[OutVars[v]] >= scanNo' - 1
    BY <1>1, <1>2, <2>1
  <2> QED
    BY <1>1, <2>1, <2>2, <2>3 DEF OutputsFresh
<1>6. CASE ScanInput
  <2>1. scanNo' = scanNo /\ scanPc' = "in" /\ ext' = ext
    BY <1>6 DEF ScanInput
  <2> QED
    BY <1>1, <1>2, <2>1 DEF OutputsFresh
<1>7. CASE ScanRun
  <2>1. /\ scanNo' = scanNo /\ ext' = ext /\ pos' = 1
        /\ scanPc' = "out" \/ (scanPc' = "idle" /\ DOMAIN OutVars = {})
    BY <1>7 DEF ScanRun
  <2>2. \A v \in DOMAIN OutVars : ~(v < pos')
    BY <1>4, <2>1
  <2> QED
    BY <1>1, <1>2, <2>1, <2>2 DEF OutputsFresh
<1>8. CASE ScanOutput
  <2>1. /\ scanPc = "out" /\ scanNo' = scanNo /\ pos \in 1..Len(OutVars)
        /\ ext' = [ext EXCEPT ![OutVars[pos]] = scanNo]
        /\ \/ scanPc' = "idle" /\ pos = Len(OutVars)
           \/ scanPc' = "out" /\ pos' = pos + 1
    BY <1>1, <1>4, <1>8 DEF ScanOutput
  <2>2. \A c \in Cells : ext'[c] = IF c = OutVars[pos] THEN scanNo ELSE ext[c]
    BY <1>1, <2>1
  <2>3. \A c \in Cells : c[1] \in OutGroups => ext'[c] <= scanNo'
    BY <1>1, <1>2, <2>1, <2>2
  <2>4. \A v \in DOMAIN OutVars :
          ext'[OutVars[v]] = IF OutVars[v] = OutVars[pos] THEN scanNo ELSE ext[OutVars[v]]
    BY <1>3, <2>2
  <2>5. \A v \in DOMAIN OutVars : ext'[OutVars[v]] >= scanNo' - 1
    BY <1>1, <1>2, <2>1, <2>4
  <2>6. \A v \in DOMAIN OutVars : v <= pos => ext'[OutVars[v]] = scanNo'
    <3> SUFFICES ASSUME NEW v \in 1..Len(OutVars), v <= pos
                 PROVE  ext'[OutVars[v]] = scanNo'
      BY <1>4
    <3>1. CASE v = pos
      BY <1>4, <2>1, <2>4, <3>1
    <3>2. CASE v < pos
      BY <1>2, <1>4, <2>1, <2>4, <3>2
    <3> QED
      BY <1>1, <3>1, <3>2
  <2>7. \A v \in DOMAIN OutVars :
          scanPc' = "idle" \/ (scanPc' = "out" /\ v < pos') => v <= pos
    <3>1. CASE scanPc' = "idle" /\ pos = Len(OutVars)
      <4>1. \A v \in 1..Len(OutVars) : v <= Len(OutVars)
        BY <1>4
      <4> QED
        BY <1>4, <3>1, <4>1, Zenon
    <3>2. CASE scanPc' = "out" /\ pos' = pos + 1
      <4>1. \A v \in 1..Len(OutVars) : v < pos' => v <= pos
        BY <1>1, <1>4, <3>2
      <4>2. scanPc' # "idle"
        BY <3>2
      <4> QED
        BY <1>4, <4>1, <4>2, Zenon
    <3> QED
      BY <2>1, <3>1, <3>2, Zenon
  <2> QED
    BY <1>1, <2>1, <2>3, <2>5, <2>6, <2>7 DEF OutputsFresh
<1>9. scanNo <= scanNo'
  BY <1>1 DEF PlcTask, ScanStart, ScanInput, ScanRun, ScanOutput
<1> QED
  BY <1>5, <1>6, <1>7, <1>8, <1>9 DEF PlcTask

\* Storing a response touches input cells only.
LEMMA FreshStore ==
  ASSUME TypeOK, OutputsFresh, StoreCell
  PROVE  OutputsFresh'
<1>1. ext \in [Cells -> Nat] /\ rgrp \in InGroups
  BY DEF TypeOK, ComOK
<1>2. UNCHANGED <<scanNo, scanPc, pos>>
  BY DEF StoreCell, plcVars
<1> DEFINE d == Cell(rgrp, blk, Blocks[rgrp][blk].len - Len(buf))
<1>3. d[1] = rgrp
  BY DEF Cell
<1>4. ext' = [ext EXCEPT ![d] = Head(buf)]
  BY DEF StoreCell
<1> HIDE DEF d
<1>5. \A c \in Cells : c[1] \in OutGroups => ext'[c] = ext[c]
  BY <1>1, <1>3, <1>4, GroupFacts
<1>6. \A v \in DOMAIN OutVars : ext'[OutVars[v]] = ext[OutVars[v]]
  BY <1>5, OutVarFacts
<1> QED
  BY <1>2, <1>5, <1>6 DEF OutputsFresh

LEMMA FreshRestart ==
  ASSUME TypeOK, PlcRestart
  PROVE  OutputsFresh'
<1>1. scanNo' \in Nat
  BY BoundsAssumption DEF TypeOK, PlcOK, PlcRestart
<1>2. ext' = [c \in Cells |-> IF c[1] \in OutGroups THEN scanNo' ELSE 0]
  BY DEF PlcRestart
<1>3. \A c \in Cells : c[1] \in OutGroups => ext'[c] = scanNo'
  BY <1>2
<1>4. \A v \in DOMAIN OutVars : ext'[OutVars[v]] = scanNo'
  BY <1>3, OutVarFacts
<1> QED
  BY <1>1, <1>3, <1>4 DEF OutputsFresh

LEMMA FreshNext ==
  ASSUME TypeOK, OutputsFresh, Next
  PROVE  OutputsFresh'
<1>1. CASE StoreCell
  BY <1>1, FreshStore
<1>2. CASE UavcanTask /\ ~StoreCell
  <2>1. UNCHANGED ext /\ UNCHANGED plcVars
    BY <1>2 DEF UavcanTask, SendGet, CopyCell, SendSet, ComRxDrop, ComRx,
                ComRxEmpty, ComTx
  <2> QED
    BY <2>1, FreshSame
<1>3. ASSUME NEW s \in Slaves, SlaveLoop(s) \/ SlaveRestart(s)
      PROVE  OutputsFresh'
  <2>1. UNCHANGED ext /\ UNCHANGED plcVars
    BY <1>3 DEF SlaveLoop, SlaveGet, SlaveSet, SlaveRxEmpty, SlaveTx, SlaveRestart
  <2> QED
    BY <2>1, FreshSame
<1>4. CASE PinChange
  BY <1>4, FreshSame DEF PinChange
<1> QED
  BY <1>1, <1>2, <1>3, <1>4, FreshScan, FreshRestart DEF Next

-----------------------------------------------------------------------------
(* The copy of a block *)

LEMMA CopyEmpty ==
  ASSUME buf' \in Seq(Nat), Len(buf') = 0
  PROVE  CopyOK'
<1>1. DOMAIN buf' = {}
  OBVIOUS
<1> QED
  BY <1>1 DEF CopyOK, SkewIn

LEMMA CopyIdle ==
  ASSUME comPc' # "send"
  PROVE  CopyOK'
BY DEF CopyOK

LEMMA CopySame ==
  ASSUME TypeOK, CopyOK, UNCHANGED comVars, scanNo' \in Nat, scanNo <= scanNo'
  PROVE  CopyOK'
<1>1. UNCHANGED <<phase, comPc, blk, buf>>
  BY DEF comVars
<1>2. scanNo \in Nat /\ buf \in Seq(Nat)
  BY BoundsAssumption DEF TypeOK, PlcOK, ComOK
<1>3. \A i \in DOMAIN buf : buf[i] \in Nat
  BY <1>2
<1> SUFFICES ASSUME comPc = "send"
             PROVE  (\A i \in DOMAIN buf : buf[i] <= scanNo') /\ SkewIn(Grp, blk, buf)'
  BY <1>1 DEF CopyOK
<1>4. \A i \in DOMAIN buf : buf[i] <= scanNo
  BY DEF CopyOK
<1>5. \A i \in DOMAIN buf : buf[i] <= scanNo'
  BY <1>2, <1>3, <1>4
<1>6. SkewIn(Grp, blk, buf)
  BY DEF CopyOK
<1>7. SkewIn(Grp, blk, buf)'
  BY <1>1, <1>6 DEF Grp, SkewIn, Driven, Cell
<1> QED
  BY <1>5, <1>7

\* The value copied is no newer than the scan; a driven one is at most one
\* scan older, and so at most one scan older than those copied before it.
LEMMA CopyCellOK ==
  ASSUME TypeOK, OutputsFresh, CopyOK, CopyCell
  PROVE  CopyOK'
<1>1. comPc = "send" /\ Grp \in OutGroups /\ UNCHANGED <<phase, comPc, blk>>
      /\ scanNo' = scanNo
  BY DEF CopyCell, plcVars
<1>2. scanNo \in Nat /\ buf \in Seq(Nat) /\ Len(buf) \in Nat
  BY BoundsAssumption, QueueFacts DEF TypeOK, PlcOK, ComOK
<1>3. PICK m \in Nat : m = Len(buf)
  BY <1>2
<1>n. PICK n \in 1..32 : n = Blocks[Grp][blk].len
  BY <1>1, SendFacts DEF TypeOK
<1>4. m < n
  BY <1>1, <1>3, <1>n, SendFacts DEF CopyCell, TypeOK
<1> DEFINE c == Cell(Grp, blk, m)
           x == ext[c]
<1>5. c \in Cells /\ c[1] = Grp
  <2>1. m \in 0..(n - 1)
    BY <1>4
  <2>2. Cell(Grp, blk, m) \in Cells
    BY <1>1, <1>n, <2>1, SendFacts DEF TypeOK
  <2> QED
    BY <2>2 DEF Cell
<1>6. x \in Nat /\ x <= scanNo
  BY <1>1, <1>5 DEF OutputsFresh, TypeOK
<1>7. Driven(<<Grp, blk, m>>) => x >= scanNo - 1
  <2> SUFFICES ASSUME NEW v \in DOMAIN OutVars, OutVars[v] = c PROVE x >= scanNo - 1
    BY DEF Driven
  <2> QED
    BY DEF OutputsFresh
<1>8. buf' = Append(buf, x)
  BY <1>3 DEF CopyCell
<1> HIDE DEF c, x
<1>9. DOMAIN buf = 1..m /\ DOMAIN buf' = 1..(m + 1) /\ buf'[m + 1] = x
      /\ \A i \in 1..m : buf'[i] = buf[i] /\ buf[i] \in Nat
  BY <1>2, <1>3, <1>6, <1>8
<1>10. /\ \A i \in 1..m : buf[i] <= scanNo
       /\ \A i, k \in 1..m : i < k /\ Driven(<<Grp, blk, k - 1>>) => buf[k] >= buf[i] - 1
  BY <1>1, <1>9 DEF CopyOK, SkewIn
<1>11. \A i \in DOMAIN buf' : buf'[i] <= scanNo'
  <2> SUFFICES ASSUME NEW i \in 1..(m + 1) PROVE buf'[i] <= scanNo
    BY <1>1, <1>9
  <2>1. i = m + 1 \/ i \in 1..m
    OBVIOUS
  <2> QED
    BY <1>6, <1>9, <1>10, <2>1
<1>12. ASSUME NEW i \in 1..(m + 1), NEW k \in 1..(m + 1), i < k,
              Driven(<<Grp, blk, k - 1>>)
       PROVE  buf'[k] >= buf'[i] - 1
  <2>1. i \in 1..m /\ (k = m + 1 \/ k \in 1..m)
    BY <1>12
  <2>2. CASE k \in 1..m
    BY <1>9, <1>10, <1>12, <2>1, <2>2
  <2>3. CASE k = m + 1
    <3>1. k - 1 = m
      BY <2>3
    <3>2. x >= scanNo - 1
      BY <1>7, <1>12, <3>1
    <3>3. buf'[i] <= scanNo /\ buf'[i] \in Nat /\ buf'[k] = x
      BY <1>9, <1>10, <2>1, <2>3
    <3> QED
      BY <1>2, <1>6, <3>2, <3>3
  <2> QED
    BY <2>1, <2>2, <2>3
<1>13. SkewIn(Grp, blk, buf)'
  BY <1>1, <1>9, <1>12 DEF SkewIn, Driven, Cell, Grp
<1> QED
  BY <1>11, <1>13 DEF CopyOK

LEMMA CopyNext ==
  ASSUME TypeOK, TypeOK', OutputsFresh, CopyOK, Next
  PROVE  CopyOK'
<1>1. /\ scanNo' \in Nat /\ scanNo \in Nat /\ buf \in Seq(Nat) /\ buf' \in Seq(Nat)
      /\ comPc \in {"rx", "tx"} => Len(buf) = 0
      /\ comPc = "send" /\ Grp \in InGroups => Len(buf) = 0
  BY BoundsAssumption DEF TypeOK, PlcOK, ComOK
<1>2. CASE PlcTask
  BY <1>1, <1>2, FreshScan, CopySame DEF PlcTask, ScanStart, ScanInput, ScanRun, ScanOutput
<1>3. CASE SendGet \/ ComRxEmpty \/ ComTx
  BY <1>1, <1>3, CopyEmpty DEF SendGet, ComRxEmpty, ComTx
<1>4. CASE SendSet
  BY <1>1, <1>4, CopyEmpty DEF SendSet
<1>5. CASE ComRx
  BY <1>5, CopyIdle DEF ComRx
<1>6. CASE StoreCell
  BY <1>6, CopyIdle DEF StoreCell
<1>7. CASE ComRxDrop
  <2>1. scanNo' = scanNo
    BY <1>7 DEF ComRxDrop, plcVars
  <2> QED
    BY <1>1, <1>7, <2>1, CopySame DEF ComRxDrop
<1>8. ASSUME NEW s \in Slaves, SlaveLoop(s) \/ SlaveRestart(s)
      PROVE  CopyOK'
  <2>1. UNCHANGED comVars /\ scanNo' = scanNo
    BY <1>8 DEF SlaveLoop, SlaveGet, SlaveSet, SlaveRxEmpty, SlaveTx, SlaveRestart, plcVars
  <2> QED
    BY <1>1, <2>1, CopySame
<1>9. CASE PinChange
  BY <1>1, <1>9, CopySame DEF PinChange, plcVars
<1>10. CASE PlcRestart
  BY <1>1, <1>10, CopyEmpty DEF PlcRestart
<1> QED
  BY <1>2, <1>3, <1>4, <1>5, <1>6, <1>7, <1>8, <1>9, <1>10, CopyCellOK
     DEF Next, UavcanTask

-----------------------------------------------------------------------------
(* The commands on their way *)

OutFrames == Requests \cup BlockCommands

LEMMA OutFrameFacts ==
  /\ FrameSets(OutFrames, Responses)
  /\ BlockCommands \subseteq Commands
  /\ \A f \in OutFrames : /\ f.kind = "get" => f \in Requests
                          /\ f.kind = "set" => f \in BlockCommands
BY DEF FrameSets, OutFrames, BlockCommands, Requests, Commands, Responses

\* What SendSet sends is a copy of a configured block, with its skew.
LEMMA SendSetFrame ==
  ASSUME TypeOK, CopyOK, SendSet,
         NEW f, f = SetFrame(MyBlocks[blk].node, Grp, MyBlocks[blk].index, buf)
  PROVE  /\ f \in BlockCommands /\ IsBlockCommand(f, blk)
         /\ f.kind = "set" /\ f.grp = Grp /\ f.vals = buf /\ blk \in DOMAIN Blocks[Grp]
<1>1. comPc = "send" /\ Grp \in OutGroups /\ buf \in Seq(Nat)
      /\ Len(buf) = MyBlocks[blk].len
  BY DEF SendSet, TypeOK, ComOK
<1>2. blk \in DOMAIN Blocks[Grp] /\ MyBlocks = Blocks[Grp]
      /\ Blocks[Grp][blk].node \in Nat /\ Blocks[Grp][blk].index \in Byte
  BY <1>1, SendFacts DEF TypeOK
<1>3. SkewIn(Grp, blk, buf)
  BY <1>1 DEF CopyOK
<1>4. f.to = Blocks[Grp][blk].node /\ f.index = Blocks[Grp][blk].index
      /\ f.grp = Grp /\ f.vals = buf /\ f.kind = "set"
  BY <1>2 DEF SetFrame
<1>5. f \in Commands
  BY <1>1, <1>2 DEF SetFrame, Commands
<1>6. IsBlockCommand(f, blk)
  BY <1>1, <1>2, <1>3, <1>4, Zenon DEF IsBlockCommand
<1>7. f \in BlockCommands
  BY <1>2, <1>4, <1>5, <1>6, Zenon DEF BlockCommands
<1> QED
  BY <1>2, <1>4, <1>6, <1>7

LEMMA CommandsUavcanTask ==
  ASSUME TypeOK, CopyOK, QueuesOK(OutFrames, Responses), UavcanTask
  PROVE  QueuesOK(OutFrames, Responses)'
<1>1. CASE SendGet
  <2>1. PICK port \in {"INPUT", "OUTPUT"} :
          Enqueue(Plc, GetFrame(MyBlocks[blk].node, Grp, MyBlocks[blk].index,
                                MyBlocks[blk].len, port))
    BY <1>1 DEF SendGet
  <2>2. GetFrame(MyBlocks[blk].node, Grp, MyBlocks[blk].index, MyBlocks[blk].len, port)
          \in OutFrames
    BY <1>1, SendFacts DEF SendGet, GetFrame, Requests, OutFrames, TypeOK
  <2> QED
    BY <1>1, <2>1, <2>2, PlcSendOK DEF SendGet
<1>2. CASE SendSet
  <2>1. SetFrame(MyBlocks[blk].node, Grp, MyBlocks[blk].index, buf) \in OutFrames
    BY <1>2, SendSetFrame DEF OutFrames
  <2> QED
    BY <1>2, <2>1, PlcSendOK DEF SendSet
<1>3. CASE CopyCell \/ StoreCell \/ ComRxEmpty
  BY <1>3, QueuesSame DEF CopyCell, StoreCell, ComRxEmpty
<1>4. CASE ComRxDrop \/ ComRx
  BY <1>4, PlcPopOK DEF ComRxDrop, ComRx
<1>5. CASE ComTx
  BY <1>5, TransmitOK, OutFrameFacts, NodeFacts DEF ComTx, QueuesOK
<1> QED
  BY <1>1, <1>2, <1>3, <1>4, <1>5 DEF UavcanTask

LEMMA CommandsSlaveLoop ==
  ASSUME TypeOK, QueuesOK(OutFrames, Responses), NEW s \in Slaves, SlaveLoop(s)
  PROVE  QueuesOK(OutFrames, Responses)'
<1>1. CASE SlaveGet(s)
  <2> DEFINE f == Head(rxq[s])
  <2>1. RxOK(OutFrames, Responses)' /\ RxBounded' /\ f \in OutFrames
    BY <1>1, SlavePopOK DEF SlaveGet
  <2>2. f \in Requests
    BY <1>1, <2>1, OutFrameFacts DEF SlaveGet
  <2>3. TxOK(OutFrames, Responses) /\ TxBounded
    BY DEF QueuesOK
  <2>4. CASE UNCHANGED txq
    BY <2>1, <2>3, <2>4, TxSame DEF QueuesOK
  <2>5. ASSUME NEW r \in Answers(s, f), Enqueue(s, r)
        PROVE  QueuesOK(OutFrames, Responses)'
    <3>1. r \in Sent(s, OutFrames, Responses)
      BY <2>2, <2>5, AnswersOK, NodeFacts DEF Sent, TypeOK
    <3> QED
      BY <2>1, <2>3, <2>5, <3>1, EnqueueOK, NodeFacts DEF QueuesOK
  <2> QED
    BY <1>1, <2>4, <2>5 DEF SlaveGet
<1>2. CASE SlaveSet(s)
  BY <1>2, SlavePopOK, TxSame DEF SlaveSet, QueuesOK
<1>3. CASE SlaveRxEmpty(s)
  BY <1>3, QueuesSame DEF SlaveRxEmpty
<1>4. CASE SlaveTx(s)
  BY <1>4, TransmitOK, OutFrameFacts, NodeFacts DEF SlaveTx, QueuesOK
<1> QED
  BY <1>1, <1>2, <1>3, <1>4 DEF SlaveLoop

LEMMA CommandsNext ==
  ASSUME TypeOK, CopyOK, QueuesOK(OutFrames, Responses), Next
  PROVE  QueuesOK(OutFrames, Responses)'
<1>1. CASE PlcTask
  BY <1>1, QueuesSame DEF PlcTask, ScanStart, ScanInput, ScanRun, ScanOutput
<1>2. CASE PinChange
  BY <1>2, QueuesSame DEF PinChange
<1>3. ASSUME NEW s \in Slaves, SlaveRestart(s)
      PROVE  QueuesOK(OutFrames, Responses)'
  BY <1>3, EmptiedOK, NodeFacts DEF SlaveRestart
<1>4. CASE PlcRestart
  BY <1>4, EmptiedOK, NodeFacts DEF PlcRestart
<1> QED
  BY <1>1, <1>2, <1>3, <1>4, CommandsUavcanTask, CommandsSlaveLoop DEF Next

-----------------------------------------------------------------------------
(* The channels of an output block *)

LEMMA OutBlockCellFacts ==
  /\ \A g \in OutGroups : \A b \in DOMAIN Blocks[g] :
       \A j \in 0..(Blocks[g][b].len - 1) : <<g, b, j>> \in OutBlockCells
  /\ \A bc \in OutBlockCells :
       \E g \in OutGroups : \E b \in DOMAIN Blocks[g] :
         \E j \in 0..(Blocks[g][b].len - 1) : bc = <<g, b, j>>
BY DEF OutBlockCells, BlockCells

\* No output block wraps around the channel numbers.
LEMMA ChannelFacts ==
  ASSUME NEW g \in OutGroups, NEW b \in DOMAIN Blocks[g],
         NEW j \in 0..(Blocks[g][b].len - 1)
  PROVE  /\ Blocks[g][b].index \in Byte
         /\ Blocks[g][b].index + j <= 255 /\ j \in Nat
         /\ Channel(<<g, b, j>>) = <<Blocks[g][b].node, g, Blocks[g][b].index + j>>
<1>1. Blocks[g][b].index \in Byte /\ Blocks[g][b].len \in 1..32
  BY BlockFacts DEF Groups
<1>2. Blocks[g][b].index + Blocks[g][b].len <= 256
  BY OutputsAssumption
<1>3. PICK x \in Byte : x = Blocks[g][b].index
  BY <1>1
<1>4. PICK n \in 1..32 : n = Blocks[g][b].len
  BY <1>1
<1>5. j \in 0..(n - 1) /\ x + n <= 256
  BY <1>2, <1>3, <1>4
<1>6. x + j <= 255 /\ (x + j) % 256 = x + j /\ j \in Nat
  BY <1>5 DEF Byte
<1>7. Channel(<<g, b, j>>) = <<Blocks[g][b].node, g, (x + j) % 256>>
  BY <1>3 DEF Channel
<1> QED
  BY <1>1, <1>3, <1>6, <1>7

\* A slave that has a channel of an output block has those before it.
LEMMA ChannelPrefix ==
  ASSUME NEW g \in OutGroups, NEW b \in DOMAIN Blocks[g],
         NEW k \in 0..(Blocks[g][b].len - 1), Channel(<<g, b, k>>) \in Pins,
         NEW j \in 0..(Blocks[g][b].len - 1), j <= k
  PROVE  Channel(<<g, b, j>>) \in Pins
<1>1. PICK x \in Byte : x = Blocks[g][b].index
  BY ChannelFacts
<1>2. /\ Channel(<<g, b, k>>) = <<Blocks[g][b].node, g, x + k>>
      /\ Channel(<<g, b, j>>) = <<Blocks[g][b].node, g, x + j>>
      /\ x + j <= 255 /\ j \in Nat /\ k \in Nat
  BY <1>1, ChannelFacts
<1>3. /\ Blocks[g][b].node \in Slaves /\ g \in Groups
      /\ x + k < NumCh[<<Blocks[g][b].node, g>>]
  BY <1>2 DEF Pins
<1>4. PICK m \in 0..256 : m = NumCh[<<Blocks[g][b].node, g>>]
  BY <1>3, NodesAssumption
<1>5. x + j \in Byte /\ x + j < m
  <2>1. x + k < m
    BY <1>3, <1>4
  <2>2. x + j <= 255 /\ j \in Nat /\ k \in Nat /\ j <= k /\ x \in Nat /\ m \in Nat
    BY <1>2 DEF Byte
  <2> QED
    BY <2>1, <2>2 DEF Byte
<1> QED
  BY <1>2, <1>3, <1>4, <1>5 DEF Pins

\* Two values of one block, in the order in which they are copied.
LEMMA SameBlock ==
  ASSUME NEW bc \in OutBlockCells, NEW bd \in OutBlockCells,
         bc[1] = bd[1], bc[2] = bd[2], bc[3] < bd[3]
  PROVE  /\ Channel(bd) \in Pins => Channel(bc) \in Pins
         /\ \E h \in OutGroups : \E d \in DOMAIN Blocks[h] : \E n \in 1..32 :
              \E j, k \in 0..(n - 1) :
                n = Blocks[h][d].len /\ bc = <<h, d, j>> /\ bd = <<h, d, k>> /\ j < k
<1>1. PICK h \in OutGroups : \E d \in DOMAIN Blocks[h] :
         \E k \in 0..(Blocks[h][d].len - 1) : bd = <<h, d, k>>
  BY OutBlockCellFacts
<1>2. PICK d \in DOMAIN Blocks[h] : \E k \in 0..(Blocks[h][d].len - 1) : bd = <<h, d, k>>
  BY <1>1
<1>3. PICK k \in 0..(Blocks[h][d].len - 1) : bd = <<h, d, k>>
  BY <1>2
<1>4. PICK j \in 0..(Blocks[h][d].len - 1) : bc = <<h, d, j>>
  BY <1>3, OutBlockCellFacts
<1>5. PICK n \in 1..32 : n = Blocks[h][d].len
  BY BlockFacts DEF Groups
<1>6. j \in 0..(n - 1) /\ k \in 0..(n - 1) /\ j < k /\ j <= k
  BY <1>3, <1>4, <1>5
<1>7. Channel(bd) \in Pins => Channel(bc) \in Pins
  BY <1>3, <1>4, <1>5, <1>6, ChannelPrefix
<1> QED
  BY <1>3, <1>4, <1>5, <1>6, <1>7

-----------------------------------------------------------------------------
(* What a command does to the pins of a slave *)

\* The k-th value of a block's command belongs to the channel of its k-th cell.
LEMMA SetPinFacts ==
  ASSUME NEW f \in Commands, NEW b \in DOMAIN Blocks[f.grp], IsBlockCommand(f, b),
         NEW k \in 1..Blocks[f.grp][b].len
  PROVE  /\ k - 1 \in 0..(Blocks[f.grp][b].len - 1)
         /\ SetPin(f.to, f, k) = Channel(<<f.grp, b, k - 1>>)
<1>1. f.grp \in OutGroups
  BY DEF Commands
<1>2. PICK n \in 1..32 : n = Blocks[f.grp][b].len
  BY <1>1, BlockFacts DEF Groups
<1>3. k - 1 \in 0..(n - 1) /\ k \in Nat
  BY <1>2
<1>4. PICK x \in Byte : x = Blocks[f.grp][b].index
  BY <1>1, BlockFacts DEF Groups
<1>5. x + k - 1 = x + (k - 1)
  BY <1>3 DEF Byte
<1>6. f.to = Blocks[f.grp][b].node /\ f.index = x
  BY <1>4 DEF IsBlockCommand
<1>7. SetPin(f.to, f, k) = <<Blocks[f.grp][b].node, f.grp, (x + (k - 1)) % 256>>
  BY <1>5, <1>6 DEF SetPin
<1>8. Channel(<<f.grp, b, k - 1>>) = <<Blocks[f.grp][b].node, f.grp, (x + (k - 1)) % 256>>
  BY <1>4 DEF Channel
<1> QED
  BY <1>2, <1>3, <1>7, <1>8

\* A command for block b sets each of the block's channels that the slave has to
\* its value, and no other.
LEMMA SlaveSetCommand ==
  ASSUME TypeOK, QueuesOK(OutFrames, Responses), NEW s \in Slaves, SlaveSet(s),
         NEW f, f = Head(rxq[s]), f.to = s,
         NEW b \in DOMAIN Blocks[f.grp], IsBlockCommand(f, b)
  PROVE  /\ \A j \in 0..(Blocks[f.grp][b].len - 1) :
              Channel(<<f.grp, b, j>>) \in Pins
              => pin'[Channel(<<f.grp, b, j>>)] = f.vals[j + 1]
         /\ \A p \in Pins :
              pin'[p] = pin[p]
              \/ \E j \in 0..(Blocks[f.grp][b].len - 1) : p = Channel(<<f.grp, b, j>>)
<1> DEFINE K(p) == {k \in Applied(s, f) : SetPin(s, f, k) = p}
<1>1. f \in BlockCommands /\ f \in Commands
  BY SlavePopOK, OutFrameFacts DEF SlaveSet
<1>2. pin' = [p \in Pins |-> IF K(p) = {} THEN pin[p]
                             ELSE f.vals[CHOOSE k \in K(p) : TRUE]]
  BY DEF SlaveSet
<1>3. f.to = s /\ IsBlockCommand(f, b) /\ b \in DOMAIN Blocks[f.grp]
  OBVIOUS
<1>4. f.grp \in OutGroups /\ f.vals \in Seq(Nat) /\ f.grp \in Groups
  BY <1>1 DEF Commands, Groups
<1>5. PICK n \in 1..32 : n = Blocks[f.grp][b].len
  BY <1>4, BlockFacts
<1>6. Len(f.vals) = Blocks[f.grp][b].len /\ SkewIn(f.grp, b, f.vals)
  BY <1>3 DEF IsBlockCommand
<1>7. DOMAIN f.vals = 1..n
  <2>1. \A q \in Seq(Nat) : DOMAIN q = 1..Len(q)
    OBVIOUS
  <2>2. Len(f.vals) = n
    BY <1>5, <1>6
  <2> QED
    BY <1>4, <2>1, <2>2
<1>8. \A k \in 1..n : /\ k - 1 \in 0..(n - 1)
                      /\ SetPin(s, f, k) = Channel(<<f.grp, b, k - 1>>)
  BY <1>1, <1>3, <1>5, SetPinFacts
<1>9. \A j, k \in 0..(n - 1) : Channel(<<f.grp, b, j>>) = Channel(<<f.grp, b, k>>) => j = k
  <2> SUFFICES ASSUME NEW j \in 0..(n - 1), NEW k \in 0..(n - 1),
                      Channel(<<f.grp, b, j>>) = Channel(<<f.grp, b, k>>)
               PROVE  j = k
    OBVIOUS
  <2>1. <<f.grp, b, j>> \in OutBlockCells /\ <<f.grp, b, k>> \in OutBlockCells
    BY <1>4, <1>5, OutBlockCellFacts
  <2>2. <<f.grp, b, j>> = <<f.grp, b, k>>
    BY <2>1, OutputsAssumption
  <2> QED
    BY <2>2
<1>10. ASSUME NEW j \in 0..(n - 1), Channel(<<f.grp, b, j>>) \in Pins
       PROVE  pin'[Channel(<<f.grp, b, j>>)] = f.vals[j + 1]
  <2> DEFINE p == Channel(<<f.grp, b, j>>)
  <2>1. j + 1 \in 1..n /\ (j + 1) - 1 = j
    OBVIOUS
  <2>2. \A i \in 1..(j + 1) : SetPin(s, f, i) \in Pins
    <3> SUFFICES ASSUME NEW i \in 1..(j + 1) PROVE SetPin(s, f, i) \in Pins
      OBVIOUS
    <3>1. i \in 1..n /\ i - 1 \in 0..(n - 1) /\ i - 1 <= j
      OBVIOUS
    <3>2. Channel(<<f.grp, b, i - 1>>) \in Pins
      BY <1>4, <1>5, <1>10, <3>1, ChannelPrefix
    <3> QED
      BY <1>8, <3>1, <3>2
  <2>3. j + 1 \in K(p)
    BY <1>3, <1>7, <1>8, <2>1, <2>2 DEF Applied
  <2>4. \A k \in K(p) : k = j + 1
    <3> SUFFICES ASSUME NEW k \in K(p) PROVE k = j + 1
      OBVIOUS
    <3>1. k \in 1..n /\ SetPin(s, f, k) = p
      BY <1>7 DEF Applied
    <3>2. k - 1 \in 0..(n - 1) /\ Channel(<<f.grp, b, k - 1>>) = p
      BY <1>8, <3>1
    <3>3. k - 1 = j
      BY <1>9, <3>2
    <3> QED
      BY <3>1, <3>3
  <2>5. K(p) # {} /\ (CHOOSE k \in K(p) : TRUE) = j + 1
    <3> HIDE DEF K, p
    <3> QED
      BY <2>3, <2>4
  <2> HIDE DEF K
  <2> QED
    BY <1>2, <1>10, <2>5
<1>11. ASSUME NEW p \in Pins
       PROVE  pin'[p] = pin[p] \/ \E j \in 0..(n - 1) : p = Channel(<<f.grp, b, j>>)
  <2>1. CASE K(p) = {}
    <3> HIDE DEF K
    <3> QED
      BY <1>2, <2>1
  <2>2. CASE K(p) # {}
    <3>1. PICK k \in K(p) : TRUE
      BY <2>2
    <3>2. k \in 1..n /\ SetPin(s, f, k) = p
      BY <1>7, <3>1 DEF Applied
    <3>3. k - 1 \in 0..(n - 1) /\ p = Channel(<<f.grp, b, k - 1>>)
      BY <1>8, <3>2
    <3> QED
      BY <3>3
  <2> QED
    BY <2>1, <2>2
<1> QED
  BY <1>4, <1>5, <1>6, <1>10, <1>11

\* A command for another slave sets nothing.
LEMMA SlaveSetOther ==
  ASSUME TypeOK, NEW s \in Slaves, SlaveSet(s), Head(rxq[s]).to # s
  PROVE  UNCHANGED pin
<1> DEFINE f    == Head(rxq[s])
           K(p) == {k \in Applied(s, f) : SetPin(s, f, k) = p}
<1>1. pin' = [p \in Pins |-> IF K(p) = {} THEN pin[p]
                             ELSE f.vals[CHOOSE k \in K(p) : TRUE]]
  BY DEF SlaveSet
<1>2. \A p : K(p) = {}
  BY DEF Applied
<1>3. pin' = [p \in Pins |-> pin[p]]
  BY <1>1, <1>2
<1> QED
  BY <1>3 DEF TypeOK

LEMMA SlaveSetPins ==
  ASSUME TypeOK, QueuesOK(OutFrames, Responses), NEW s \in Slaves, SlaveSet(s)
  PROVE  \/ UNCHANGED pin
         \/ \E g \in OutGroups : \E b \in DOMAIN Blocks[g] : \E vals \in Seq(Nat) :
              /\ Len(vals) = Blocks[g][b].len /\ SkewIn(g, b, vals)
              /\ \A j \in 0..(Blocks[g][b].len - 1) :
                   Channel(<<g, b, j>>) \in Pins => pin'[Channel(<<g, b, j>>)] = vals[j + 1]
              /\ \A p \in Pins :
                   pin'[p] = pin[p]
                   \/ \E j \in 0..(Blocks[g][b].len - 1) : p = Channel(<<g, b, j>>)
<1> DEFINE f == Head(rxq[s])
<1>1. f \in BlockCommands /\ f.grp \in OutGroups /\ f.vals \in Seq(Nat)
  <2>1. f \in OutFrames /\ f.kind = "set"
    BY SlavePopOK DEF SlaveSet
  <2>2. f \in BlockCommands /\ f \in Commands
    BY <2>1, OutFrameFacts
  <2> QED
    BY <2>2 DEF Commands
<1>2. PICK b \in DOMAIN Blocks[f.grp] : IsBlockCommand(f, b)
  BY <1>1 DEF BlockCommands
<1>3. Len(f.vals) = Blocks[f.grp][b].len /\ SkewIn(f.grp, b, f.vals)
  BY <1>2 DEF IsBlockCommand
<1> HIDE DEF f
<1>4. CASE f.to = s
  <2>1. f = Head(rxq[s])
    BY DEF f
  <2> QED
    BY <1>1, <1>2, <1>3, <1>4, <2>1, SlaveSetCommand
<1>5. CASE f.to # s
  BY <1>5, SlaveSetOther DEF f
<1> QED
  BY <1>4, <1>5

\* The pins a step may change: those a command sets, input pins, and the output
\* pins of a slave that restarts.
LEMMA PinsSame ==
  ASSUME OnlyConfiguredDriven, SkewBounded, UNCHANGED pin
  PROVE  OnlyConfiguredDriven' /\ SkewBounded'
BY DEF OnlyConfiguredDriven, SkewBounded

LEMMA SlaveSetOnly ==
  ASSUME TypeOK, QueuesOK(OutFrames, Responses), OnlyConfiguredDriven,
         NEW s \in Slaves, SlaveSet(s)
  PROVE  OnlyConfiguredDriven'
<1>1. CASE UNCHANGED pin
  BY <1>1 DEF OnlyConfiguredDriven
<1>2. ASSUME NEW g \in OutGroups, NEW b \in DOMAIN Blocks[g],
             \A p \in Pins :
               pin'[p] = pin[p]
               \/ \E j \in 0..(Blocks[g][b].len - 1) : p = Channel(<<g, b, j>>)
      PROVE  OnlyConfiguredDriven'
  <2> SUFFICES ASSUME NEW p \in OutPins, pin'[p] # 0
               PROVE  \E bc \in OutBlockCells : Channel(bc) = p
    BY DEF OnlyConfiguredDriven
  <2>1. p \in Pins
    BY DEF OutPins
  <2>2. CASE pin'[p] = pin[p]
    BY <2>2 DEF OnlyConfiguredDriven
  <2>3. CASE \E j \in 0..(Blocks[g][b].len - 1) : p = Channel(<<g, b, j>>)
    BY <2>3, OutBlockCellFacts
  <2> QED
    BY <1>2, <2>1, <2>2, <2>3
<1> QED
  BY <1>1, <1>2, SlaveSetPins

\* Within a block the values a command sets have the skew of the copy; in any
\* other block both channels keep their values.
LEMMA SlaveSetSkew ==
  ASSUME TypeOK, QueuesOK(OutFrames, Responses), SkewBounded,
         NEW s \in Slaves, SlaveSet(s)
  PROVE  SkewBounded'
<1>1. CASE UNCHANGED pin
  BY <1>1 DEF SkewBounded
<1>2. ASSUME NEW g \in OutGroups, NEW b \in DOMAIN Blocks[g], NEW vals \in Seq(Nat),
             Len(vals) = Blocks[g][b].len, SkewIn(g, b, vals),
             \A j \in 0..(Blocks[g][b].len - 1) :
               Channel(<<g, b, j>>) \in Pins => pin'[Channel(<<g, b, j>>)] = vals[j + 1],
             \A p \in Pins :
               pin'[p] = pin[p]
               \/ \E j \in 0..(Blocks[g][b].len - 1) : p = Channel(<<g, b, j>>)
      PROVE  SkewBounded'
  <2> SUFFICES ASSUME NEW bc \in OutBlockCells, NEW bd \in OutBlockCells,
                      bc[1] = bd[1], bc[2] = bd[2], bc[3] < bd[3], Driven(bd),
                      Channel(bd) \in Pins
               PROVE  pin'[Channel(bd)] >= pin'[Channel(bc)] - 1
    BY DEF SkewBounded, Driven, Cell
  <2>1. PICK h \in OutGroups : \E d \in DOMAIN Blocks[h] : \E n \in 1..32 :
           \E j, k \in 0..(n - 1) :
             n = Blocks[h][d].len /\ bc = <<h, d, j>> /\ bd = <<h, d, k>> /\ j < k
    BY SameBlock, ZenonT(40)
  <2>2. PICK d \in DOMAIN Blocks[h] : \E n \in 1..32 : \E j, k \in 0..(n - 1) :
             n = Blocks[h][d].len /\ bc = <<h, d, j>> /\ bd = <<h, d, k>> /\ j < k
    BY <2>1, Zenon
  <2>3. PICK n \in 1..32 : \E j, k \in 0..(n - 1) :
             n = Blocks[h][d].len /\ bc = <<h, d, j>> /\ bd = <<h, d, k>> /\ j < k
    BY <2>2
  <2>4. PICK j \in 0..(n - 1), k \in 0..(n - 1) :
             n = Blocks[h][d].len /\ bc = <<h, d, j>> /\ bd = <<h, d, k>> /\ j < k
    BY <2>3
  <2>5. Channel(bc) \in Pins
    BY SameBlock
  <2>6. CASE h = g /\ d = b
    <3>1. pin'[Channel(bc)] = vals[j + 1] /\ pin'[Channel(bd)] = vals[k + 1]
      BY <1>2, <2>4, <2>5, <2>6
    <3>2. DOMAIN vals = 1..n
      BY <1>2, <2>4, <2>6
    <3>3. j + 1 \in 1..n /\ k + 1 \in 1..n /\ j + 1 < k + 1 /\ (k + 1) - 1 = k
      <4>1. j < k
        BY <2>4
      <4> QED
        BY <4>1
    <3>4. Driven(<<g, b, (k + 1) - 1>>)
      BY <2>4, <2>6, <3>3
    <3>5. vals[k + 1] >= vals[j + 1] - 1
      BY <1>2, <3>2, <3>3, <3>4 DEF SkewIn
    <3> QED
      BY <3>1, <3>5
  <2>7. CASE ~(h = g /\ d = b)
    <3>1. ASSUME NEW c \in OutBlockCells, c[1] = h, c[2] = d, Channel(c) \in Pins
          PROVE  pin'[Channel(c)] = pin[Channel(c)]
      <4>1. \A i \in 0..(Blocks[g][b].len - 1) : Channel(<<g, b, i>>) # Channel(c)
        BY <2>7, <3>1, OutBlockCellFacts, OutputsAssumption
      <4> QED
        BY <1>2, <3>1, <4>1
    <3>2. pin'[Channel(bc)] = pin[Channel(bc)] /\ pin'[Channel(bd)] = pin[Channel(bd)]
      BY <2>4, <2>5, <3>1
    <3>3. pin[Channel(bd)] >= pin[Channel(bc)] - 1
      BY DEF SkewBounded
    <3> QED
      BY <3>2, <3>3
  <2> QED
    BY <2>6, <2>7
<1> QED
  BY <1>1, <1>2, SlaveSetPins

\* The channels of a block are output channels of one slave.
LEMMA RestartPins ==
  ASSUME TypeOK, OnlyConfiguredDriven, SkewBounded, NEW s \in Slaves, SlaveRestart(s)
  PROVE  OnlyConfiguredDriven' /\ SkewBounded'
<1>1. pin' = [p \in Pins |-> IF p[1] = s /\ p \in OutPins THEN 0 ELSE pin[p]]
  BY DEF SlaveRestart
<1>2. OnlyConfiguredDriven'
  BY <1>1 DEF OnlyConfiguredDriven, OutPins
<1>3. SkewBounded'
  <2> SUFFICES ASSUME NEW bc \in OutBlockCells, NEW bd \in OutBlockCells,
                      bc[1] = bd[1], bc[2] = bd[2], bc[3] < bd[3], Driven(bd),
                      Channel(bd) \in Pins
               PROVE  pin'[Channel(bd)] >= pin'[Channel(bc)] - 1
    BY DEF SkewBounded, Driven, Cell
  <2>1. PICK h \in OutGroups : \E d \in DOMAIN Blocks[h] : \E n \in 1..32 :
           \E j, k \in 0..(n - 1) :
             n = Blocks[h][d].len /\ bc = <<h, d, j>> /\ bd = <<h, d, k>> /\ j < k
    BY SameBlock, Zenon
  <2>2. PICK d \in DOMAIN Blocks[h] : \E n \in 1..32 : \E j, k \in 0..(n - 1) :
             n = Blocks[h][d].len /\ bc = <<h, d, j>> /\ bd = <<h, d, k>> /\ j < k
    BY <2>1, Zenon
  <2>3. PICK n \in 1..32 : \E j, k \in 0..(n - 1) :
             n = Blocks[h][d].len /\ bc = <<h, d, j>> /\ bd = <<h, d, k>> /\ j < k
    BY <2>2
  <2>4. PICK j \in 0..(n - 1), k \in 0..(n - 1) :
             n = Blocks[h][d].len /\ bc = <<h, d, j>> /\ bd = <<h, d, k>> /\ j < k
    BY <2>3
  <2>5. Channel(bc) \in Pins
    BY SameBlock
  <2>6. Channel(bc)[1] = Channel(bd)[1] /\ Channel(bc)[2] \in OutGroups
        /\ Channel(bd)[2] \in OutGroups
    BY <2>4 DEF Channel
  <2>7. Channel(bc) \in OutPins /\ Channel(bd) \in OutPins
    BY <2>5, <2>6, GroupFacts DEF OutPins, InPins
  <2>8. pin[Channel(bd)] >= pin[Channel(bc)] - 1
    BY DEF SkewBounded
  <2>9. CASE Channel(bd)[1] = s
    <3>1. pin'[Channel(bc)] = 0 /\ pin'[Channel(bd)] = 0
      BY <1>1, <2>5, <2>6, <2>7, <2>9
    <3> QED
      BY <3>1
  <2>10. CASE Channel(bd)[1] # s
    <3>1. pin'[Channel(bc)] = pin[Channel(bc)] /\ pin'[Channel(bd)] = pin[Channel(bd)]
      BY <1>1, <2>5, <2>6, <2>10
    <3> QED
      BY <2>8, <3>1
  <2> QED
    BY <2>9, <2>10
<1> QED
  BY <1>2, <1>3

LEMMA ChangePins ==
  ASSUME TypeOK, OnlyConfiguredDriven, SkewBounded, PinChange
  PROVE  OnlyConfiguredDriven' /\ SkewBounded'
<1>1. PICK q \in InPins : pin' = [pin EXCEPT ![q] = @ + 1]
  BY DEF PinChange
<1>2. \A p \in OutPins : pin'[p] = pin[p]
  BY <1>1 DEF OutPins, TypeOK
<1>3. OnlyConfiguredDriven'
  BY <1>2 DEF OnlyConfiguredDriven
<1>4. \A p : p # q => pin'[p] = pin[p]
  BY <1>1 DEF TypeOK
<1>5. \A bc \in OutBlockCells : Channel(bc)[2] \in OutGroups
  BY OutBlockCellFacts DEF Channel
<1>6. q[2] \in InGroups
  BY DEF InPins
<1>7. \A bc \in OutBlockCells : pin'[Channel(bc)] = pin[Channel(bc)]
  BY <1>4, <1>5, <1>6, GroupFacts
<1>8. SkewBounded'
  BY <1>7 DEF SkewBounded, Driven, Cell
<1> QED
  BY <1>3, <1>8

-----------------------------------------------------------------------------
(* The invariant *)

LEMMA InitSkewInv == Init => SkewInv
<1> SUFFICES ASSUME Init PROVE SkewInv
  OBVIOUS
<1>1. TypeOK
  BY InitTypeOK
<1>2. OutputsFresh
  BY VarFacts DEF Init, OutputsFresh
<1>3. CopyOK
  BY DEF Init, CopyOK, SkewIn
<1>4. QueuesOK(Requests \cup BlockCommands, Responses)
  <2>1. Len(<<>>) = 0 /\ \A S : <<>> \in Seq(S)
    OBVIOUS
  <2>2. \A m \in Nodes : 0 <= PoolCap /\ 0 <= RxCap[m]
    BY BoundsAssumption
  <2> QED
    BY <2>1, <2>2, NodeFacts
       DEF Init, QueuesOK, TxOK, RxOK, TxBounded, RxBounded
<1>5. OnlyConfiguredDriven
  BY DEF Init, OnlyConfiguredDriven, OutPins
<1>6. SkewBounded
  <2> SUFFICES ASSUME NEW bc \in OutBlockCells, NEW bd \in OutBlockCells,
                      bc[1] = bd[1], bc[2] = bd[2], bc[3] < bd[3], Channel(bd) \in Pins
               PROVE  pin[Channel(bd)] >= pin[Channel(bc)] - 1
    BY DEF SkewBounded
  <2>1. PICK h \in OutGroups : \E d \in DOMAIN Blocks[h] : \E n \in 1..32 :
           \E j, k \in 0..(n - 1) :
             n = Blocks[h][d].len /\ bc = <<h, d, j>> /\ bd = <<h, d, k>> /\ j < k
    BY SameBlock, Zenon
  <2>2. PICK d \in DOMAIN Blocks[h] : \E n \in 1..32 : \E j, k \in 0..(n - 1) :
             n = Blocks[h][d].len /\ bc = <<h, d, j>> /\ bd = <<h, d, k>> /\ j < k
    BY <2>1, Zenon
  <2>3. PICK n \in 1..32 : \E j, k \in 0..(n - 1) :
             n = Blocks[h][d].len /\ bc = <<h, d, j>> /\ bd = <<h, d, k>> /\ j < k
    BY <2>2
  <2>4. PICK j \in 0..(n - 1), k \in 0..(n - 1) :
             n = Blocks[h][d].len /\ bc = <<h, d, j>> /\ bd = <<h, d, k>> /\ j < k
    BY <2>3
  <2>5. Channel(bc) \in Pins
    BY SameBlock
  <2>6. pin[Channel(bc)] = 0 /\ pin[Channel(bd)] = 0
    BY <2>5 DEF Init
  <2> QED
    BY <2>6
<1> QED
  BY <1>1, <1>2, <1>3, <1>4, <1>5, <1>6 DEF SkewInv

LEMMA PinsNext ==
  ASSUME TypeOK, QueuesOK(OutFrames, Responses), OnlyConfiguredDriven, SkewBounded, Next
  PROVE  OnlyConfiguredDriven' /\ SkewBounded'
<1>1. CASE PlcTask
  BY <1>1, PinsSame DEF PlcTask, ScanStart, ScanInput, ScanRun, ScanOutput, slaveVars
<1>2. CASE UavcanTask
  BY <1>2, PinsSame DEF UavcanTask, SendGet, CopyCell, SendSet, ComRxDrop, ComRx,
                        StoreCell, ComRxEmpty, ComTx, slaveVars
<1>3. ASSUME NEW s \in Slaves, SlaveLoop(s)
      PROVE  OnlyConfiguredDriven' /\ SkewBounded'
  <2>1. CASE SlaveSet(s)
    BY <2>1, SlaveSetOnly, SlaveSetSkew
  <2>2. CASE ~SlaveSet(s)
    BY <1>3, <2>2, PinsSame DEF SlaveLoop, SlaveGet, SlaveRxEmpty, SlaveTx, slaveVars
  <2> QED
    BY <2>1, <2>2
<1>4. CASE PlcRestart
  BY <1>4, PinsSame DEF PlcRestart, slaveVars
<1> QED
  BY <1>1, <1>2, <1>3, <1>4, RestartPins, ChangePins DEF Next

\* SkewInv is inductive.
LEMMA NextSkewInv == SkewInv /\ Next => SkewInv'
<1> SUFFICES ASSUME SkewInv, Next PROVE SkewInv'
  OBVIOUS
<1>1. /\ TypeOK /\ OutputsFresh /\ CopyOK /\ QueuesOK(OutFrames, Responses)
      /\ OnlyConfiguredDriven /\ SkewBounded
  BY DEF SkewInv, OutFrames
<1>2. TypeOK'
  BY <1>1, NextTypeOK
<1>3. OutputsFresh' /\ CopyOK' /\ QueuesOK(OutFrames, Responses)'
  BY <1>1, <1>2, FreshNext, CopyNext, CommandsNext
<1>4. OnlyConfiguredDriven' /\ SkewBounded'
  BY <1>1, PinsNext
<1> QED
  BY <1>2, <1>3, <1>4 DEF SkewInv, OutFrames

LEMMA StutterSkewInv == SkewInv /\ UNCHANGED vars => SkewInv'
<1> SUFFICES ASSUME SkewInv, UNCHANGED vars PROVE SkewInv'
  OBVIOUS
<1>1. /\ UNCHANGED <<ext, txq, rxq>> /\ UNCHANGED plcVars /\ UNCHANGED comVars
      /\ UNCHANGED slaveVars
  BY DEF vars
<1>2. TypeOK'
  BY StutterTypeOK DEF SkewInv
<1>3. OutputsFresh'
  BY <1>1, FreshSame DEF SkewInv
<1>4. CopyOK'
  <2>1. scanNo' = scanNo /\ scanNo \in Nat
    BY <1>1, BoundsAssumption DEF plcVars, SkewInv, TypeOK, PlcOK
  <2> QED
    BY <1>1, <2>1, CopySame DEF SkewInv
<1>5. QueuesOK(Requests \cup BlockCommands, Responses)'
  BY <1>1, QueuesSame DEF SkewInv
<1>6. OnlyConfiguredDriven' /\ SkewBounded'
  BY <1>1, PinsSame DEF SkewInv, slaveVars
<1> QED
  BY <1>2, <1>3, <1>4, <1>5, <1>6 DEF SkewInv

\* The invariant that relates the scan, the copy of a block, the commands on
\* their way and the pins holds in every reachable state.
THEOREM SkewInvariant == Spec => []SkewInv
BY InitSkewInv, NextSkewInv, StutterSkewInv, PTL DEF Spec

\* A slave never shows a driven output more than one scan older than an output
\* before it in the same block, although uavcan_task copies the block out of
\* the buffer plc_task is writing, frames get lost and nodes restart.
THEOREM SkewIsBounded == Spec => []SkewBounded
<1>1. SkewInv => SkewBounded
  BY DEF SkewInv
<1> QED
  BY <1>1, SkewInvariant, PTL

\* No SetValues frame ever drives a channel that no output block is about.
THEOREM OnlyConfiguredAreDriven == Spec => []OnlyConfiguredDriven
<1>1. SkewInv => OnlyConfiguredDriven
  BY DEF SkewInv
<1> QED
  BY <1>1, SkewInvariant, PTL

-----------------------------------------------------------------------------
(* A frame more, a frame less *)

\* A queue that a frame was appended to, replaced the last one of, or was not
\* taken into.
LEMMA AddedAt ==
  ASSUME NEW S, NEW q \in Seq(S), NEW f \in S, NEW r,
         \/ r = Append(q, f)
         \/ Len(q) >= 1 /\ r = [q EXCEPT ![Len(q)] = f]
         \/ r = q
  PROVE  /\ \A i \in DOMAIN r : r[i] = f \/ (i \in DOMAIN q /\ r[i] = q[i])
         /\ \A i, k \in DOMAIN r : i < k => i \in DOMAIN q /\ r[i] = q[i]
<1>1. Len(q) \in Nat /\ DOMAIN q = 1..Len(q)
  OBVIOUS
<1>2. PICK n \in Nat : n = Len(q)
  BY <1>1
<1>3. CASE r = Append(q, f)
  <2>1. DOMAIN r = 1..(n + 1) /\ r[n + 1] = f /\ \A i \in 1..n : r[i] = q[i]
    BY <1>2, <1>3
  <2>2. \A i \in 1..(n + 1) : i = n + 1 \/ i \in 1..n
    BY <1>2
  <2>3. \A i, k \in 1..(n + 1) : i < k => i \in 1..n
    BY <1>2
  <2> QED
    BY <1>1, <1>2, <2>1, <2>2, <2>3
<1>4. CASE Len(q) >= 1 /\ r = [q EXCEPT ![Len(q)] = f]
  <2>1. DOMAIN r = 1..n /\ r[n] = f /\ \A i \in 1..n : i # n => r[i] = q[i]
    <3>1. q \in [1..n -> S]
      BY <1>2
    <3>2. r = [q EXCEPT ![n] = f] /\ n \in 1..n
      BY <1>2, <1>4
    <3> QED
      BY <3>1, <3>2
  <2>2. \A i, k \in 1..n : i < k => i # n
    BY <1>2
  <2> QED
    BY <1>1, <1>2, <2>1, <2>2
<1> QED
  BY <1>3, <1>4

LEMMA TailAt ==
  ASSUME NEW S, NEW q \in Seq(S), q # <<>>
  PROVE  /\ 1 \in DOMAIN q /\ Head(q) = q[1]
         /\ \A i \in DOMAIN Tail(q) : /\ i \in Nat /\ 1 < i + 1 /\ i + 1 \in DOMAIN q
                                      /\ Tail(q)[i] = q[i + 1]
<1>1. PICK n \in Nat : n = Len(q)
  OBVIOUS
<1>2. n >= 1 /\ DOMAIN q = 1..n /\ Head(q) = q[1]
  BY <1>1
<1>3. DOMAIN Tail(q) = 1..(n - 1) /\ \A i \in 1..(n - 1) : Tail(q)[i] = q[i + 1]
  BY <1>1, <1>2
<1>4. \A i \in 1..(n - 1) : i \in Nat /\ 1 < i + 1 /\ i + 1 \in 1..n
  OBVIOUS
<1> QED
  BY <1>2, <1>3, <1>4

-----------------------------------------------------------------------------
(* Queues in order *)

\* A queue whose frames carry numbers for bc.
Numbered(q, bc) == \A i \in DOMAIN q : IsFor(q[i], bc) => Value(q[i], bc) \in Nat

LEMMA AddedOrder ==
  ASSUME NEW bc, NEW S, NEW q \in Seq(S), NEW f \in S, NEW r,
         \/ r = Append(q, f)
         \/ Len(q) >= 1 /\ r = [q EXCEPT ![Len(q)] = f]
         \/ r = q
  PROVE  /\ Rising(q, bc) /\ (IsFor(f, bc) => AtMost(q, Value(f, bc), bc)) => Rising(r, bc)
         /\ \A x : AtLeast(q, x, bc) /\ (IsFor(f, bc) => x <= Value(f, bc)) => AtLeast(r, x, bc)
         /\ \A x : AtMost(q, x, bc) /\ (IsFor(f, bc) => Value(f, bc) <= x) => AtMost(r, x, bc)
<1>1. /\ \A i \in DOMAIN r : r[i] = f \/ (i \in DOMAIN q /\ r[i] = q[i])
      /\ \A i, k \in DOMAIN r : i < k => i \in DOMAIN q /\ r[i] = q[i]
  BY AddedAt
<1>2. ASSUME Rising(q, bc), IsFor(f, bc) => AtMost(q, Value(f, bc), bc)
      PROVE  Rising(r, bc)
  <2> SUFFICES ASSUME NEW i \in DOMAIN r, NEW k \in DOMAIN r, i < k,
                      IsFor(r[i], bc), IsFor(r[k], bc)
               PROVE  Value(r[i], bc) <= Value(r[k], bc)
    BY DEF Rising
  <2>1. i \in DOMAIN q /\ r[i] = q[i]
    BY <1>1
  <2>2. CASE r[k] = f
    BY <1>2, <2>1, <2>2 DEF AtMost
  <2>3. CASE k \in DOMAIN q /\ r[k] = q[k]
    BY <1>2, <2>1, <2>3 DEF Rising
  <2> QED
    BY <1>1, <2>2, <2>3
<1>3. \A x : AtLeast(q, x, bc) /\ (IsFor(f, bc) => x <= Value(f, bc)) => AtLeast(r, x, bc)
  BY <1>1 DEF AtLeast
<1>4. \A x : AtMost(q, x, bc) /\ (IsFor(f, bc) => Value(f, bc) <= x) => AtMost(r, x, bc)
  BY <1>1 DEF AtMost
<1> QED
  BY <1>2, <1>3, <1>4

LEMMA TailOrder ==
  ASSUME NEW bc, NEW S, NEW q \in Seq(S), q # <<>>
  PROVE  /\ Rising(q, bc) => Rising(Tail(q), bc)
         /\ Rising(q, bc) /\ IsFor(Head(q), bc) => AtLeast(Tail(q), Value(Head(q), bc), bc)
         /\ \A x : AtLeast(q, x, bc) => AtLeast(Tail(q), x, bc)
         /\ \A x : AtLeast(q, x, bc) /\ IsFor(Head(q), bc) => x <= Value(Head(q), bc)
         /\ \A x : AtMost(q, x, bc) => AtMost(Tail(q), x, bc)
         /\ \A x : AtMost(q, x, bc) /\ IsFor(Head(q), bc) => Value(Head(q), bc) <= x
<1>1. /\ 1 \in DOMAIN q /\ Head(q) = q[1]
      /\ \A i \in DOMAIN Tail(q) : /\ i \in Nat /\ 1 < i + 1 /\ i + 1 \in DOMAIN q
                                   /\ Tail(q)[i] = q[i + 1]
  BY TailAt
<1>2. ASSUME Rising(q, bc)
      PROVE  Rising(Tail(q), bc)
  <2> SUFFICES ASSUME NEW i \in DOMAIN Tail(q), NEW k \in DOMAIN Tail(q), i < k,
                      IsFor(Tail(q)[i], bc), IsFor(Tail(q)[k], bc)
               PROVE  Value(Tail(q)[i], bc) <= Value(Tail(q)[k], bc)
    BY DEF Rising
  <2>1. i + 1 < k + 1
    BY <1>1
  <2> QED
    BY <1>1, <1>2, <2>1 DEF Rising
<1>3. Rising(q, bc) /\ IsFor(Head(q), bc) => AtLeast(Tail(q), Value(Head(q), bc), bc)
  BY <1>1 DEF Rising, AtLeast
<1>4. \A x : AtLeast(q, x, bc) => AtLeast(Tail(q), x, bc)
  BY <1>1 DEF AtLeast
<1>5. \A x : AtMost(q, x, bc) => AtMost(Tail(q), x, bc)
  BY <1>1 DEF AtMost
<1>6. /\ \A x : AtLeast(q, x, bc) /\ IsFor(Head(q), bc) => x <= Value(Head(q), bc)
      /\ \A x : AtMost(q, x, bc) /\ IsFor(Head(q), bc) => Value(Head(q), bc) <= x
  BY <1>1 DEF AtLeast, AtMost
<1> QED
  BY <1>2, <1>3, <1>4, <1>5, <1>6

-----------------------------------------------------------------------------
(* What keeps a chain *)

\* A new value joins behind.
LEMMA ChainUp ==
  ASSUME NEW bc, NEW in, NEW out, Numbered(in, bc), Numbered(out, bc),
         NEW p \in Nat, NEW x \in Nat, NEW y \in Nat, x <= y, Chain(p, in, out, x, bc)
  PROVE  Chain(p, in, out, y, bc)
<1>1. p <= x /\ AtMost(in, x, bc) /\ AtMost(out, x, bc)
  BY DEF Chain
<1>2. AtMost(in, y, bc)
  BY <1>1 DEF AtMost, Numbered
<1>3. AtMost(out, y, bc)
  BY <1>1 DEF AtMost, Numbered
<1>4. p <= y
  BY <1>1
<1> QED
  BY <1>2, <1>3, <1>4 DEF Chain

\* The PLC sends the value.
LEMMA ChainSend ==
  ASSUME NEW bc, NEW in, NEW S, NEW out \in Seq(S), NEW f \in S, NEW r,
         NEW p \in Nat, NEW x \in Nat, Chain(p, in, out, x, bc),
         r = Append(out, f) \/ r = out, IsFor(f, bc) => Value(f, bc) = x
  PROVE  Chain(p, in, r, x, bc)
<1>1. /\ p <= x /\ AtMost(in, x, bc) /\ Rising(out, bc) /\ AtLeast(out, p, bc)
      /\ AtMost(out, x, bc)
      /\ \A k \in DOMAIN out : IsFor(out[k], bc) => AtMost(in, Value(out[k], bc), bc)
  BY DEF Chain
<1>2. x <= x
  OBVIOUS
<1>3. Rising(r, bc) /\ AtLeast(r, p, bc) /\ AtMost(r, x, bc)
  BY <1>1, <1>2, AddedOrder
<1>4. \A i \in DOMAIN r : r[i] = f \/ (i \in DOMAIN out /\ r[i] = out[i])
  BY AddedAt
<1>5. \A k \in DOMAIN r : IsFor(r[k], bc) => AtMost(in, Value(r[k], bc), bc)
  BY <1>1, <1>4
<1> QED
  BY <1>1, <1>3, <1>5 DEF Chain

\* The frame ahead reaches the slave, or gets lost.
LEMMA ChainDeliver ==
  ASSUME NEW bc, NEW S, NEW in \in Seq(S), NEW out \in Seq(S), out # <<>>, NEW r,
         \/ r = Append(in, Head(out))
         \/ Len(in) >= 1 /\ r = [in EXCEPT ![Len(in)] = Head(out)]
         \/ r = in,
         NEW p, NEW x, Chain(p, in, out, x, bc)
  PROVE  Chain(p, r, Tail(out), x, bc)
<1> DEFINE f == Head(out)
<1>1. /\ p <= x /\ Rising(in, bc) /\ AtLeast(in, p, bc) /\ AtMost(in, x, bc)
      /\ Rising(out, bc) /\ AtLeast(out, p, bc) /\ AtMost(out, x, bc)
      /\ \A k \in DOMAIN out : IsFor(out[k], bc) => AtMost(in, Value(out[k], bc), bc)
  BY DEF Chain
<1>2. /\ f \in S /\ 1 \in DOMAIN out /\ f = out[1]
      /\ \A i \in DOMAIN Tail(out) : i + 1 \in DOMAIN out /\ 1 < i + 1 /\ Tail(out)[i] = out[i + 1]
  BY TailAt, QueueFacts
<1>3. /\ Rising(Tail(out), bc) /\ AtLeast(Tail(out), p, bc) /\ AtMost(Tail(out), x, bc)
      /\ IsFor(f, bc) => p <= Value(f, bc) /\ Value(f, bc) <= x
  BY <1>1, TailOrder
<1>4. IsFor(f, bc) => AtMost(in, Value(f, bc), bc)
  BY <1>1, <1>2
<1>5. \A y : AtMost(in, y, bc) /\ (IsFor(f, bc) => Value(f, bc) <= y) => AtMost(r, y, bc)
  BY <1>2, AddedOrder
<1>6. Rising(r, bc) /\ AtLeast(r, p, bc) /\ AtMost(r, x, bc)
  BY <1>1, <1>2, <1>3, <1>4, AddedOrder
<1>7. ASSUME NEW k \in DOMAIN Tail(out), IsFor(Tail(out)[k], bc)
      PROVE  AtMost(r, Value(Tail(out)[k], bc), bc)
  <2>1. AtMost(in, Value(Tail(out)[k], bc), bc)
    BY <1>1, <1>2, <1>7
  <2>2. IsFor(f, bc) => Value(f, bc) <= Value(Tail(out)[k], bc)
    BY <1>1, <1>2, <1>7 DEF Rising
  <2> QED
    BY <1>5, <2>1, <2>2
<1> QED
  BY <1>1, <1>3, <1>6, <1>7 DEF Chain

\* The slave takes the frame ahead, and applies it or not.
LEMMA ChainTake ==
  ASSUME NEW bc, NEW S, NEW in \in Seq(S), in # <<>>, NEW out, NEW p, NEW x, NEW r,
         Chain(p, in, out, x, bc),
         r = p \/ (IsFor(Head(in), bc) /\ r = Value(Head(in), bc))
  PROVE  Chain(r, Tail(in), out, x, bc)
<1> DEFINE f == Head(in)
<1>1. /\ p <= x /\ Rising(in, bc) /\ AtLeast(in, p, bc) /\ AtMost(in, x, bc)
      /\ Rising(out, bc) /\ AtLeast(out, p, bc) /\ AtMost(out, x, bc)
      /\ \A k \in DOMAIN out : IsFor(out[k], bc) => AtMost(in, Value(out[k], bc), bc)
  BY DEF Chain
<1>2. \A y : AtMost(in, y, bc) => AtMost(Tail(in), y, bc)
  BY TailOrder
<1>3. /\ Rising(Tail(in), bc) /\ AtLeast(Tail(in), p, bc) /\ AtMost(Tail(in), x, bc)
      /\ IsFor(f, bc) => Value(f, bc) <= x /\ AtLeast(Tail(in), Value(f, bc), bc)
  BY <1>1, TailOrder
<1>4. \A k \in DOMAIN out : IsFor(out[k], bc) => AtMost(Tail(in), Value(out[k], bc), bc)
  BY <1>1, <1>2
<1>5. CASE r = p
  BY <1>1, <1>3, <1>4, <1>5 DEF Chain
<1>6. CASE IsFor(f, bc) /\ r = Value(f, bc)
  <2>1. AtLeast(out, r, bc)
    <3> SUFFICES ASSUME NEW k \in DOMAIN out, IsFor(out[k], bc)
                 PROVE  r <= Value(out[k], bc)
      BY DEF AtLeast
    <3> QED
      BY <1>1, <1>6, TailOrder
  <2> QED
    BY <1>1, <1>3, <1>4, <1>6, <2>1 DEF Chain
<1> QED
  BY <1>5, <1>6

\* A restart of the slave, and one of the PLC.
LEMMA ChainReset ==
  ASSUME NEW bc, NEW in, NEW out, Numbered(out, bc), NEW p, NEW x \in Nat,
         Chain(p, in, out, x, bc)
  PROVE  Chain(0, <<>>, out, x, bc)
<1>1. Rising(<<>>, bc) /\ \A y : AtLeast(<<>>, y, bc) /\ AtMost(<<>>, y, bc)
  BY DEF Rising, AtLeast, AtMost
<1>2. AtLeast(out, 0, bc)
  BY DEF Numbered, AtLeast
<1> QED
  BY <1>1, <1>2 DEF Chain

LEMMA ChainBoot ==
  ASSUME NEW bc, NEW in, NEW out, NEW p, NEW x, Chain(p, in, out, x, bc)
  PROVE  Chain(p, in, <<>>, x, bc)
<1>1. Rising(<<>>, bc) /\ \A y : AtLeast(<<>>, y, bc) /\ AtMost(<<>>, y, bc)
  BY DEF Rising, AtLeast, AtMost
<1> QED
  BY <1>1 DEF Chain
-----------------------------------------------------------------------------
(* The state *)

\* What a frame carries for an output value is a number.
LEMMA FramesNumbered ==
  ASSUME NEW bc \in OutBlockCells, NEW q \in Seq(OutFrames)
  PROVE  Numbered(q, bc)
<1>1. PICK g \in OutGroups : \E b \in DOMAIN Blocks[g] :
        \E j \in 0..(Blocks[g][b].len - 1) : bc = <<g, b, j>>
  BY OutBlockCellFacts
<1>2. PICK b \in DOMAIN Blocks[g] : \E j \in 0..(Blocks[g][b].len - 1) : bc = <<g, b, j>>
  BY <1>1
<1>3. PICK j \in 0..(Blocks[g][b].len - 1) : bc = <<g, b, j>>
  BY <1>2
<1>4. PICK n \in 1..32 : n = Blocks[g][b].len
  BY BlockFacts DEF Groups
<1>5. j + 1 \in 1..n
  BY <1>3, <1>4
<1>6. ASSUME NEW f \in OutFrames, IsFor(f, bc)
      PROVE  Value(f, bc) \in Nat
  <2>1. f \in Commands /\ f.grp = g /\ IsBlockCommand(f, b)
    BY <1>3, <1>6, OutFrameFacts DEF IsFor, FrameSets
  <2>2. f.vals \in Seq(Nat) /\ Len(f.vals) = n
    BY <1>4, <2>1 DEF Commands, IsBlockCommand
  <2>3. j + 1 \in DOMAIN f.vals
    BY <1>5, <2>2
  <2>4. f.vals[j + 1] \in Nat
    BY <2>2, <2>3
  <2> QED
    BY <1>3, <2>4 DEF Value
<1>7. \A i \in DOMAIN q : q[i] \in OutFrames
  OBVIOUS
<1> QED
  BY <1>6, <1>7 DEF Numbered

LEMMA OrderFacts ==
  ASSUME SkewInv, NEW bc \in OutBlockCells, Channel(bc) \in Pins
  PROVE  /\ Channel(bc)[1] \in Slaves /\ Channel(bc)[1] \in Nodes
         /\ Channel(bc)[2] \in OutGroups /\ bc[3] \in Nat
         /\ Cell(bc[1], bc[2], bc[3]) \in Cells /\ Cell(bc[1], bc[2], bc[3])[1] \in OutGroups
         /\ pin[Channel(bc)] \in Nat /\ ext[Cell(bc[1], bc[2], bc[3])] \in Nat
         /\ Copied(bc) => buf[bc[3] + 1] \in Nat
         /\ rxq[Channel(bc)[1]] \in Seq(OutFrames) /\ Numbered(rxq[Channel(bc)[1]], bc)
         /\ txq[Plc] \in Seq(OutFrames) /\ Numbered(txq[Plc], bc)
<1>1. PICK g \in OutGroups : \E b \in DOMAIN Blocks[g] :
        \E j \in 0..(Blocks[g][b].len - 1) : bc = <<g, b, j>>
  BY OutBlockCellFacts
<1>2. PICK b \in DOMAIN Blocks[g] : \E j \in 0..(Blocks[g][b].len - 1) : bc = <<g, b, j>>
  BY <1>1
<1>3. PICK j \in 0..(Blocks[g][b].len - 1) : bc = <<g, b, j>>
  BY <1>2
<1>4. g \in Groups
  BY DEF Groups
<1>5. PICK n \in 1..32 : n = Blocks[g][b].len
  BY <1>4, BlockFacts
<1>6. j \in Nat /\ j + 1 \in 1..n
  BY <1>3, <1>5
<1>7. Cell(g, b, j) \in Cells /\ Cell(g, b, j)[1] = g
  BY <1>4, BlockFacts DEF Cell
<1>8. Channel(bc)[1] \in Slaves /\ Channel(bc)[2] = g
  BY <1>3 DEF Channel, Pins
<1>9. pin \in [Pins -> Nat] /\ ext \in [Cells -> Nat] /\ buf \in Seq(Nat)
  BY DEF SkewInv, TypeOK, ComOK
<1>10. ASSUME Copied(bc)
       PROVE  buf[bc[3] + 1] \in Nat
  <2>1. j < Len(buf)
    BY <1>3, <1>10 DEF Copied
  <2>2. j + 1 \in DOMAIN buf
    BY <1>6, <1>9, <2>1
  <2> QED
    BY <1>3, <1>9, <2>2
<1>11. txq[Plc] \in Seq(OutFrames) /\ \A s \in Slaves : rxq[s] \in Seq(OutFrames)
  BY DEF SkewInv, QueuesOK, TxOK, RxOK, OutFrames
<1> QED
  BY <1>3, <1>6, <1>7, <1>8, <1>9, <1>10, <1>11, NodeFacts, FramesNumbered

LEMMA NumberedNext ==
  ASSUME SkewInv', NEW bc \in OutBlockCells, Channel(bc) \in Pins
  PROVE  /\ pin'[Channel(bc)] \in Nat
         /\ Numbered(rxq'[Channel(bc)[1]], bc) /\ Numbered(txq'[Plc], bc)
<1>1. Channel(bc)[1] \in Slaves
  BY DEF Pins
<1>2. /\ pin' \in [Pins -> Nat] /\ txq'[Plc] \in Seq(OutFrames)
      /\ \A s \in Slaves : rxq'[s] \in Seq(OutFrames)
  BY DEF SkewInv, TypeOK, QueuesOK, TxOK, RxOK, OutFrames
<1> QED
  BY <1>1, <1>2, FramesNumbered

\* The shared output cells only ever get newer values.
LEMMA ExtRises ==
  ASSUME TypeOK, OutputsFresh, Next, NEW c \in Cells, c[1] \in OutGroups
  PROVE  ext[c] <= ext'[c]
<1>1. ext \in [Cells -> Nat] /\ ext[c] <= scanNo /\ scanNo \in Nat
  BY BoundsAssumption DEF TypeOK, PlcOK, OutputsFresh
<1>2. CASE PlcTask
  <2>1. ext' = ext \/ \E d \in Cells : ext' = [ext EXCEPT ![d] = scanNo]
    <3>1. CASE ScanOutput
      <4>1. pos \in DOMAIN OutVars
        BY <3>1 DEF ScanOutput, TypeOK, PlcOK
      <4> QED
        BY <3>1, <4>1, VarFacts DEF ScanOutput
    <3>2. CASE ~ScanOutput
      BY <1>2, <3>2 DEF PlcTask, ScanStart, ScanInput, ScanRun
    <3> QED
      BY <3>1, <3>2
  <2> QED
    BY <1>1, <2>1
<1>3. CASE StoreCell
  <2> DEFINE d == Cell(rgrp, blk, Blocks[rgrp][blk].len - Len(buf))
  <2>1. d[1] = rgrp /\ rgrp \in InGroups
    BY DEF Cell, TypeOK, ComOK
  <2>2. ext' = [ext EXCEPT ![d] = Head(buf)]
    BY <1>3 DEF StoreCell
  <2> HIDE DEF d
  <2>3. c # d
    BY <2>1, GroupFacts
  <2> QED
    BY <1>1, <2>2, <2>3
<1>4. CASE UavcanTask /\ ~StoreCell
  <2>1. UNCHANGED ext
    BY <1>4 DEF UavcanTask, SendGet, CopyCell, SendSet, ComRxDrop, ComRx, ComRxEmpty, ComTx
  <2> QED
    BY <1>1, <2>1
<1>5. ASSUME NEW s \in Slaves, SlaveLoop(s) \/ SlaveRestart(s)
      PROVE  ext[c] <= ext'[c]
  <2>1. UNCHANGED ext
    BY <1>5 DEF SlaveLoop, SlaveGet, SlaveSet, SlaveRxEmpty, SlaveTx, SlaveRestart
  <2> QED
    BY <1>1, <2>1
<1>6. CASE PinChange
  BY <1>1, <1>6 DEF PinChange
<1>7. CASE PlcRestart
  <2>1. ext'[c] = scanNo + 1
    BY <1>7 DEF PlcRestart
  <2> QED
    BY <1>1, <2>1
<1> QED
  BY <1>2, <1>3, <1>4, <1>5, <1>6, <1>7 DEF Next

\* What a step must do to keep the values of one cell in order, unless it
\* copies or sends them.
LEMMA OrderKept ==
  ASSUME SkewInv, Next, NEW bc \in OutBlockCells, Channel(bc) \in Pins, Ordered(bc),
         \A x \in Nat : ChainTo(x, bc)
           => Chain(pin'[Channel(bc)], rxq'[Channel(bc)[1]], txq'[Plc], x, bc),
         Copied(bc)' => Copied(bc) /\ buf' = buf
  PROVE  Ordered(bc)'
<1> DEFINE c == Cell(bc[1], bc[2], bc[3])
           x == buf[bc[3] + 1]
<1>1. /\ c \in Cells /\ ext[c] \in Nat /\ c[1] \in OutGroups
      /\ Copied(bc) => x \in Nat
  BY OrderFacts
<1>2. ext[c] <= ext'[c]
  BY <1>1, ExtRises DEF SkewInv
<1>3. ext'[c] \in Nat
  BY <1>1, NextSkewInv DEF SkewInv, TypeOK
<1>4. ChainTo(ext[c], bc) /\ (Copied(bc) => x <= ext[c] /\ ChainTo(x, bc))
  BY DEF Ordered
<1>5. Chain(pin'[Channel(bc)], rxq'[Channel(bc)[1]], txq'[Plc], ext[c], bc)
  BY <1>1, <1>4
<1>6. Chain(pin'[Channel(bc)], rxq'[Channel(bc)[1]], txq'[Plc], ext'[c], bc)
  BY <1>1, <1>2, <1>3, <1>5, ChainUp, NumberedNext, NextSkewInv
<1>7. Copied(bc)' => /\ x <= ext'[c] /\ buf' = buf
                     /\ Chain(pin'[Channel(bc)], rxq'[Channel(bc)[1]], txq'[Plc], x, bc)
  BY <1>1, <1>2, <1>3, <1>4
<1> QED
  BY <1>6, <1>7 DEF Ordered, ChainTo

\* A step at one end of the bus leaves the queues of the other alone.
LEMMA OtherQueues ==
  ASSUME SkewInv, NEW s \in Slaves
  PROVE  /\ \A q : txq' = [txq EXCEPT ![s] = q] => txq'[Plc] = txq[Plc]
         /\ \A q : rxq' = [rxq EXCEPT ![s] = q] => rxq'[Plc] = rxq[Plc]
         /\ \A q : txq' = [txq EXCEPT ![Plc] = q] => txq'[s] = txq[s]
         /\ \A q : rxq' = [rxq EXCEPT ![Plc] = q] => rxq'[s] = rxq[s]
<1>1. /\ txq \in [Nodes -> Seq(OutFrames \cup Responses)]
      /\ rxq \in [Nodes -> Seq(OutFrames \cup Responses)]
  BY DEF SkewInv, QueuesOK, TxOK, RxOK, OutFrames
<1>2. s # Plc /\ s \in Nodes /\ Plc \in Nodes
  BY NodeFacts
<1> QED
  BY <1>1, <1>2

\* A step that touches none of it.
LEMMA OrderSame ==
  ASSUME SkewInv, Next, NEW bc \in OutBlockCells, Channel(bc) \in Pins, Ordered(bc),
         pin'[Channel(bc)] = pin[Channel(bc)],
         rxq'[Channel(bc)[1]] = rxq[Channel(bc)[1]], txq'[Plc] = txq[Plc],
         Copied(bc)' => Copied(bc) /\ buf' = buf
  PROVE  Ordered(bc)'
BY OrderKept, OrderFacts DEF ChainTo

\* A copy that has not begun has reached no cell.
LEMMA NotCopied ==
  ASSUME NEW bc \in OutBlockCells, comPc' # "send" \/ Len(buf') = 0
  PROVE  ~Copied(bc)'
<1>1. bc[3] \in Nat
  BY OutBlockCellFacts, BlockFacts DEF Groups
<1> QED
  BY <1>1 DEF Copied

-----------------------------------------------------------------------------
(* Each action keeps the values of a cell in order *)

LEMMA OrderPlcTask ==
  ASSUME SkewInv, PlcTask, NEW bc \in OutBlockCells, Channel(bc) \in Pins, Ordered(bc)
  PROVE  Ordered(bc)'
<1>1. UNCHANGED comVars /\ UNCHANGED <<txq, rxq>> /\ UNCHANGED pin
  BY DEF PlcTask, ScanStart, ScanInput, ScanRun, ScanOutput, slaveVars
<1>2. Copied(bc)' => Copied(bc) /\ buf' = buf
  BY <1>1 DEF comVars, Copied, Grp
<1> QED
  BY <1>1, <1>2, OrderSame DEF Next

LEMMA OrderCopyCell ==
  ASSUME SkewInv, CopyCell, NEW bc \in OutBlockCells, Channel(bc) \in Pins, Ordered(bc)
  PROVE  Ordered(bc)'
<1> DEFINE e == ext[Cell(bc[1], bc[2], bc[3])]
<1>1. UNCHANGED <<ext, phase, comPc, blk, txq, rxq, pin>> /\ Grp' = Grp
      /\ buf' = Append(buf, ext[Cell(Grp, blk, Len(buf))])
  BY DEF CopyCell, slaveVars, Grp
<1>2. buf \in Seq(Nat) /\ buf' \in Seq(Nat)
  BY NextSkewInv DEF SkewInv, TypeOK, ComOK, Next, UavcanTask
<1>3. bc[3] \in Nat /\ e \in Nat
  BY OrderFacts
<1>4. ChainTo(e, bc) /\ (Copied(bc) => buf[bc[3] + 1] <= e /\ ChainTo(buf[bc[3] + 1], bc))
  BY DEF Ordered
<1>5. ASSUME Copied(bc)'
      PROVE  buf'[bc[3] + 1] = e \/ (Copied(bc) /\ buf'[bc[3] + 1] = buf[bc[3] + 1])
  <2>1. comPc = "send" /\ Grp = bc[1] /\ blk = bc[2] /\ bc[3] < Len(buf')
    BY <1>1, <1>5 DEF Copied
  <2>2. PICK m \in Nat : m = Len(buf)
    BY <1>2
  <2>3. ext[Cell(Grp, blk, Len(buf))] \in Nat
    BY <1>1, <1>2, <2>2
  <2>4. CASE bc[3] = m
    BY <1>1, <1>2, <2>1, <2>2, <2>4
  <2>5. CASE bc[3] < m
    BY <1>1, <1>2, <1>3, <2>1, <2>2, <2>5 DEF Copied
  <2>6. Len(buf') = m + 1
    BY <1>1, <1>2, <2>2
  <2> QED
    BY <1>3, <2>1, <2>2, <2>4, <2>5, <2>6
<1>6. Copied(bc)' => buf'[bc[3] + 1] <= e /\ ChainTo(buf'[bc[3] + 1], bc)
  BY <1>3, <1>4, <1>5
<1> QED
  BY <1>1, <1>4, <1>6 DEF Ordered, ChainTo

\* A command that carries a value of bc is one for its block.
LEMMA SameCommand ==
  ASSUME NEW f \in Commands, NEW b \in DOMAIN Blocks[f.grp], IsBlockCommand(f, b),
         NEW bc \in OutBlockCells, IsFor(f, bc)
  PROVE  bc[1] = f.grp /\ bc[2] = b /\ bc[3] < Len(f.vals)
<1>1. PICK g \in OutGroups : \E d \in DOMAIN Blocks[g] :
        \E j \in 0..(Blocks[g][d].len - 1) : bc = <<g, d, j>>
  BY OutBlockCellFacts
<1>2. PICK d \in DOMAIN Blocks[g] : \E j \in 0..(Blocks[g][d].len - 1) : bc = <<g, d, j>>
  BY <1>1
<1>3. PICK j \in 0..(Blocks[g][d].len - 1) : bc = <<g, d, j>>
  BY <1>2
<1>4. f.grp = g /\ IsBlockCommand(f, d)
  BY <1>3 DEF IsFor, Commands
<1>5. Blocks[g][b].len \in 1..32 /\ Blocks[g][d].len \in 1..32
  BY <1>4, BlockFacts DEF Groups
<1>6. 0 \in 0..(Blocks[g][b].len - 1) /\ 0 \in 0..(Blocks[g][d].len - 1)
  BY <1>5
<1>7. <<g, b, 0>> \in OutBlockCells /\ <<g, d, 0>> \in OutBlockCells
  BY <1>4, <1>6, OutBlockCellFacts
<1>8. Channel(<<g, b, 0>>) = Channel(<<g, d, 0>>)
  BY <1>4 DEF IsBlockCommand, Channel
<1>9. <<g, b, 0>> = <<g, d, 0>>
  BY <1>7, <1>8, OutputsAssumption
<1>10. b = d
  BY <1>9
<1>11. bc[3] < Len(f.vals)
  BY <1>3, <1>4, <1>5 DEF IsBlockCommand
<1> QED
  BY <1>3, <1>4, <1>10, <1>11

\* What is sent joins the chain of every value it carries.
LEMMA OrderSendSet ==
  ASSUME SkewInv, SendSet, NEW bc \in OutBlockCells, Channel(bc) \in Pins, Ordered(bc)
  PROVE  Ordered(bc)'
<1> DEFINE e == ext[Cell(bc[1], bc[2], bc[3])]
           x == buf[bc[3] + 1]
           p == pin[Channel(bc)]
           in == rxq[Channel(bc)[1]]
<1>1. PICK f : f = SetFrame(MyBlocks[blk].node, Grp, MyBlocks[blk].index, buf)
  OBVIOUS
<1>2. /\ f \in BlockCommands /\ IsBlockCommand(f, blk) /\ f \in Commands
      /\ f.grp = Grp /\ f.vals = buf /\ blk \in DOMAIN Blocks[Grp]
  BY <1>1, SendSetFrame, OutFrameFacts DEF SkewInv
<1>3. /\ comPc = "send" /\ UNCHANGED <<ext, rxq, pin>> /\ buf' = <<>>
      /\ Enqueue(Plc, f)
  BY <1>1 DEF SendSet, slaveVars
<1>4. txq'[Plc] = Append(txq[Plc], f) \/ txq'[Plc] = txq[Plc]
  <2>1. txq \in [Nodes -> Seq(OutFrames \cup Responses)]
    BY DEF SkewInv, QueuesOK, TxOK, OutFrames
  <2> QED
    BY <1>3, <2>1, NodeFacts DEF Enqueue
<1>5. /\ p \in Nat /\ e \in Nat
      /\ Copied(bc) => x \in Nat
      /\ txq[Plc] \in Seq(OutFrames) /\ f \in OutFrames
  BY <1>2, OrderFacts DEF OutFrames
<1>6. ChainTo(e, bc) /\ (Copied(bc) => x <= e /\ ChainTo(x, bc))
  BY DEF Ordered
<1>7. ~Copied(bc)'
  BY <1>3, NotCopied
<1>8. \A y \in Nat : Chain(p, in, txq[Plc], y, bc) /\ (IsFor(f, bc) => Value(f, bc) = y)
                      => Chain(p, in, txq'[Plc], y, bc)
  <2> HIDE DEF p, in
  <2> QED
    BY <1>4, <1>5, ChainSend
<1>9. CASE IsFor(f, bc)
  <2>1. Copied(bc) /\ Value(f, bc) = x
    BY <1>2, <1>3, <1>9, SameCommand DEF Copied, Value
  <2>2. Chain(p, in, txq'[Plc], x, bc)
    BY <1>8, <1>5, <1>6, <2>1 DEF ChainTo
  <2>3. Numbered(in, bc) /\ Numbered(txq'[Plc], bc)
    <3>1. SkewInv'
      BY NextSkewInv DEF Next, UavcanTask
    <3> QED
      BY <3>1, OrderFacts, NumberedNext
  <2>4. Chain(p, in, txq'[Plc], e, bc)
    <3> HIDE DEF p, e, x, in
    <3> QED
      BY <1>5, <1>6, <2>1, <2>2, <2>3, ChainUp
  <2> QED
    BY <1>3, <1>7, <2>4 DEF Ordered, ChainTo
<1>10. CASE ~IsFor(f, bc)
  <2>1. Chain(p, in, txq'[Plc], e, bc)
    BY <1>8, <1>5, <1>6, <1>10 DEF ChainTo
  <2> QED
    BY <1>3, <1>7, <2>1 DEF Ordered, ChainTo
<1> QED
  BY <1>9, <1>10

\* What the UAVCAN task does to the queue of the PLC.
LEMMA PlcQueue ==
  ASSUME SkewInv, NEW f, Enqueue(Plc, f)
  PROVE  txq'[Plc] = Append(txq[Plc], f) \/ txq'[Plc] = txq[Plc]
<1>1. txq \in [Nodes -> Seq(OutFrames \cup Responses)]
  BY DEF SkewInv, QueuesOK, TxOK, OutFrames
<1> QED
  BY <1>1, NodeFacts DEF Enqueue

\* A request says nothing about outputs.
LEMMA OrderSendGet ==
  ASSUME SkewInv, SendGet, NEW bc \in OutBlockCells, Channel(bc) \in Pins, Ordered(bc)
  PROVE  Ordered(bc)'
<1>1. PICK port \in {"INPUT", "OUTPUT"} :
        Enqueue(Plc, GetFrame(MyBlocks[blk].node, Grp, MyBlocks[blk].index,
                              MyBlocks[blk].len, port))
  BY DEF SendGet
<1>2. PICK f : f = GetFrame(MyBlocks[blk].node, Grp, MyBlocks[blk].index,
                            MyBlocks[blk].len, port)
  OBVIOUS
<1>3. f \in OutFrames /\ ~IsFor(f, bc)
  BY <1>2, SendFacts
     DEF SendGet, GetFrame, Requests, OutFrames, SkewInv, TypeOK, IsFor
<1>4. UNCHANGED <<rxq, pin>> /\ Len(buf') = 0
  BY DEF SendGet, slaveVars, SkewInv, TypeOK, ComOK
<1>5. txq'[Plc] = Append(txq[Plc], f) \/ txq'[Plc] = txq[Plc]
  BY <1>1, <1>2, PlcQueue
<1>6. pin[Channel(bc)] \in Nat /\ txq[Plc] \in Seq(OutFrames)
  BY OrderFacts
<1>7. \A x \in Nat : ChainTo(x, bc)
        => Chain(pin[Channel(bc)], rxq[Channel(bc)[1]], txq'[Plc], x, bc)
  BY <1>3, <1>5, <1>6, ChainSend DEF ChainTo
<1>8. Next
  BY DEF Next, UavcanTask
<1>9. ~Copied(bc)'
  BY <1>4, NotCopied
<1> QED
  BY <1>4, <1>7, <1>8, <1>9, OrderKept

\* Receiving touches the queue of the PLC only.
LEMMA OrderReceive ==
  ASSUME SkewInv, ComRxDrop \/ ComRx \/ StoreCell \/ ComRxEmpty,
         NEW bc \in OutBlockCells, Channel(bc) \in Pins, Ordered(bc)
  PROVE  Ordered(bc)'
<1>1. Next
  BY DEF Next, UavcanTask
<1>2. UNCHANGED pin /\ UNCHANGED txq
  BY DEF ComRxDrop, ComRx, StoreCell, ComRxEmpty, slaveVars
<1>3. rxq'[Channel(bc)[1]] = rxq[Channel(bc)[1]]
  <2>1. Channel(bc)[1] \in Slaves
    BY OrderFacts
  <2>2. rxq' = rxq \/ rxq' = [rxq EXCEPT ![Plc] = Tail(rxq[Plc])]
    BY DEF ComRxDrop, ComRx, StoreCell, ComRxEmpty
  <2> QED
    BY <2>1, <2>2, OtherQueues
<1>4. Copied(bc)' => Copied(bc) /\ buf' = buf
  <2>1. CASE ComRxDrop
    BY <2>1 DEF ComRxDrop, comVars, Copied, Grp
  <2>2. CASE ComRx \/ StoreCell
    <3>1. comPc' # "send"
      BY <2>2 DEF ComRx, StoreCell
    <3> QED
      BY <3>1 DEF Copied
  <2>3. CASE ComRxEmpty
    <3>1. Len(buf') = 0
      BY <2>3 DEF ComRxEmpty, SkewInv, TypeOK, ComOK
    <3> QED
      BY <3>1, NotCopied
  <2> QED
    BY <2>1, <2>2, <2>3
<1> QED
  BY <1>1, <1>2, <1>3, <1>4, OrderSame

\* The queue of a slave after a frame of the PLC.
LEMMA SlaveQueue ==
  ASSUME SkewInv, Deliver(Plc) \/ Lose(Plc), NEW s \in Slaves
  PROVE  \/ rxq'[s] = Append(rxq[s], Head(txq[Plc]))
         \/ Len(rxq[s]) >= 1 /\ rxq'[s] = [rxq[s] EXCEPT ![Len(rxq[s])] = Head(txq[Plc])]
         \/ rxq'[s] = rxq[s]
<1>1. CASE Lose(Plc)
  BY <1>1 DEF Lose
<1>2. CASE Deliver(Plc)
  <2> DEFINE f == Head(txq[Plc])
  <2>1. rxq'[s] = IF s \in Receivers(f) THEN Received(s, f) ELSE rxq[s]
    BY <1>2, NodeFacts DEF Deliver
  <2>2. PICK n \in Nat : n = Len(rxq[s])
    BY DEF SkewInv, QueuesOK, RxOK
  <2>3. RxCap[s] \in Nat /\ RxCap[s] >= 1
    BY BoundsAssumption, NodeFacts
  <2>4. ~(n < RxCap[s]) => n >= 1
    BY <2>3
  <2> HIDE DEF f
  <2>5. \/ Received(s, f) = Append(rxq[s], f)
        \/ Len(rxq[s]) >= 1 /\ Received(s, f) = [rxq[s] EXCEPT ![Len(rxq[s])] = f]
        \/ Received(s, f) = rxq[s]
    BY <2>2, <2>4 DEF Received
  <2> QED
    BY <2>1, <2>5 DEF f
<1> QED
  BY <1>1, <1>2

LEMMA OrderComTx ==
  ASSUME SkewInv, ComTx, NEW bc \in OutBlockCells, Channel(bc) \in Pins, Ordered(bc)
  PROVE  Ordered(bc)'
<1> DEFINE s == Channel(bc)[1]
<1>1. Next
  BY DEF Next, UavcanTask
<1>2. UNCHANGED pin /\ Len(buf') = 0
  BY DEF ComTx, slaveVars, SkewInv, TypeOK, ComOK
<1>3. txq[Plc] # <<>> /\ txq'[Plc] = Tail(txq[Plc])
  <2>1. txq \in [Nodes -> Seq(OutFrames \cup Responses)]
    BY DEF SkewInv, QueuesOK, TxOK, OutFrames
  <2> QED
    BY <2>1, NodeFacts DEF ComTx, Deliver, Lose
<1>4. s \in Slaves /\ rxq[s] \in Seq(OutFrames) /\ txq[Plc] \in Seq(OutFrames)
  BY OrderFacts
<1>5. \/ rxq'[s] = Append(rxq[s], Head(txq[Plc]))
      \/ Len(rxq[s]) >= 1 /\ rxq'[s] = [rxq[s] EXCEPT ![Len(rxq[s])] = Head(txq[Plc])]
      \/ rxq'[s] = rxq[s]
  BY <1>4, SlaveQueue DEF ComTx
<1>6. \A x \in Nat : ChainTo(x, bc) => Chain(pin[Channel(bc)], rxq'[s], txq'[Plc], x, bc)
  <2> HIDE DEF s
  <2> SUFFICES ASSUME NEW x \in Nat, Chain(pin[Channel(bc)], rxq[s], txq[Plc], x, bc)
               PROVE  Chain(pin[Channel(bc)], rxq'[s], Tail(txq[Plc]), x, bc)
    BY <1>3 DEF ChainTo, s
  <2> QED
    BY <1>3, <1>4, <1>5, ChainDeliver
<1>7. ~Copied(bc)'
  BY <1>2, NotCopied
<1> QED
  BY <1>1, <1>2, <1>6, <1>7, OrderKept

LEMMA OrderUavcanTask ==
  ASSUME SkewInv, UavcanTask, NEW bc \in OutBlockCells, Channel(bc) \in Pins, Ordered(bc)
  PROVE  Ordered(bc)'
BY OrderSendGet, OrderCopyCell, OrderSendSet, OrderReceive, OrderComTx DEF UavcanTask

\* What a SetValues frame does to the pin of an output value: nothing, or what
\* the frame carries for it.
LEMMA SetsItsOwn ==
  ASSUME SkewInv, NEW s \in Slaves, SlaveSet(s),
         NEW bc \in OutBlockCells, Channel(bc) \in Pins
  PROVE  \/ pin'[Channel(bc)] = pin[Channel(bc)]
         \/ /\ Channel(bc)[1] = s /\ IsFor(Head(rxq[s]), bc)
            /\ pin'[Channel(bc)] = Value(Head(rxq[s]), bc)
<1>1. TypeOK /\ QueuesOK(OutFrames, Responses)
  BY DEF SkewInv, OutFrames
<1>2. PICK f : f = Head(rxq[s])
  OBVIOUS
<1>3. CASE f.to # s
  BY <1>1, <1>2, <1>3, SlaveSetOther
<1>4. CASE f.to = s
  <2>1. f \in OutFrames /\ f.kind = "set"
    BY <1>1, <1>2, SlavePopOK DEF SlaveSet
  <2>2. f \in BlockCommands /\ f \in Commands
    BY <2>1, OutFrameFacts
  <2>3. PICK b \in DOMAIN Blocks[f.grp] : IsBlockCommand(f, b)
    BY <2>2 DEF BlockCommands
  <2>4. /\ \A j \in 0..(Blocks[f.grp][b].len - 1) :
             Channel(<<f.grp, b, j>>) \in Pins
             => pin'[Channel(<<f.grp, b, j>>)] = f.vals[j + 1]
        /\ \A p \in Pins :
             pin'[p] = pin[p]
             \/ \E j \in 0..(Blocks[f.grp][b].len - 1) : p = Channel(<<f.grp, b, j>>)
    BY <1>1, <1>2, <1>4, <2>3, SlaveSetCommand
  <2>5. CASE pin'[Channel(bc)] = pin[Channel(bc)]
    BY <2>5
  <2>6. ASSUME NEW j \in 0..(Blocks[f.grp][b].len - 1), Channel(bc) = Channel(<<f.grp, b, j>>)
        PROVE  /\ Channel(bc)[1] = s /\ IsFor(f, bc)
               /\ pin'[Channel(bc)] = Value(f, bc)
    <3>1. <<f.grp, b, j>> \in OutBlockCells
      BY <2>2, OutBlockCellFacts DEF Commands
    <3>2. bc = <<f.grp, b, j>>
      BY <2>6, <3>1, OutputsAssumption
    <3>3. Channel(bc)[1] = s
      BY <1>4, <2>3, <3>2 DEF Channel, IsBlockCommand
    <3>4. IsFor(f, bc)
      BY <2>1, <2>3, <3>2 DEF IsFor
    <3>5. pin'[Channel(bc)] = f.vals[j + 1]
      BY <2>4, <2>6
    <3> QED
      BY <3>2, <3>3, <3>4, <3>5 DEF Value
  <2> QED
    BY <1>2, <2>4, <2>5, <2>6
<1> QED
  BY <1>3, <1>4

LEMMA OrderSlaveTake ==
  ASSUME SkewInv, NEW s \in Slaves, SlaveGet(s) \/ SlaveSet(s),
         NEW bc \in OutBlockCells, Channel(bc) \in Pins, Ordered(bc)
  PROVE  Ordered(bc)'
<1> DEFINE m == Channel(bc)[1]
           p == pin[Channel(bc)]
           r == pin'[Channel(bc)]
<1>1. Next
  BY DEF Next, SlaveLoop
<1>2. UNCHANGED comVars /\ rxq[s] # <<>> /\ rxq' = [rxq EXCEPT ![s] = Tail(@)]
  BY DEF SlaveGet, SlaveSet
<1>3. txq'[Plc] = txq[Plc]
  <2>1. txq' = txq \/ \E q : txq' = [txq EXCEPT ![s] = q]
    BY DEF SlaveGet, SlaveSet, Enqueue
  <2> QED
    BY <2>1, OtherQueues
<1>4. m \in Slaves /\ rxq[m] \in Seq(OutFrames)
  BY OrderFacts
<1>5. r = p \/ (m = s /\ IsFor(Head(rxq[s]), bc) /\ r = Value(Head(rxq[s]), bc))
  BY SetsItsOwn DEF SlaveGet, slaveVars
<1>6. rxq'[m] = IF m = s THEN Tail(rxq[m]) ELSE rxq[m]
  <2>1. rxq \in [Nodes -> Seq(OutFrames \cup Responses)]
    BY DEF SkewInv, QueuesOK, RxOK, OutFrames
  <2> QED
    BY <1>2, <1>4, <2>1, NodeFacts
<1>7. \A x \in Nat : ChainTo(x, bc) => Chain(r, rxq'[m], txq'[Plc], x, bc)
  <2> HIDE DEF m, p, r
  <2> SUFFICES ASSUME NEW x \in Nat, Chain(p, rxq[m], txq[Plc], x, bc)
               PROVE  Chain(r, rxq'[m], txq[Plc], x, bc)
    BY <1>3 DEF ChainTo, m, p
  <2>1. CASE m = s
    <3>1. rxq[m] # <<>> /\ rxq'[m] = Tail(rxq[m])
      BY <1>2, <1>6, <2>1
    <3>2. r = p \/ (IsFor(Head(rxq[m]), bc) /\ r = Value(Head(rxq[m]), bc))
      BY <1>5, <2>1
    <3> QED
      BY <1>4, <3>1, <3>2, ChainTake
  <2>2. CASE m # s
    BY <1>5, <1>6, <2>2
  <2> QED
    BY <2>1, <2>2
<1>8. Copied(bc)' => Copied(bc) /\ buf' = buf
  BY <1>2 DEF comVars, Copied, Grp
<1> QED
  BY <1>1, <1>7, <1>8, OrderKept

\* A slave sends to the PLC only.
LEMMA OrderSlaveSend ==
  ASSUME SkewInv, NEW s \in Slaves, SlaveRxEmpty(s) \/ SlaveTx(s),
         NEW bc \in OutBlockCells, Channel(bc) \in Pins, Ordered(bc)
  PROVE  Ordered(bc)'
<1>1. Next
  BY DEF Next, SlaveLoop
<1>2. UNCHANGED comVars /\ UNCHANGED pin
  BY DEF SlaveRxEmpty, SlaveTx, slaveVars
<1>3. txq'[Plc] = txq[Plc]
  <2>1. txq' = txq \/ \E q : txq' = [txq EXCEPT ![s] = q]
    BY DEF SlaveRxEmpty, SlaveTx, Deliver, Lose
  <2> QED
    BY <2>1, OtherQueues
<1>4. rxq'[Channel(bc)[1]] = rxq[Channel(bc)[1]]
  <2>1. CASE UNCHANGED rxq
    BY <2>1
  <2>2. CASE Deliver(s)
    <3>1. txq[s] \in Seq(Responses) /\ txq[s] # <<>>
      BY <2>2 DEF Deliver, SkewInv, QueuesOK, TxOK
    <3>2. Head(txq[s]) \in Responses /\ \A r \in Responses : r.kind = "resp"
      BY <3>1, QueueFacts, OutFrameFacts DEF FrameSets
    <3>3. Receivers(Head(txq[s])) = {Plc}
      BY <3>2 DEF Receivers
    <3>4. Channel(bc)[1] \in Nodes /\ Channel(bc)[1] # Plc
      BY OrderFacts, NodeFacts
    <3> QED
      BY <2>2, <3>3, <3>4 DEF Deliver
  <2> QED
    BY <2>1, <2>2 DEF SlaveRxEmpty, SlaveTx, Lose
<1>5. Copied(bc)' => Copied(bc) /\ buf' = buf
  BY <1>2 DEF comVars, Copied, Grp
<1> QED
  BY <1>1, <1>2, <1>3, <1>4, <1>5, OrderSame

LEMMA OutPinKept ==
  ASSUME SkewInv, PinChange, NEW bc \in OutBlockCells, Channel(bc) \in Pins
  PROVE  pin'[Channel(bc)] = pin[Channel(bc)]
<1>1. PICK q \in InPins : pin' = [pin EXCEPT ![q] = @ + 1]
  BY DEF PinChange
<1>2. q[2] \in InGroups /\ Channel(bc)[2] \in OutGroups
  BY OrderFacts DEF InPins
<1> QED
  BY <1>1, <1>2, GroupFacts

LEMMA OrderPinChange ==
  ASSUME SkewInv, PinChange, NEW bc \in OutBlockCells, Channel(bc) \in Pins, Ordered(bc)
  PROVE  Ordered(bc)'
<1>1. UNCHANGED comVars /\ UNCHANGED <<txq, rxq>>
  BY DEF PinChange
<1>2. Copied(bc)' => Copied(bc) /\ buf' = buf
  BY <1>1 DEF comVars, Copied, Grp
<1> QED
  BY <1>1, <1>2, OrderSame, OutPinKept DEF Next

LEMMA OrderSlaveRestart ==
  ASSUME SkewInv, NEW s \in Slaves, SlaveRestart(s),
         NEW bc \in OutBlockCells, Channel(bc) \in Pins, Ordered(bc)
  PROVE  Ordered(bc)'
<1> DEFINE m == Channel(bc)[1]
<1>1. Next /\ UNCHANGED comVars /\ txq'[Plc] = txq[Plc]
  BY OtherQueues DEF Next, SlaveRestart
<1>2. m \in Slaves /\ m \in Nodes /\ Numbered(txq[Plc], bc) /\ Channel(bc) \in OutPins
  BY OrderFacts, GroupFacts DEF OutPins, InPins
<1>3. \/ m = s /\ pin'[Channel(bc)] = 0 /\ rxq'[m] = <<>>
      \/ m # s /\ pin'[Channel(bc)] = pin[Channel(bc)] /\ rxq'[m] = rxq[m]
  <2>1. rxq \in [Nodes -> Seq(OutFrames \cup Responses)]
    BY DEF SkewInv, QueuesOK, RxOK, OutFrames
  <2>2. pin'[Channel(bc)] = IF m = s THEN 0 ELSE pin[Channel(bc)]
    BY <1>2 DEF SlaveRestart
  <2>3. rxq'[m] = IF m = s THEN <<>> ELSE rxq[m]
    BY <1>2, <2>1 DEF SlaveRestart
  <2> QED
    BY <2>2, <2>3
<1>4. \A x \in Nat : ChainTo(x, bc) => Chain(pin'[Channel(bc)], rxq'[m], txq'[Plc], x, bc)
  BY <1>1, <1>2, <1>3, ChainReset DEF ChainTo
<1>5. Copied(bc)' => Copied(bc) /\ buf' = buf
  BY <1>1 DEF comVars, Copied, Grp
<1> QED
  BY <1>1, <1>4, <1>5, OrderKept

LEMMA OrderPlcRestart ==
  ASSUME SkewInv, PlcRestart, NEW bc \in OutBlockCells, Channel(bc) \in Pins, Ordered(bc)
  PROVE  Ordered(bc)'
<1>1. Next /\ UNCHANGED pin /\ Len(buf') = 0
  BY DEF Next, PlcRestart, slaveVars
<1>2. txq'[Plc] = <<>> /\ rxq'[Channel(bc)[1]] = rxq[Channel(bc)[1]]
  <2>1. txq \in [Nodes -> Seq(OutFrames \cup Responses)]
    BY DEF SkewInv, QueuesOK, TxOK, OutFrames
  <2>2. Channel(bc)[1] # Plc
    BY OrderFacts, NodeFacts
  <2> QED
    BY <2>1, <2>2, NodeFacts DEF PlcRestart
<1>3. \A x \in Nat : ChainTo(x, bc)
        => Chain(pin'[Channel(bc)], rxq'[Channel(bc)[1]], txq'[Plc], x, bc)
  BY <1>1, <1>2, ChainBoot DEF ChainTo
<1>4. ~Copied(bc)'
  BY <1>1, NotCopied
<1> QED
  BY <1>1, <1>3, <1>4, OrderKept

-----------------------------------------------------------------------------
(* The outputs stay in order *)

LEMMA InitOrdered == Init => OutputsOrdered
<1> SUFFICES ASSUME Init, NEW bc \in OutBlockCells, Channel(bc) \in Pins
             PROVE  Ordered(bc)
  BY DEF OutputsOrdered
<1>1. SkewInv
  BY InitSkewInv
<1>2. /\ Channel(bc)[1] \in Nodes /\ Cell(bc[1], bc[2], bc[3]) \in Cells /\ bc[3] \in Nat
  BY <1>1, OrderFacts
<1>3. /\ pin[Channel(bc)] = 0 /\ ext[Cell(bc[1], bc[2], bc[3])] = 0
      /\ rxq[Channel(bc)[1]] = <<>> /\ txq[Plc] = <<>> /\ Len(buf) = 0
  BY <1>2, NodeFacts DEF Init
<1>4. Chain(0, <<>>, <<>>, 0, bc)
  BY DEF Chain, Rising, AtLeast, AtMost
<1>5. ~Copied(bc)
  BY <1>2, <1>3 DEF Copied
<1> QED
  BY <1>3, <1>4, <1>5 DEF Ordered, ChainTo

LEMMA NextOrdered == SkewInv /\ OutputsOrdered /\ Next => OutputsOrdered'
<1> SUFFICES ASSUME SkewInv, OutputsOrdered, Next,
                    NEW bc \in OutBlockCells, Channel(bc) \in Pins
             PROVE  Ordered(bc)'
  BY DEF OutputsOrdered
<1>1. Ordered(bc)
  BY DEF OutputsOrdered
<1>2. ASSUME NEW s \in Slaves, SlaveLoop(s)
      PROVE  Ordered(bc)'
  BY <1>1, <1>2, OrderSlaveTake, OrderSlaveSend DEF SlaveLoop
<1> QED
  BY <1>1, <1>2, OrderPlcTask, OrderUavcanTask, OrderPinChange, OrderSlaveRestart,
     OrderPlcRestart DEF Next

LEMMA StutterOrdered == OutputsOrdered /\ UNCHANGED vars => OutputsOrdered'
<1> SUFFICES ASSUME OutputsOrdered, UNCHANGED vars,
                    NEW bc \in OutBlockCells, Channel(bc) \in Pins
             PROVE  Ordered(bc)'
  BY DEF OutputsOrdered
<1>1. UNCHANGED <<ext, txq, rxq, pin, phase, comPc, blk, buf>>
  BY DEF vars, comVars, slaveVars
<1> QED
  BY <1>1 DEF OutputsOrdered, Ordered, ChainTo, Copied, Grp

-----------------------------------------------------------------------------
(* The refinement *)

\* The points the image is about.
LEMMA OutPointFacts ==
  ASSUME SkewInv, NEW p \in OutPoints
  PROVE  \E bc \in OutBlockCells :
           /\ Channel(bc) \in Pins
           /\ p.cell = Cell(bc[1], bc[2], bc[3]) /\ p.pin = Channel(bc)
           /\ p.cell \in Cells /\ p.cell[1] \in OutGroups
<1>1. PICK bc \in OutBlockCells : Channel(bc) \in Pins /\ p = OutPoint(bc)
  BY DEF OutPoints
<1>2. p.cell = Cell(bc[1], bc[2], bc[3]) /\ p.pin = Channel(bc)
  BY <1>1 DEF OutPoint
<1> QED
  BY <1>1, <1>2, OrderFacts

LEMMA InitImage == Init => OutputsImage!Init
<1> SUFFICES ASSUME Init PROVE OutputsImage!Init
  OBVIOUS
<1>1. \A p \in OutPoints : p.cell \in Cells /\ p.pin \in Pins
  BY InitSkewInv, OutPointFacts
<1>2. \A p \in OutPoints : ext[p.cell] = 0 /\ pin[p.pin] = 0
  BY <1>1 DEF Init
<1>3. restarts = 0
  BY DEF Init
<1> QED
  BY <1>2, <1>3 DEF OutputsImage!Init

\* What a step does to a point: its source rises, and its user keeps what it saw,
\* sees something newer of what was produced, or is reset.
LEMMA StepImage ==
  ASSUME SkewInv, SkewInv', OutputsOrdered, OutputsOrdered', Next
  PROVE  /\ \A p \in OutPoints : ext[p.cell] <= ext'[p.cell]
         /\ \/ restarts' = restarts /\ \A p \in OutPoints : pin'[p.pin] = pin[p.pin]
            \/ /\ restarts' = restarts /\ UNCHANGED ext
               /\ \A p \in OutPoints : pin[p.pin] <= pin'[p.pin] /\ pin'[p.pin] <= ext[p.cell]
            \/ restarts' = restarts + 1 /\ \A p \in OutPoints : pin'[p.pin] \in {0, pin[p.pin]}
<1>1. \A p \in OutPoints : ext[p.cell] <= ext'[p.cell]
  BY OutPointFacts, ExtRises DEF SkewInv
<1>2. CASE PlcTask
  BY <1>1, <1>2 DEF PlcTask, ScanStart, ScanInput, ScanRun, ScanOutput, slaveVars
<1>3. CASE UavcanTask
  BY <1>1, <1>3 DEF UavcanTask, SendGet, CopyCell, SendSet, ComRxDrop, ComRx, StoreCell,
                    ComRxEmpty, ComTx, slaveVars
<1>4. ASSUME NEW s \in Slaves, SlaveGet(s) \/ SlaveRxEmpty(s) \/ SlaveTx(s)
      PROVE  restarts' = restarts /\ UNCHANGED pin
  BY <1>4 DEF SlaveGet, SlaveRxEmpty, SlaveTx, slaveVars
<1>5. ASSUME NEW s \in Slaves, SlaveSet(s)
      PROVE  /\ restarts' = restarts /\ UNCHANGED ext
             /\ \A p \in OutPoints : pin[p.pin] <= pin'[p.pin] /\ pin'[p.pin] <= ext[p.cell]
  <2>1. restarts' = restarts /\ UNCHANGED ext
    BY <1>5 DEF SlaveSet
  <2> SUFFICES ASSUME NEW p \in OutPoints
               PROVE  pin[p.pin] <= pin'[p.pin] /\ pin'[p.pin] <= ext[p.cell]
    BY <2>1
  <2>2. PICK bc \in OutBlockCells :
          Channel(bc) \in Pins /\ p.cell = Cell(bc[1], bc[2], bc[3]) /\ p.pin = Channel(bc)
    BY OutPointFacts
  <2>3. pin'[p.pin] <= ext'[p.cell]
    BY <2>2 DEF OutputsOrdered, Ordered, ChainTo, Chain
  <2>4. pin[p.pin] \in Nat
    BY <2>2, OrderFacts
  <2>5. ASSUME Channel(bc)[1] = s, IsFor(Head(rxq[s]), bc)
        PROVE  pin[p.pin] <= Value(Head(rxq[s]), bc)
    <3>1. AtLeast(rxq[s], pin[p.pin], bc)
      BY <2>2, <2>5 DEF OutputsOrdered, Ordered, ChainTo, Chain
    <3>2. rxq[s] \in Seq(OutFrames) /\ rxq[s] # <<>>
      BY <1>5, <2>2, <2>5, OrderFacts DEF SlaveSet
    <3> QED
      BY <2>5, <3>1, <3>2, TailOrder
  <2>6. pin[p.pin] <= pin'[p.pin]
    BY <1>5, <2>2, <2>4, <2>5, SetsItsOwn
  <2> QED
    BY <2>1, <2>3, <2>6
<1>6. CASE PinChange
  <2>1. restarts' = restarts
    BY <1>6 DEF PinChange
  <2>2. \A bc \in OutBlockCells : Channel(bc) \in Pins => pin'[Channel(bc)] = pin[Channel(bc)]
    BY <1>6, OutPinKept
  <2>3. \A p \in OutPoints : pin'[p.pin] = pin[p.pin]
    BY <2>2, OutPointFacts
  <2> QED
    BY <1>1, <2>1, <2>3
<1>7. ASSUME NEW s \in Slaves, SlaveRestart(s)
      PROVE  restarts' = restarts + 1 /\ \A p \in OutPoints : pin'[p.pin] \in {0, pin[p.pin]}
  BY <1>7, OutPointFacts DEF SlaveRestart
<1>8. CASE PlcRestart
  BY <1>1, <1>8 DEF PlcRestart, slaveVars
<1> QED
  BY <1>1, <1>2, <1>3, <1>4, <1>5, <1>6, <1>7, <1>8 DEF Next, SlaveLoop

LEMMA NextImage ==
  ASSUME SkewInv, SkewInv', OutputsOrdered, OutputsOrdered', Next
  PROVE  OutputsImage!Next
<1>1. \A p \in OutPoints : p.cell \in Cells /\ p.pin \in Pins
  BY OutPointFacts
<1>2. OutputsImage!TypeOK'
  <2>1. \A p \in OutPoints : ext'[p.cell] \in Nat /\ pin'[p.pin] \in Nat
    BY <1>1 DEF SkewInv, TypeOK
  <2>2. restarts' \in Nat
    BY BoundsAssumption DEF SkewInv, TypeOK
  <2> QED
    BY <2>1, <2>2 DEF OutputsImage!TypeOK
<1>3. \A p \in OutPoints : ext'[p.cell] >= ext[p.cell]
  BY StepImage
<1>4. OutputsImage!Newer
  BY <1>3 DEF OutputsImage!Newer
<1>5. CASE restarts' = restarts /\ \A p \in OutPoints : pin'[p.pin] = pin[p.pin]
  <2>1. OutputsImage!Produce
    BY <1>4, <1>5 DEF OutputsImage!Produce
  <2> QED
    BY <1>2, <2>1 DEF OutputsImage!Next
<1>6. CASE /\ restarts' = restarts /\ UNCHANGED ext
           /\ \A p \in OutPoints : pin[p.pin] <= pin'[p.pin] /\ pin'[p.pin] <= ext[p.cell]
  <2>1. OutputsImage!Carry
    BY <1>6 DEF OutputsImage!Carry
  <2> QED
    BY <1>2, <2>1 DEF OutputsImage!Next
<1>7. CASE restarts' = restarts + 1 /\ \A p \in OutPoints : pin'[p.pin] \in {0, pin[p.pin]}
  <2>1. OutputsImage!Restart
    BY <1>4, <1>7 DEF OutputsImage!Restart
  <2> QED
    BY <1>2, <2>1 DEF OutputsImage!Next
<1> QED
  BY <1>5, <1>6, <1>7, StepImage

LEMMA StutterImage == UNCHANGED vars => UNCHANGED OutputsImage!vars
<1> SUFFICES ASSUME UNCHANGED vars PROVE UNCHANGED OutputsImage!vars
  OBVIOUS
<1>1. UNCHANGED <<ext, pin, restarts>>
  BY DEF vars, slaveVars
<1> QED
  BY <1>1 DEF OutputsImage!vars

-----------------------------------------------------------------------------
(* The inputs *)

LEMMA InBlockCellFacts ==
  /\ \A g \in InGroups : \A b \in DOMAIN Blocks[g] :
       \A j \in 0..(Blocks[g][b].len - 1) : <<g, b, j>> \in InBlockCells
  /\ \A bc \in InBlockCells :
       \E g \in InGroups : \E b \in DOMAIN Blocks[g] :
         \E j \in 0..(Blocks[g][b].len - 1) : bc = <<g, b, j>>
BY DEF InBlockCells, BlockCells

LEMMA InCellFacts ==
  ASSUME NEW bc \in InBlockCells
  PROVE  \E g \in InGroups : \E b \in DOMAIN Blocks[g] : \E n \in 1..32 : \E j \in 0..(n - 1) :
           /\ bc = <<g, b, j>> /\ n = Blocks[g][b].len /\ g \in Groups
           /\ Cell(g, b, j) \in Cells /\ Cell(g, b, j)[1] = g
<1>1. PICK g \in InGroups : \E b \in DOMAIN Blocks[g] :
        \E j \in 0..(Blocks[g][b].len - 1) : bc = <<g, b, j>>
  BY InBlockCellFacts
<1>2. PICK b \in DOMAIN Blocks[g] : \E j \in 0..(Blocks[g][b].len - 1) : bc = <<g, b, j>>
  BY <1>1
<1>3. PICK j \in 0..(Blocks[g][b].len - 1) : bc = <<g, b, j>>
  BY <1>2
<1>4. g \in Groups
  BY DEF Groups
<1>5. PICK n \in 1..32 : n = Blocks[g][b].len
  BY <1>4, BlockFacts
<1>6. Cell(g, b, j) \in Cells /\ Cell(g, b, j)[1] = g
  BY <1>4, BlockFacts DEF Cell
<1> QED
  BY <1>3, <1>4, <1>5, <1>6

\* What a response carries for an input value is a number.
LEMMA AnswerValue ==
  ASSUME NEW bc \in InBlockCells, NEW f \in Responses, IsFor(f, bc)
  PROVE  Value(f, bc) \in Nat
<1>1. PICK g \in InGroups : \E b \in DOMAIN Blocks[g] : \E n \in 1..32 : \E j \in 0..(n - 1) :
        bc = <<g, b, j>> /\ n = Blocks[g][b].len
  BY InCellFacts, Zenon
<1>2. PICK b \in DOMAIN Blocks[g] : \E n \in 1..32 : \E j \in 0..(n - 1) :
        bc = <<g, b, j>> /\ n = Blocks[g][b].len
  BY <1>1
<1>3. PICK n \in 1..32 : \E j \in 0..(n - 1) : bc = <<g, b, j>> /\ n = Blocks[g][b].len
  BY <1>2
<1>4. PICK j \in 0..(n - 1) : bc = <<g, b, j>> /\ n = Blocks[g][b].len
  BY <1>3
<1>5. f.grp = g /\ b \in Matching(f) /\ f.vals \in Seq(Nat)
  BY <1>4 DEF IsFor, Responses
<1>6. Len(f.vals) = n
  BY <1>4, <1>5 DEF Matching
<1>7. j + 1 \in DOMAIN f.vals
  BY <1>5, <1>6
<1>8. f.vals[j + 1] \in Nat
  BY <1>5, <1>7
<1> QED
  BY <1>4, <1>8 DEF Value

LEMMA AnswersNumbered ==
  ASSUME NEW bc \in InBlockCells, NEW q \in Seq(Responses)
  PROVE  Numbered(q, bc)
<1>1. \A i \in DOMAIN q : q[i] \in Responses
  OBVIOUS
<1> QED
  BY <1>1, AnswerValue DEF Numbered

LEMMA InOrderFacts ==
  ASSUME SkewInv, NEW bc \in InBlockCells, Channel(bc) \in Pins
  PROVE  /\ Channel(bc)[1] \in Slaves /\ Channel(bc)[2] \in InGroups
         /\ Cell(bc[1], bc[2], bc[3]) \in Cells /\ Cell(bc[1], bc[2], bc[3])[1] \in InGroups
         /\ pin[Channel(bc)] \in Nat /\ ext[Cell(bc[1], bc[2], bc[3])] \in Nat
         /\ Storing(bc) => buf[bc[3] - Stored(bc) + 1] \in Nat
         /\ rxq[Plc] \in Seq(Responses) /\ Numbered(rxq[Plc], bc)
         /\ txq[Channel(bc)[1]] \in Seq(Responses) /\ Numbered(txq[Channel(bc)[1]], bc)
<1>1. PICK g \in InGroups : \E b \in DOMAIN Blocks[g] : \E n \in 1..32 : \E j \in 0..(n - 1) :
        /\ bc = <<g, b, j>> /\ n = Blocks[g][b].len /\ g \in Groups
        /\ Cell(g, b, j) \in Cells /\ Cell(g, b, j)[1] = g
  BY InCellFacts, Zenon
<1>2. PICK b \in DOMAIN Blocks[g] : \E n \in 1..32 : \E j \in 0..(n - 1) :
        /\ bc = <<g, b, j>> /\ n = Blocks[g][b].len /\ g \in Groups
        /\ Cell(g, b, j) \in Cells /\ Cell(g, b, j)[1] = g
  BY <1>1
<1>3. PICK n \in 1..32 : \E j \in 0..(n - 1) :
        /\ bc = <<g, b, j>> /\ n = Blocks[g][b].len /\ g \in Groups
        /\ Cell(g, b, j) \in Cells /\ Cell(g, b, j)[1] = g
  BY <1>2
<1>4. PICK j \in 0..(n - 1) :
        /\ bc = <<g, b, j>> /\ n = Blocks[g][b].len /\ g \in Groups
        /\ Cell(g, b, j) \in Cells /\ Cell(g, b, j)[1] = g
  BY <1>3
<1>5. Channel(bc)[1] \in Slaves /\ Channel(bc)[2] = g
  BY <1>4 DEF Channel, Pins
<1>6. pin \in [Pins -> Nat] /\ ext \in [Cells -> Nat] /\ buf \in Seq(Nat)
  BY DEF SkewInv, TypeOK, ComOK
<1>7. ASSUME Storing(bc)
      PROVE  buf[bc[3] - Stored(bc) + 1] \in Nat
  <2>1. PICK m \in Nat : m = Len(buf)
    BY <1>6
  <2>2. m <= n /\ j >= n - m /\ Stored(bc) = n - m
    BY <1>4, <1>7, <2>1 DEF Storing, Stored, SkewInv, TypeOK, ComOK
  <2>3. j - (n - m) + 1 \in 1..m
    BY <2>2
  <2>4. buf[j - (n - m) + 1] \in Nat
    BY <1>6, <2>1, <2>3
  <2> QED
    BY <1>4, <2>2, <2>4
<1>8. rxq[Plc] \in Seq(Responses) /\ \A s \in Slaves : txq[s] \in Seq(Responses)
  BY DEF SkewInv, QueuesOK, TxOK, RxOK
<1> QED
  BY <1>4, <1>5, <1>6, <1>7, <1>8, AnswersNumbered

LEMMA AnswersNumberedNext ==
  ASSUME SkewInv', NEW bc \in InBlockCells, Channel(bc) \in Pins
  PROVE  /\ pin'[Channel(bc)] \in Nat
         /\ Numbered(rxq'[Plc], bc) /\ Numbered(txq'[Channel(bc)[1]], bc)
<1>1. Channel(bc)[1] \in Slaves
  BY DEF Pins
<1>2. /\ pin' \in [Pins -> Nat] /\ rxq'[Plc] \in Seq(Responses)
      /\ \A s \in Slaves : txq'[s] \in Seq(Responses)
  BY DEF SkewInv, TypeOK, QueuesOK, TxOK, RxOK
<1> QED
  BY <1>1, <1>2, AnswersNumbered

\* What a step must do to keep the values of an input in order, if it neither
\* copies nor stores them.
LEMMA InKept ==
  ASSUME SkewInv, NEW bc \in InBlockCells, Channel(bc) \in Pins, InOrdered(bc),
         ext'[Cell(bc[1], bc[2], bc[3])] = ext[Cell(bc[1], bc[2], bc[3])], UNCHANGED img,
         \A x \in Nat : ChainFrom(x, bc)
           => Chain(x, rxq'[Plc], txq'[Channel(bc)[1]], pin'[Channel(bc)], bc),
         Storing(bc)' => Storing(bc) /\ buf' = buf
  PROVE  InOrdered(bc)'
<1> DEFINE e == ext[Cell(bc[1], bc[2], bc[3])]
           y == buf[bc[3] - Stored(bc) + 1]
<1>1. e \in Nat /\ (Storing(bc) => y \in Nat)
  BY InOrderFacts
<1>2. /\ ChainFrom(e, bc) /\ (Storing(bc) => e <= y /\ ChainFrom(y, bc))
      /\ \A v \in DOMAIN InVars : InVars[v] = Cell(bc[1], bc[2], bc[3]) => img[v] <= e
  BY DEF InOrdered
<1>3. Chain(e, rxq'[Plc], txq'[Channel(bc)[1]], pin'[Channel(bc)], bc)
  BY <1>1, <1>2
<1>4. Storing(bc)' => /\ Storing(bc) /\ buf' = buf /\ e <= y
                      /\ Chain(y, rxq'[Plc], txq'[Channel(bc)[1]], pin'[Channel(bc)], bc)
  BY <1>1, <1>2
<1> QED
  BY <1>2, <1>3, <1>4 DEF InOrdered, ChainFrom, Stored

LEMMA InSame ==
  ASSUME SkewInv, NEW bc \in InBlockCells, Channel(bc) \in Pins, InOrdered(bc),
         ext'[Cell(bc[1], bc[2], bc[3])] = ext[Cell(bc[1], bc[2], bc[3])], UNCHANGED img,
         rxq'[Plc] = rxq[Plc], txq'[Channel(bc)[1]] = txq[Channel(bc)[1]],
         pin'[Channel(bc)] = pin[Channel(bc)],
         Storing(bc)' => Storing(bc) /\ buf' = buf
  PROVE  InOrdered(bc)'
BY InKept DEF ChainFrom

\* The scan copies cells, and writes output cells only.
LEMMA InPlcTask ==
  ASSUME SkewInv, PlcTask, NEW bc \in InBlockCells, Channel(bc) \in Pins, InOrdered(bc)
  PROVE  InOrdered(bc)'
<1> DEFINE c == Cell(bc[1], bc[2], bc[3])
<1>1. UNCHANGED comVars /\ UNCHANGED <<txq, rxq>> /\ UNCHANGED pin
  BY DEF PlcTask, ScanStart, ScanInput, ScanRun, ScanOutput, slaveVars
<1>2. Storing(bc)' => Storing(bc) /\ buf' = buf
  BY <1>1 DEF comVars, Storing, Stored
<1>3. c \in Cells /\ c[1] \in InGroups /\ ext[c] \in Nat
  BY InOrderFacts
<1>4. CASE ScanStart \/ ScanRun
  <2>1. UNCHANGED <<ext, img>>
    BY <1>4 DEF ScanStart, ScanRun
  <2> QED
    BY <1>1, <1>2, <2>1, InSame
<1>5. CASE ScanOutput
  <2>1. OutVars[pos] \in Cells /\ OutVars[pos][1] \in OutGroups
    BY <1>5, VarFacts DEF ScanOutput, SkewInv, TypeOK, PlcOK
  <2>2. ext' = [ext EXCEPT ![OutVars[pos]] = scanNo] /\ UNCHANGED img
    BY <1>5 DEF ScanOutput
  <2>3. c # OutVars[pos]
    BY <1>3, <2>1, GroupFacts
  <2>4. ext'[c] = ext[c]
    BY <1>3, <2>2, <2>3 DEF SkewInv, TypeOK
  <2> QED
    BY <1>1, <1>2, <2>2, <2>4, InSame
<1>6. CASE ScanInput
  <2>1. ext' = ext /\ img' = [img EXCEPT ![pos] = ext[InVars[pos]]]
    BY <1>6 DEF ScanInput
  <2>2. img \in [DOMAIN InVars -> Nat]
    BY DEF SkewInv, TypeOK, PlcOK
  <2>3. \A v \in DOMAIN InVars : InVars[v] = c => img'[v] <= ext[c]
    BY <1>3, <2>1, <2>2 DEF InOrdered
  <2>4. UNCHANGED <<comPc, rgrp, blk, buf>>
    BY <1>1 DEF comVars
  <2> QED
    BY <1>1, <2>1, <2>3, <2>4 DEF InOrdered, ChainFrom, Storing, Stored
<1> QED
  BY <1>4, <1>5, <1>6 DEF PlcTask

\* What a slave answers is the value of the pin.
LEMMA AnswersThePin ==
  ASSUME NEW s \in Slaves, NEW f \in Requests, NEW r \in Answers(s, f),
         NEW bc \in InBlockCells, IsFor(r, bc)
  PROVE  Value(r, bc) = pin[Channel(bc)]
<1> DEFINE chan(j) == <<s, f.grp, (f.index + j - 1) % 256>>
           ok      == f.len <= MaxLen(f.grp) /\ \A j \in 1..f.len : chan(j) \in Pins
           vals    == IF ok THEN [j \in 1..f.len |-> pin[chan(j)]] ELSE <<>>
<1>1. r = RespFrame(s, f.grp, f.index, ok, vals)
  BY DEF Answers
<1>2. f.index \in Byte /\ f.len \in 1..32
  BY DEF Requests
<1>3. PICK g \in InGroups : \E b \in DOMAIN Blocks[g] : \E n \in 1..32 : \E j \in 0..(n - 1) :
        /\ bc = <<g, b, j>> /\ n = Blocks[g][b].len /\ g \in Groups
        /\ Cell(g, b, j) \in Cells /\ Cell(g, b, j)[1] = g
  BY InCellFacts, Zenon
<1>4. PICK b \in DOMAIN Blocks[g] : \E n \in 1..32 : \E j \in 0..(n - 1) :
        bc = <<g, b, j>> /\ n = Blocks[g][b].len
  BY <1>3
<1>5. PICK n \in 1..32 : \E j \in 0..(n - 1) : bc = <<g, b, j>> /\ n = Blocks[g][b].len
  BY <1>4
<1>6. PICK j \in 0..(n - 1) : bc = <<g, b, j>> /\ n = Blocks[g][b].len
  BY <1>5
<1> HIDE DEF ok, vals
<1>7. r.grp = f.grp /\ r.from = s /\ r.index = f.index /\ r.vals = vals /\ r.kind = "resp"
  BY <1>1 DEF RespFrame
<1>8. f.grp = g /\ b \in Matching(r)
  BY <1>6, <1>7 DEF IsFor
<1>9. Blocks[g][b].node = s /\ Blocks[g][b].index = f.index /\ Len(vals) = n
  BY <1>6, <1>7, <1>8 DEF Matching
<1>10. vals = [k \in 1..f.len |-> pin[chan(k)]]
  <2>1. CASE ok
    BY <2>1 DEF vals
  <2>2. CASE ~ok
    <3>1. vals = <<>>
      BY <2>2 DEF vals
    <3>2. Len(vals) = 0
      BY <3>1
    <3> QED
      BY <1>9, <3>2
  <2> QED
    BY <2>1, <2>2
<1>11. f.len = n
  <2>1. PICK m \in Nat : m = f.len
    BY <1>2
  <2>2. \A h : Len([k \in 1..m |-> h[k]]) = m
    OBVIOUS
  <2>3. vals = [k \in 1..m |-> vals[k]]
    BY <1>10, <2>1
  <2>4. Len(vals) = m
    BY <2>2, <2>3
  <2> QED
    BY <1>9, <2>1, <2>4
<1>12. vals[j + 1] = pin[chan(j + 1)]
  <2>1. j + 1 \in 1..f.len
    BY <1>11
  <2> HIDE DEF chan
  <2> QED
    BY <1>10, <2>1
<1>13. chan(j + 1) = Channel(bc)
  <2>1. f.index + (j + 1) - 1 = f.index + j
    BY <1>2 DEF Byte
  <2> QED
    BY <1>6, <1>8, <1>9, <2>1 DEF Channel
<1> QED
  BY <1>6, <1>7, <1>12, <1>13 DEF Value

\* The PLC's own frames are no answers, and change no queue an answer is in.
LEMMA InSend ==
  ASSUME SkewInv, SendGet \/ CopyCell \/ SendSet \/ ComRxEmpty \/ ComTx,
         NEW bc \in InBlockCells, Channel(bc) \in Pins, InOrdered(bc)
  PROVE  InOrdered(bc)'
<1>1. UNCHANGED <<ext, img, pin>>
  BY DEF SendGet, CopyCell, SendSet, ComRxEmpty, ComTx, plcVars, slaveVars
<1>2. Channel(bc)[1] \in Slaves
  BY InOrderFacts
<1>3. txq'[Channel(bc)[1]] = txq[Channel(bc)[1]]
  <2>1. txq' = txq \/ \E q : txq' = [txq EXCEPT ![Plc] = q]
    BY DEF SendGet, CopyCell, SendSet, ComRxEmpty, ComTx, Enqueue, Deliver, Lose
  <2> QED
    BY <1>2, <2>1, OtherQueues
<1>4. rxq'[Plc] = rxq[Plc]
  <2>1. CASE UNCHANGED rxq
    BY <2>1
  <2>2. CASE Deliver(Plc)
    <3>1. txq[Plc] \in Seq(OutFrames) /\ txq[Plc] # <<>>
      BY <2>2 DEF Deliver, SkewInv, QueuesOK, TxOK, OutFrames
    <3>2. Head(txq[Plc]).kind \in {"get", "set"}
      BY <3>1, QueueFacts, OutFrameFacts DEF FrameSets
    <3>3. Plc \notin Receivers(Head(txq[Plc]))
      BY <3>2, NodeFacts DEF Receivers
    <3> QED
      BY <2>2, <3>3, NodeFacts DEF Deliver
  <2> QED
    BY <2>1, <2>2 DEF SendGet, CopyCell, SendSet, ComRxEmpty, ComTx, Lose
<1>5. comPc' # "store"
  BY DEF SendGet, CopyCell, SendSet, ComRxEmpty, ComTx, NextBlock, NextPhase,
         BeginPhase, FirstPc
<1> QED
  BY <1>1, <1>3, <1>4, <1>5, InSame DEF Storing

\* The PLC takes the frame ahead; what it is about to store is what the frame
\* carries.
LEMMA InReceive ==
  ASSUME SkewInv, ComRxDrop \/ ComRx,
         NEW bc \in InBlockCells, Channel(bc) \in Pins, InOrdered(bc)
  PROVE  InOrdered(bc)'
<1> DEFINE f == Head(rxq[Plc])
           e == ext[Cell(bc[1], bc[2], bc[3])]
           z == pin[Channel(bc)]
           out == txq[Channel(bc)[1]]
<1>1. UNCHANGED <<ext, img, pin, txq>> /\ rxq[Plc] # <<>>
  BY DEF ComRxDrop, ComRx, plcVars, slaveVars
<1>2. rxq'[Plc] = Tail(rxq[Plc])
  <2>1. rxq \in [Nodes -> Seq(OutFrames \cup Responses)]
    BY DEF SkewInv, QueuesOK, RxOK, OutFrames
  <2> QED
    BY <2>1, NodeFacts DEF ComRxDrop, ComRx
<1>3. rxq[Plc] \in Seq(Responses) /\ f \in Responses
  BY <1>1, QueueFacts DEF SkewInv, QueuesOK, RxOK
<1>4. \A x \in Nat : \A r : /\ Chain(x, rxq[Plc], out, z, bc)
                            /\ r = x \/ (IsFor(f, bc) /\ r = Value(f, bc))
                            => Chain(r, Tail(rxq[Plc]), out, z, bc)
  <2> HIDE DEF out, z
  <2> QED
    BY <1>1, <1>3, ChainTake
<1>5. CASE ComRxDrop
  <2>1. Storing(bc)' => Storing(bc) /\ buf' = buf
    BY <1>5 DEF ComRxDrop, comVars, Storing, Stored
  <2>2. \A x \in Nat : ChainFrom(x, bc) => Chain(x, rxq'[Plc], txq'[Channel(bc)[1]], pin'[Channel(bc)], bc)
    BY <1>1, <1>2, <1>4 DEF ChainFrom
  <2> QED
    BY <1>1, <2>1, <2>2, InKept
<1>6. CASE ComRx
  <2>1. e \in Nat /\ ChainFrom(e, bc)
        /\ \A v \in DOMAIN InVars : InVars[v] = Cell(bc[1], bc[2], bc[3]) => img[v] <= e
    BY InOrderFacts DEF InOrdered
  <2>2. Chain(e, Tail(rxq[Plc]), out, z, bc)
    BY <1>4, <2>1 DEF ChainFrom
  <2>3. ASSUME Storing(bc)'
        PROVE  IsFor(f, bc) /\ buf'[bc[3] - Stored(bc)' + 1] = Value(f, bc)
    <3>1. rgrp' = f.grp /\ buf' = f.vals /\ blk' \in Matching(f)
      BY <1>6 DEF ComRx
    <3>2. f.grp = bc[1] /\ bc[2] \in Matching(f)
      BY <2>3, <3>1 DEF Storing
    <3>3. f.kind = "resp"
      BY <1>3 DEF Responses
    <3>4. Blocks[bc[1]][bc[2]].len = Len(buf')
      BY <3>1, <3>2 DEF Matching
    <3>5. bc[3] \in Nat /\ Len(buf') \in Nat
      BY <1>3, <3>1, InBlockCellFacts, BlockFacts DEF Responses, Groups
    <3>6. Stored(bc)' = 0
      BY <3>4, <3>5 DEF Stored
    <3>7. bc[3] - Stored(bc)' + 1 = bc[3] + 1
      BY <3>5, <3>6
    <3> QED
      BY <3>1, <3>2, <3>3, <3>7 DEF IsFor, Value
  <2>4. ASSUME IsFor(f, bc)
        PROVE  e <= Value(f, bc) /\ Chain(Value(f, bc), Tail(rxq[Plc]), out, z, bc)
    <3>1. AtLeast(rxq[Plc], e, bc)
      BY <2>1 DEF ChainFrom, Chain
    <3>2. e <= Value(f, bc)
      BY <1>1, <1>3, <2>4, <3>1, TailOrder
    <3> QED
      BY <1>4, <2>1, <2>4, <3>2 DEF ChainFrom
  <2> QED
    BY <1>1, <1>2, <2>1, <2>2, <2>3, <2>4 DEF InOrdered, ChainFrom
<1> QED
  BY <1>5, <1>6

\* A value that is stored was the next of its cell's chain.
LEMMA InStore ==
  ASSUME SkewInv, StoreCell, NEW bc \in InBlockCells, Channel(bc) \in Pins, InOrdered(bc)
  PROVE  InOrdered(bc)'
<1> DEFINE c == Cell(bc[1], bc[2], bc[3])
           e == ext[c]
           d == Cell(rgrp, blk, Blocks[rgrp][blk].len - Len(buf))
<1>1. /\ comPc = "store" /\ UNCHANGED <<img, pin, txq, rxq>>
      /\ ext' = [ext EXCEPT ![d] = Head(buf)] /\ buf' = Tail(buf)
      /\ comPc' = "rx" \/ UNCHANGED <<comPc, blk, rgrp>>
  BY DEF StoreCell, plcVars, slaveVars
<1>2. /\ rgrp \in InGroups /\ blk \in DOMAIN Blocks[rgrp] /\ buf \in Seq(Nat)
      /\ Len(buf) > 0 /\ Len(buf) <= Blocks[rgrp][blk].len
  BY <1>1 DEF SkewInv, TypeOK, ComOK
<1>3. PICK n \in 1..32 : n = Blocks[rgrp][blk].len
  BY <1>2, BlockFacts DEF Groups
<1>4. PICK m \in 1..n : m = Len(buf)
  <2>1. Len(buf) \in Nat
    BY <1>2
  <2> QED
    BY <1>2, <1>3, <2>1
<1>5. /\ Head(buf) = buf[1] /\ Len(Tail(buf)) = m - 1 /\ buf \in Seq(Nat)
      /\ \A i \in 1..(m - 1) : Tail(buf)[i] = buf[i + 1]
  BY <1>2, <1>4
<1>6. <<rgrp, blk, n - m>> \in InBlockCells
  <2> DEFINE g == rgrp
             b == blk
             j == n - m
  <2>1. j \in 0..(Blocks[g][b].len - 1)
    <3>1. n - m \in 0..(n - 1)
      BY <1>3, <1>4
    <3> QED
      BY <1>3, <3>1
  <2>2. g \in InGroups /\ b \in DOMAIN Blocks[g]
    BY <1>2
  <2> HIDE DEF g, b, j
  <2>3. <<g, b, j>> \in InBlockCells
    BY <2>1, <2>2, InBlockCellFacts
  <2> QED
    BY <2>3 DEF g, b, j
<1>7. /\ ChainFrom(e, bc)
      /\ Storing(bc) => /\ e <= buf[bc[3] - Stored(bc) + 1]
                        /\ ChainFrom(buf[bc[3] - Stored(bc) + 1], bc)
      /\ \A v \in DOMAIN InVars : InVars[v] = c => img[v] <= e
  BY DEF InOrdered
<1>8. c \in Cells /\ ext \in [Cells -> Nat] /\ e \in Nat /\ bc[3] \in Nat
      /\ \A v \in DOMAIN InVars : img[v] \in Nat
  BY InOrderFacts, InBlockCellFacts, BlockFacts DEF SkewInv, TypeOK, PlcOK, Groups
<1>9. CASE c = d
  <2>1. bc = <<rgrp, blk, n - m>>
    BY <1>3, <1>4, <1>6, <1>9, InputsAssumption
  <2>2. Stored(bc) = n - m /\ Storing(bc)
    BY <1>1, <1>3, <1>4, <2>1 DEF Stored, Storing
  <2>3. bc[3] - Stored(bc) + 1 = 1
    BY <1>3, <1>4, <2>1, <2>2
  <2>4. ext'[c] = buf[1]
    BY <1>1, <1>5, <1>8, <1>9
  <2>5. e <= buf[1] /\ ChainFrom(buf[1], bc) /\ buf[1] \in Nat
    BY <1>2, <1>4, <1>7, <2>2, <2>3
  <2>6. \A v \in DOMAIN InVars : InVars[v] = c => img[v] <= buf[1]
    BY <1>7, <1>8, <2>5
  <2>7. ~Storing(bc)'
    <3>1. CASE comPc' = "rx"
      BY <3>1 DEF Storing
    <3>2. CASE UNCHANGED <<comPc, blk, rgrp>>
      <4>1. Stored(bc)' = n - (m - 1)
        BY <1>1, <1>3, <1>5, <2>1 DEF Stored
      <4>2. ~(n - m >= n - (m - 1))
        BY <1>3, <1>4
      <4> QED
        BY <2>1, <4>1, <4>2 DEF Storing
    <3> QED
      BY <1>1, <3>1, <3>2
  <2> QED
    BY <1>1, <2>4, <2>5, <2>6, <2>7 DEF InOrdered, ChainFrom
<1>10. CASE c # d
  <2>1. ext'[c] = e
    <3> HIDE DEF d, c
    <3> QED
      BY <1>1, <1>8, <1>10 DEF e
  <2>2. ASSUME Storing(bc)'
        PROVE  /\ Storing(bc)
               /\ buf'[bc[3] - Stored(bc)' + 1] = buf[bc[3] - Stored(bc) + 1]
    <3>1. UNCHANGED <<comPc, blk, rgrp>> /\ rgrp = bc[1] /\ blk = bc[2] /\ bc[3] >= Stored(bc)'
      BY <1>1, <2>2 DEF Storing
    <3>2. Stored(bc) = n - m /\ Stored(bc)' = n - (m - 1)
      BY <1>1, <1>3, <1>4, <1>5, <3>1 DEF Stored
    <3>3. bc[3] < n
      <4>1. bc[3] \in 0..(Blocks[bc[1]][bc[2]].len - 1)
        BY InBlockCellFacts
      <4> QED
        BY <1>3, <3>1, <4>1
    <3>4. bc[3] >= n - m /\ bc[3] - (n - (m - 1)) + 1 \in 1..(m - 1)
          /\ (bc[3] - (n - (m - 1)) + 1) + 1 = bc[3] - (n - m) + 1
      BY <1>8, <3>1, <3>2, <3>3
    <3> QED
      BY <1>1, <1>5, <3>1, <3>2, <3>4 DEF Storing
  <2> QED
    BY <1>1, <1>7, <2>1, <2>2 DEF InOrdered, ChainFrom
<1> QED
  BY <1>9, <1>10

\* Taking a frame, a slave changes none of its inputs; its answer joins the chain.
LEMMA InSlaveTake ==
  ASSUME SkewInv, NEW s \in Slaves, SlaveGet(s) \/ SlaveSet(s),
         NEW bc \in InBlockCells, Channel(bc) \in Pins, InOrdered(bc)
  PROVE  InOrdered(bc)'
<1> DEFINE m == Channel(bc)[1]
           z == pin[Channel(bc)]
<1>1. UNCHANGED <<ext, img>> /\ UNCHANGED comVars
  BY DEF SlaveGet, SlaveSet, plcVars
<1>2. rxq'[Plc] = rxq[Plc]
  BY OtherQueues DEF SlaveGet, SlaveSet
<1>3. /\ m \in Slaves /\ Channel(bc)[2] \in InGroups /\ z \in Nat
      /\ txq[m] \in Seq(Responses)
  BY InOrderFacts
<1>4. Storing(bc)' => Storing(bc) /\ buf' = buf
  BY <1>1 DEF comVars, Storing, Stored
<1>5. pin'[Channel(bc)] = z
  <2>1. CASE SlaveGet(s)
    BY <2>1 DEF SlaveGet, slaveVars
  <2>2. CASE SlaveSet(s)
    <3>1. \A g \in OutGroups : \A b, j : Channel(<<g, b, j>>) # Channel(bc)
      BY <1>3, GroupFacts DEF Channel
    <3>2. TypeOK /\ QueuesOK(OutFrames, Responses)
      BY DEF SkewInv, OutFrames
    <3> QED
      BY <2>2, <3>1, <3>2, SlaveSetPins
  <2> QED
    BY <2>1, <2>2
<1>6. txq'[m] = txq[m]
      \/ \E r \in Responses : /\ IsFor(r, bc) => Value(r, bc) = z
                              /\ txq'[m] = Append(txq[m], r)
  <2>1. CASE UNCHANGED txq
    BY <2>1
  <2>2. ASSUME SlaveGet(s), NEW r \in Answers(s, Head(rxq[s])), Enqueue(s, r)
        PROVE  \/ txq'[m] = txq[m]
               \/ r \in Responses /\ (IsFor(r, bc) => Value(r, bc) = z)
                  /\ txq'[m] = Append(txq[m], r)
    <3>1. Head(rxq[s]) \in OutFrames /\ Head(rxq[s]).kind = "get"
      BY <2>2, SlavePopOK DEF SlaveGet, SkewInv, OutFrames
    <3>2. Head(rxq[s]) \in Requests
      BY <3>1, OutFrameFacts
    <3>3. r \in Responses /\ (IsFor(r, bc) => Value(r, bc) = z)
      BY <2>2, <3>2, AnswersOK, AnswersThePin DEF SkewInv, TypeOK
    <3>4. txq \in [Nodes -> Seq(OutFrames \cup Responses)] /\ m \in Nodes
      BY <1>3, NodeFacts DEF SkewInv, QueuesOK, TxOK, OutFrames
    <3>5. txq'[m] = txq[m] \/ txq'[m] = Append(txq[m], r)
      BY <2>2, <3>4 DEF Enqueue
    <3> QED
      BY <3>3, <3>5
  <2>3. CASE SlaveSet(s)
    BY <2>1, <2>3 DEF SlaveSet
  <2> QED
    BY <2>1, <2>2, <2>3 DEF SlaveGet
<1>7. \A x \in Nat : ChainFrom(x, bc) => Chain(x, rxq'[Plc], txq'[m], pin'[Channel(bc)], bc)
  <2> HIDE DEF m, z
  <2> SUFFICES ASSUME NEW x \in Nat, Chain(x, rxq[Plc], txq[m], z, bc)
               PROVE  Chain(x, rxq[Plc], txq'[m], z, bc)
    BY <1>2, <1>5 DEF ChainFrom, m, z
  <2>1. CASE txq'[m] = txq[m]
    BY <2>1
  <2>2. ASSUME NEW r \in Responses, IsFor(r, bc) => Value(r, bc) = z,
               txq'[m] = Append(txq[m], r)
        PROVE  Chain(x, rxq[Plc], txq'[m], z, bc)
    BY <1>3, <2>2, ChainSend
  <2> QED
    BY <1>6, <2>1, <2>2
<1> QED
  BY <1>1, <1>4, <1>7, InKept

\* A frame that is for another value.
LEMMA ChainPass ==
  ASSUME NEW bc, NEW S, NEW in \in Seq(S), NEW f \in S, ~IsFor(f, bc), NEW r,
         r = Append(in, f) \/ r = in, NEW out, NEW p, NEW x, Chain(p, in, out, x, bc)
  PROVE  Chain(p, r, out, x, bc)
<1>1. /\ Rising(r, bc) /\ AtLeast(r, p, bc)
      /\ \A y : AtMost(in, y, bc) => AtMost(r, y, bc)
  BY AddedOrder DEF Chain
<1> QED
  BY <1>1 DEF Chain

\* What a slave sends moves on in the chains of its own values.
LEMMA InSlaveSend ==
  ASSUME SkewInv, OwnAnswers, NEW s \in Slaves, SlaveRxEmpty(s) \/ SlaveTx(s),
         NEW bc \in InBlockCells, Channel(bc) \in Pins, InOrdered(bc)
  PROVE  InOrdered(bc)'
<1> DEFINE m == Channel(bc)[1]
           z == pin[Channel(bc)]
           f == Head(txq[s])
<1>1. UNCHANGED <<ext, img, pin>> /\ UNCHANGED comVars
  BY DEF SlaveRxEmpty, SlaveTx, plcVars
<1>2. Storing(bc)' => Storing(bc) /\ buf' = buf
  BY <1>1 DEF comVars, Storing, Stored
<1>3. CASE SlaveRxEmpty(s)
  <2>1. UNCHANGED <<txq, rxq>>
    BY <1>3 DEF SlaveRxEmpty
  <2> QED
    BY <1>1, <1>2, <2>1, InSame
<1>4. CASE SlaveTx(s)
  <2>1. /\ txq[s] \in Seq(Responses) /\ rxq[Plc] \in Seq(Responses) /\ txq[s] # <<>>
    BY <1>4 DEF SlaveTx, Deliver, Lose, SkewInv, QueuesOK, TxOK, RxOK
  <2>2. f \in Responses /\ f.from = s
    BY <2>1, QueueFacts, TailAt DEF OwnAnswers
  <2>3. /\ m \in Slaves /\ txq[m] \in Seq(Responses)
        /\ txq'[m] = IF m = s THEN Tail(txq[m]) ELSE txq[m]
    <3>1. txq \in [Nodes -> Seq(OutFrames \cup Responses)]
      BY DEF SkewInv, QueuesOK, TxOK, OutFrames
    <3>2. m \in Slaves /\ m \in Nodes /\ txq[m] \in Seq(Responses)
      BY InOrderFacts, NodeFacts
    <3> QED
      BY <1>4, <3>1, <3>2 DEF SlaveTx, Deliver, Lose
  <2>4. rxq'[Plc] = Append(rxq[Plc], f) \/ rxq'[Plc] = rxq[Plc]
    <3>1. CASE Lose(s)
      BY <3>1 DEF Lose
    <3>2. CASE Deliver(s)
      <4>1. Plc \notin Overwrites
        BY NodesAssumption
      <4>2. rxq'[Plc] = IF Plc \in Receivers(f) THEN Received(Plc, f) ELSE rxq[Plc]
        BY <3>2, NodeFacts DEF Deliver
      <4> QED
        BY <4>1, <4>2 DEF Received
    <3> QED
      BY <1>4, <3>1, <3>2 DEF SlaveTx
  <2>5. m # s => ~IsFor(f, bc)
    <3>1. f.kind = "resp"
      BY <2>2 DEF Responses
    <3>2. IsFor(f, bc) => f.from = Blocks[bc[1]][bc[2]].node
      BY <3>1 DEF IsFor, Matching
    <3>3. m = Blocks[bc[1]][bc[2]].node
      BY DEF Channel
    <3> QED
      BY <2>2, <3>2, <3>3
  <2>6. \A x \in Nat : ChainFrom(x, bc) => Chain(x, rxq'[Plc], txq'[m], z, bc)
    <3> HIDE DEF m, z
    <3> SUFFICES ASSUME NEW x \in Nat, Chain(x, rxq[Plc], txq[m], z, bc)
                 PROVE  Chain(x, rxq'[Plc], txq'[m], z, bc)
      BY DEF ChainFrom, m, z
    <3>1. CASE m = s
      <4>1. txq'[m] = Tail(txq[m]) /\ txq[m] # <<>>
            /\ (rxq'[Plc] = Append(rxq[Plc], Head(txq[m])) \/ rxq'[Plc] = rxq[Plc])
        BY <2>1, <2>3, <2>4, <3>1
      <4> QED
        BY <2>1, <2>3, <4>1, ChainDeliver
    <3>2. CASE m # s
      <4> HIDE DEF f
      <4> QED
        BY <2>1, <2>2, <2>3, <2>4, <2>5, <3>2, ChainPass
    <3> QED
      BY <3>1, <3>2
  <2> QED
    BY <1>1, <1>2, <2>6, InKept
<1> QED
  BY <1>3, <1>4

\* Input pins are counted on, whatever restarts.
LEMMA InPinChange ==
  ASSUME SkewInv, PinChange, NEW bc \in InBlockCells, Channel(bc) \in Pins, InOrdered(bc)
  PROVE  InOrdered(bc)'
<1> DEFINE z == pin[Channel(bc)]
           out == txq[Channel(bc)[1]]
<1>1. UNCHANGED <<ext, img, rxq, txq>> /\ UNCHANGED comVars
  BY DEF PinChange, plcVars
<1>2. Storing(bc)' => Storing(bc) /\ buf' = buf
  BY <1>1 DEF comVars, Storing, Stored
<1>3. z \in Nat /\ Numbered(rxq[Plc], bc) /\ Numbered(out, bc)
  BY InOrderFacts
<1>4. pin'[Channel(bc)] \in Nat /\ z <= pin'[Channel(bc)]
  <2>1. pin \in [Pins -> Nat]
    BY DEF SkewInv, TypeOK
  <2>2. PICK q \in Pins : pin' = [pin EXCEPT ![q] = @ + 1]
    BY DEF PinChange, InPins
  <2> QED
    BY <1>3, <2>1, <2>2
<1>5. \A x \in Nat : ChainFrom(x, bc) => Chain(x, rxq[Plc], out, pin'[Channel(bc)], bc)
  <2> HIDE DEF z, out
  <2> SUFFICES ASSUME NEW x \in Nat, Chain(x, rxq[Plc], out, z, bc)
               PROVE  Chain(x, rxq[Plc], out, pin'[Channel(bc)], bc)
    BY DEF ChainFrom, z, out
  <2> QED
    BY <1>3, <1>4, ChainUp
<1> QED
  BY <1>1, <1>2, <1>5, InKept

LEMMA InSlaveRestart ==
  ASSUME SkewInv, NEW s \in Slaves, SlaveRestart(s),
         NEW bc \in InBlockCells, Channel(bc) \in Pins, InOrdered(bc)
  PROVE  InOrdered(bc)'
<1> DEFINE m == Channel(bc)[1]
<1>1. UNCHANGED <<ext, img>> /\ UNCHANGED comVars /\ rxq'[Plc] = rxq[Plc]
  BY OtherQueues DEF SlaveRestart, plcVars
<1>2. Storing(bc)' => Storing(bc) /\ buf' = buf
  BY <1>1 DEF comVars, Storing, Stored
<1>3. m \in Nodes /\ Channel(bc) \in InPins
  BY InOrderFacts, NodeFacts DEF InPins
<1>4. pin'[Channel(bc)] = pin[Channel(bc)]
  BY <1>3 DEF SlaveRestart, OutPins
<1>5. txq'[m] = <<>> \/ txq'[m] = txq[m]
  <2>1. txq \in [Nodes -> Seq(OutFrames \cup Responses)]
    BY DEF SkewInv, QueuesOK, TxOK, OutFrames
  <2> QED
    BY <1>3, <2>1 DEF SlaveRestart
<1>6. \A x \in Nat : ChainFrom(x, bc) => Chain(x, rxq'[Plc], txq'[m], pin'[Channel(bc)], bc)
  BY <1>1, <1>4, <1>5, ChainBoot DEF ChainFrom
<1> QED
  BY <1>1, <1>2, <1>6, InKept

LEMMA InPlcRestart ==
  ASSUME SkewInv, PlcRestart, NEW bc \in InBlockCells, Channel(bc) \in Pins, InOrdered(bc)
  PROVE  InOrdered(bc)'
<1> DEFINE c == Cell(bc[1], bc[2], bc[3])
           out == txq[Channel(bc)[1]]
           z == pin[Channel(bc)]
<1>1. /\ c \in Cells /\ c[1] \in InGroups /\ ext[c] \in Nat /\ z \in Nat
      /\ Numbered(out, bc) /\ Channel(bc)[1] \in Slaves
  BY InOrderFacts
<1>2. /\ UNCHANGED pin /\ txq'[Channel(bc)[1]] = out /\ rxq'[Plc] = <<>>
  <2>1. rxq \in [Nodes -> Seq(OutFrames \cup Responses)]
    BY DEF SkewInv, QueuesOK, RxOK, OutFrames
  <2>2. txq'[Channel(bc)[1]] = out
    BY <1>1, OtherQueues DEF PlcRestart
  <2> QED
    BY <2>1, <2>2, NodeFacts DEF PlcRestart, slaveVars
<1>3. ext'[c] = 0
  BY <1>1, GroupFacts DEF PlcRestart
<1>4. \A v \in DOMAIN InVars : img'[v] = 0
  BY DEF PlcRestart
<1>5. Chain(0, <<>>, out, z, bc)
  <2>1. \E x \in Nat : Chain(x, rxq[Plc], out, z, bc)
    BY <1>1 DEF InOrdered, ChainFrom
  <2> HIDE DEF out, z
  <2> QED
    BY <1>1, <2>1, ChainReset
<1>6. ~Storing(bc)'
  BY DEF PlcRestart, BeginPhase, FirstPc, Storing
<1> QED
  BY <1>2, <1>3, <1>4, <1>5, <1>6 DEF InOrdered, ChainFrom

\* A slave's queue holds its own answers.
LEMMA OwnExcept ==
  ASSUME SkewInv, OwnAnswers, NEW n \in Nodes, NEW q, txq' = [txq EXCEPT ![n] = q],
         n # Plc => \A i \in DOMAIN q : q[i].from = n
  PROVE  OwnAnswers'
<1>1. txq \in [Nodes -> Seq(OutFrames \cup Responses)]
  BY DEF SkewInv, QueuesOK, TxOK, OutFrames
<1> QED
  BY <1>1, NodeFacts DEF OwnAnswers

LEMMA OwnNext ==
  ASSUME SkewInv, OwnAnswers, Next
  PROVE  OwnAnswers'
<1>1. CASE UNCHANGED txq
  BY <1>1 DEF OwnAnswers
<1>2. CASE \E q : txq' = [txq EXCEPT ![Plc] = q]
  BY <1>2, OwnExcept, NodeFacts
<1>3. CASE PlcTask \/ UavcanTask \/ PinChange \/ PlcRestart
  <2>1. UNCHANGED txq \/ \E q : txq' = [txq EXCEPT ![Plc] = q]
    BY <1>3 DEF PlcTask, ScanStart, ScanInput, ScanRun, ScanOutput, UavcanTask, SendGet,
                CopyCell, SendSet, ComRxDrop, ComRx, StoreCell, ComRxEmpty, ComTx,
                Enqueue, Deliver, Lose, PinChange, PlcRestart
  <2> QED
    BY <1>1, <1>2, <2>1
<1>4. ASSUME NEW s \in Slaves, SlaveLoop(s) \/ SlaveRestart(s)
      PROVE  OwnAnswers'
  <2> DEFINE q == txq[s]
  <2>1. q \in Seq(Responses) /\ \A i \in DOMAIN q : q[i].from = s
    BY DEF OwnAnswers, SkewInv, QueuesOK, TxOK
  <2>2. CASE SlaveSet(s) \/ SlaveRxEmpty(s)
    BY <1>1, <2>2 DEF SlaveSet, SlaveRxEmpty
  <2>3. CASE SlaveGet(s)
    <3>1. ASSUME NEW r \in Answers(s, Head(rxq[s])), Enqueue(s, r)
          PROVE  OwnAnswers'
      <4>1. r.from = s
        BY <3>1 DEF Answers, RespFrame
      <4>2. Head(rxq[s]) \in OutFrames /\ Head(rxq[s]).kind = "get"
        BY <2>3, SlavePopOK DEF SlaveGet, SkewInv, OutFrames
      <4>3. r \in Responses
        BY <3>1, <4>2, OutFrameFacts, AnswersOK DEF SkewInv, TypeOK
      <4>4. \A i \in DOMAIN Append(q, r) : Append(q, r)[i].from = s
        BY <2>1, <4>1, <4>3, AddedAt
      <4>5. txq' = txq \/ txq' = [txq EXCEPT ![s] = Append(q, r)]
        BY <3>1 DEF Enqueue
      <4> QED
        BY <1>1, <4>4, <4>5, OwnExcept, NodeFacts
    <3> QED
      BY <1>1, <2>3, <3>1 DEF SlaveGet
  <2>4. CASE SlaveTx(s)
    <3>1. q # <<>> /\ txq' = [txq EXCEPT ![s] = Tail(q)]
      BY <2>4 DEF SlaveTx, Deliver, Lose
    <3>2. \A i \in DOMAIN Tail(q) : Tail(q)[i].from = s
      BY <2>1, <3>1, TailAt
    <3> QED
      BY <3>1, <3>2, OwnExcept, NodeFacts
  <2>5. CASE SlaveRestart(s)
    <3>1. txq' = [txq EXCEPT ![s] = <<>>] /\ \A i \in DOMAIN <<>> : <<>>[i].from = s
      BY <2>5 DEF SlaveRestart
    <3> QED
      BY <3>1, OwnExcept, NodeFacts
  <2> QED
    BY <1>4, <2>2, <2>3, <2>4, <2>5 DEF SlaveLoop
<1> QED
  BY <1>3, <1>4 DEF Next

-----------------------------------------------------------------------------
(* The inputs stay in order *)

LEMMA InitInputs == Init => InputsOrdered
<1> SUFFICES ASSUME Init PROVE InputsOrdered
  OBVIOUS
<1>1. SkewInv
  BY InitSkewInv
<1>2. OwnAnswers
  BY NodeFacts DEF Init, OwnAnswers
<1>3. ASSUME NEW bc \in InBlockCells, Channel(bc) \in Pins
      PROVE  InOrdered(bc)
  <2>1. /\ Channel(bc)[1] \in Nodes /\ Cell(bc[1], bc[2], bc[3]) \in Cells
    BY <1>1, <1>3, InOrderFacts, NodeFacts
  <2>2. /\ pin[Channel(bc)] = 0 /\ ext[Cell(bc[1], bc[2], bc[3])] = 0
        /\ rxq[Plc] = <<>> /\ txq[Channel(bc)[1]] = <<>>
        /\ \A v \in DOMAIN InVars : img[v] = 0
    BY <1>3, <2>1, NodeFacts DEF Init
  <2>3. Chain(0, <<>>, <<>>, 0, bc)
    BY DEF Chain, Rising, AtLeast, AtMost
  <2>4. ~Storing(bc)
    BY DEF Init, FirstPc, Storing
  <2> QED
    BY <2>2, <2>3, <2>4 DEF InOrdered, ChainFrom
<1> QED
  BY <1>2, <1>3 DEF InputsOrdered

LEMMA NextInputs == SkewInv /\ InputsOrdered /\ Next => InputsOrdered'
<1> SUFFICES ASSUME SkewInv, InputsOrdered, Next PROVE InputsOrdered'
  OBVIOUS
<1>1. OwnAnswers /\ OwnAnswers'
  BY OwnNext DEF InputsOrdered
<1>2. ASSUME NEW bc \in InBlockCells, Channel(bc) \in Pins
      PROVE  InOrdered(bc)'
  <2>1. InOrdered(bc)
    BY <1>2 DEF InputsOrdered
  <2>2. CASE UavcanTask
    BY <1>2, <2>1, <2>2, InSend, InReceive, InStore DEF UavcanTask
  <2>3. ASSUME NEW s \in Slaves, SlaveLoop(s)
        PROVE  InOrdered(bc)'
    BY <1>1, <1>2, <2>1, <2>3, InSlaveTake, InSlaveSend DEF SlaveLoop
  <2> QED
    BY <1>2, <2>1, <2>2, <2>3, InPlcTask, InPinChange, InSlaveRestart, InPlcRestart DEF Next
<1> QED
  BY <1>1, <1>2 DEF InputsOrdered

LEMMA StutterInputs == InputsOrdered /\ UNCHANGED vars => InputsOrdered'
<1> SUFFICES ASSUME InputsOrdered, UNCHANGED vars PROVE InputsOrdered'
  OBVIOUS
<1>1. UNCHANGED <<ext, img, txq, rxq, pin, comPc, rgrp, blk, buf>>
  BY DEF vars, plcVars, comVars, slaveVars
<1> QED
  BY <1>1 DEF InputsOrdered, OwnAnswers, InOrdered, ChainFrom, Storing, Stored

-----------------------------------------------------------------------------
(* The refinement of the inputs *)

LEMMA InPointFacts ==
  ASSUME SkewInv, NEW p \in InPoints
  PROVE  \E bc \in InBlockCells :
           /\ Channel(bc) \in Pins /\ Channel(bc)[2] \in InGroups
           /\ p.pin = Channel(bc) /\ p.var \in DOMAIN InVars
           /\ InVars[p.var] = Cell(bc[1], bc[2], bc[3])
<1>1. PICK q \in InBlockCells \X DOMAIN InVars :
        /\ Channel(q[1]) \in Pins /\ InVars[q[2]] = Cell(q[1][1], q[1][2], q[1][3])
        /\ p = [pin |-> Channel(q[1]), var |-> q[2]]
  BY DEF InPoints
<1>2. q[1] \in InBlockCells /\ q[2] \in DOMAIN InVars
  OBVIOUS
<1>3. p.pin = Channel(q[1]) /\ p.var = q[2]
  BY <1>1
<1> QED
  BY <1>1, <1>2, <1>3, InOrderFacts

LEMMA InPointTypes ==
  ASSUME SkewInv, NEW p \in InPoints
  PROVE  /\ p.pin \in Pins /\ p.var \in DOMAIN InVars
         /\ pin[p.pin] \in Nat /\ img[p.var] \in Nat
<1>1. p.pin \in Pins /\ p.var \in DOMAIN InVars
  BY InPointFacts
<1>2. pin \in [Pins -> Nat] /\ img \in [DOMAIN InVars -> Nat]
  BY DEF SkewInv, TypeOK, PlcOK
<1> QED
  BY <1>1, <1>2

LEMMA InitInputsImage == Init => InputsImage!Init
<1> SUFFICES ASSUME Init PROVE InputsImage!Init
  OBVIOUS
<1>1. \A p \in InPoints : p.pin \in Pins /\ p.var \in DOMAIN InVars
  BY InitSkewInv, InPointTypes
<1>2. \A p \in InPoints : pin[p.pin] = 0 /\ img[p.var] = 0
  BY <1>1 DEF Init
<1>3. restarts = 0
  BY DEF Init
<1> QED
  BY <1>2, <1>3 DEF InputsImage!Init

\* No step takes an input pin back.
LEMMA InPinRises ==
  ASSUME SkewInv, Next, NEW bc \in InBlockCells, Channel(bc) \in Pins
  PROVE  pin[Channel(bc)] <= pin'[Channel(bc)]
<1>1. Channel(bc)[2] \in InGroups /\ pin[Channel(bc)] \in Nat /\ pin \in [Pins -> Nat]
  BY InOrderFacts DEF SkewInv, TypeOK
<1>2. CASE pin'[Channel(bc)] = pin[Channel(bc)]
  BY <1>1, <1>2
<1>3. CASE PlcTask \/ PlcRestart
  <2>1. UNCHANGED pin
    BY <1>3 DEF PlcTask, ScanStart, ScanInput, ScanRun, ScanOutput, PlcRestart, slaveVars
  <2> QED
    BY <1>2, <2>1
<1>4. CASE UavcanTask
  <2>1. UNCHANGED pin
    BY <1>4 DEF UavcanTask, SendGet, CopyCell, SendSet, ComRxDrop, ComRx, StoreCell,
                ComRxEmpty, ComTx, slaveVars
  <2> QED
    BY <1>2, <2>1
<1>5. ASSUME NEW s \in Slaves, SlaveGet(s) \/ SlaveRxEmpty(s) \/ SlaveTx(s)
      PROVE  UNCHANGED pin
  BY <1>5 DEF SlaveGet, SlaveRxEmpty, SlaveTx, slaveVars
<1>6. ASSUME NEW s \in Slaves, SlaveSet(s)
      PROVE  pin'[Channel(bc)] = pin[Channel(bc)]
  <2>1. \A g \in OutGroups : \A b, j : Channel(<<g, b, j>>) # Channel(bc)
    BY <1>1, GroupFacts DEF Channel
  <2>2. TypeOK /\ QueuesOK(OutFrames, Responses)
    BY DEF SkewInv, OutFrames
  <2> QED
    BY <1>6, <2>1, <2>2, SlaveSetPins
<1>7. CASE PinChange
  <2>1. PICK q \in Pins : pin' = [pin EXCEPT ![q] = @ + 1]
    BY <1>7 DEF PinChange, InPins
  <2> QED
    BY <1>1, <2>1
<1>8. ASSUME NEW s \in Slaves, SlaveRestart(s)
      PROVE  pin'[Channel(bc)] = pin[Channel(bc)]
  BY <1>1, <1>8 DEF SlaveRestart, OutPins, InPins
<1> QED
  BY <1>2, <1>3, <1>4, <1>5, <1>6, <1>7, <1>8 DEF Next, SlaveLoop

\* Only the scan and a restart of the PLC change the program's inputs.
LEMMA StepInputs ==
  ASSUME SkewInv, InputsOrdered, InputsOrdered', Next
  PROVE  \/ restarts' = restarts /\ UNCHANGED img
         \/ /\ restarts' = restarts /\ UNCHANGED pin
            /\ \A p \in InPoints : img[p.var] <= img'[p.var] /\ img'[p.var] <= pin[p.pin]
         \/ restarts' = restarts + 1 /\ \A p \in InPoints : img'[p.var] \in {0, img[p.var]}
<1>1. CASE PlcTask /\ ~ScanInput
  BY <1>1 DEF PlcTask, ScanStart, ScanRun, ScanOutput
<1>2. CASE UavcanTask
  BY <1>2 DEF UavcanTask, SendGet, CopyCell, SendSet, ComRxDrop, ComRx, StoreCell,
              ComRxEmpty, ComTx, plcVars
<1>3. ASSUME NEW s \in Slaves, SlaveLoop(s)
      PROVE  restarts' = restarts /\ UNCHANGED img
  BY <1>3 DEF SlaveLoop, SlaveGet, SlaveSet, SlaveRxEmpty, SlaveTx, plcVars
<1>4. CASE PinChange
  BY <1>4 DEF PinChange, plcVars
<1>5. ASSUME NEW s \in Slaves, SlaveRestart(s)
      PROVE  restarts' = restarts + 1 /\ UNCHANGED img
  BY <1>5 DEF SlaveRestart, plcVars
<1>6. CASE PlcRestart
  <2>1. restarts' = restarts + 1 /\ \A v \in DOMAIN InVars : img'[v] = 0
    BY <1>6 DEF PlcRestart
  <2> QED
    BY <2>1, InPointTypes
<1>7. CASE ScanInput
  <2>1. /\ restarts' = restarts /\ UNCHANGED ext /\ UNCHANGED pin
        /\ img' = [img EXCEPT ![pos] = ext[InVars[pos]]]
    BY <1>7 DEF ScanInput, slaveVars
  <2> SUFFICES ASSUME NEW p \in InPoints
               PROVE  img[p.var] <= img'[p.var] /\ img'[p.var] <= pin[p.pin]
    BY <2>1
  <2>2. PICK bc \in InBlockCells :
          /\ Channel(bc) \in Pins /\ p.pin = Channel(bc) /\ p.var \in DOMAIN InVars
          /\ InVars[p.var] = Cell(bc[1], bc[2], bc[3])
    BY InPointFacts
  <2> DEFINE e == ext[Cell(bc[1], bc[2], bc[3])]
  <2>3. e \in Nat /\ img[p.var] \in Nat /\ pin[p.pin] \in Nat
    BY <2>2, InOrderFacts, InPointTypes
  <2>4. img[p.var] <= e /\ e <= pin[p.pin]
    BY <2>2 DEF InputsOrdered, InOrdered, ChainFrom, Chain
  <2>5. img'[p.var] = img[p.var] \/ img'[p.var] = e
    <3>1. img \in [DOMAIN InVars -> Nat]
      BY DEF SkewInv, TypeOK, PlcOK
    <3> QED
      BY <2>1, <2>2, <3>1
  <2> HIDE DEF e
  <2> QED
    BY <2>3, <2>4, <2>5
<1> QED
  BY <1>1, <1>2, <1>3, <1>4, <1>5, <1>6, <1>7 DEF Next

LEMMA NextInputsImage ==
  ASSUME SkewInv, SkewInv', InputsOrdered, InputsOrdered', Next
  PROVE  InputsImage!Next
<1>1. InputsImage!TypeOK'
  <2>1. /\ pin' \in [Pins -> Nat] /\ img' \in [DOMAIN InVars -> Nat] /\ restarts' \in Nat
    BY BoundsAssumption DEF SkewInv, TypeOK, PlcOK
  <2>2. \A p \in InPoints : pin'[p.pin] \in Nat /\ img'[p.var] \in Nat
    BY <2>1, InPointTypes
  <2> QED
    BY <2>1, <2>2 DEF InputsImage!TypeOK
<1>2. InputsImage!Newer
  <2>1. \A p \in InPoints : pin'[p.pin] >= pin[p.pin]
    BY InPointFacts, InPinRises
  <2> QED
    BY <2>1 DEF InputsImage!Newer
<1>3. CASE restarts' = restarts /\ UNCHANGED img
  <2>1. InputsImage!Produce
    BY <1>2, <1>3 DEF InputsImage!Produce
  <2> QED
    BY <1>1, <2>1 DEF InputsImage!Next
<1>4. CASE /\ restarts' = restarts /\ UNCHANGED pin
           /\ \A p \in InPoints : img[p.var] <= img'[p.var] /\ img'[p.var] <= pin[p.pin]
  <2>1. InputsImage!Carry
    BY <1>4 DEF InputsImage!Carry
  <2> QED
    BY <1>1, <2>1 DEF InputsImage!Next
<1>5. CASE restarts' = restarts + 1 /\ \A p \in InPoints : img'[p.var] \in {0, img[p.var]}
  <2>1. InputsImage!Restart
    BY <1>2, <1>5 DEF InputsImage!Restart
  <2> QED
    BY <1>1, <2>1 DEF InputsImage!Next
<1> QED
  BY <1>3, <1>4, <1>5, StepInputs

LEMMA StutterInputsImage == UNCHANGED vars => UNCHANGED InputsImage!vars
<1> SUFFICES ASSUME UNCHANGED vars PROVE UNCHANGED InputsImage!vars
  OBVIOUS
<1>1. UNCHANGED <<img, pin, restarts>>
  BY DEF vars, plcVars, slaveVars
<1> QED
  BY <1>1 DEF InputsImage!vars

-----------------------------------------------------------------------------
(* The theorems *)

\* The values of every cell on their way to its pin stay in the order in which
\* the PLC task wrote them, in every reachable state.
THEOREM OutputsStayOrdered == Spec => []OutputsOrdered
BY InitOrdered, NextOrdered, StutterOrdered, SkewInvariant, PTL DEF Spec

\* The outputs implement IoImage: what a slave's pins show is a late but ordered
\* image of the shared output buffers, although frames get lost, queues fill up
\* and overwrite, and nodes restart.
THEOREM OutputsAreInOrder == Spec => OutputsInOrder
<1>1. Init => OutputsImage!Init
  BY InitImage
<1>2. /\ SkewInv /\ SkewInv' /\ OutputsOrdered /\ OutputsOrdered' /\ [Next]_vars
      => [OutputsImage!Next]_(OutputsImage!vars)
  BY NextImage, StutterImage
<1> QED
  BY <1>1, <1>2, SkewInvariant, OutputsStayOrdered, PTL
     DEF Spec, OutputsInOrder, OutputsImage!Spec

\* The values of every pin on their way to the program stay in the order in which
\* the pin had them, from the slave's answer to the variable of the scan.
THEOREM InputsStayOrdered == Spec => []InputsOrdered
BY InitInputs, NextInputs, StutterInputs, SkewInvariant, PTL DEF Spec

\* The inputs implement IoImage: what the program reads is a late but ordered
\* image of the slaves' pins, although answers get lost, are dropped by a full
\* queue or overtaken by a restart, and the scan reads while they are stored.
THEOREM InputsAreInOrder == Spec => InputsInOrder
<1>1. Init => InputsImage!Init
  BY InitInputsImage
<1>2. /\ SkewInv /\ SkewInv' /\ InputsOrdered /\ InputsOrdered' /\ [Next]_vars
      => [InputsImage!Next]_(InputsImage!vars)
  BY NextInputsImage, StutterInputsImage
<1> QED
  BY <1>1, <1>2, SkewInvariant, InputsStayOrdered, PTL
     DEF Spec, InputsInOrder, InputsImage!Spec
=============================================================================
