----------------------------- MODULE MCRemoteIO -----------------------------
(* Instances of RemoteIO for TLC.  Node 51 is the slave of app_config.h.    *)
EXTENDS RemoteIO

MCSlaves1 == {51}
MCSlaves2 == {51, 52}
MCPlc     == 20

B(node, index, len) == [node |-> node, index |-> index, len |-> len]

NumChOf(S, di, ai, do, ao) ==
  [sg \in S \X {"DI", "AI", "DO", "AO"} |->
     CASE sg[2] = "DI" -> di [] sg[2] = "AI" -> ai
       [] sg[2] = "DO" -> do [] sg[2] = "AO" -> ao]

BlocksOf(di, ai, do, ao) == [DI |-> di, AI |-> ai, DO |-> do, AO |-> ao]

\* Outputs of two slaves, each of which has channels of both kinds.  Node 51
\* drives two of its three digital outputs from one block; the block of node
\* 52's analog output asks for a channel too many.
OutNumCh  == NumChOf(MCSlaves2, 0, 0, 3, 1)
OutBlocks == BlocksOf(<<>>, <<>>, <<B(51, 1, 2)>>, <<B(52, 0, 2)>>)
OutOutVars == <<<<"DO", 0>>, <<"DO", 1>>, <<"AO", 0>>>>

\* Inputs of both kinds, from blocks that start at the same channel; the
\* digital one asks for a channel too many.
InNumCh  == NumChOf(MCSlaves1, 1, 1, 0, 0)
InBlocks == BlocksOf(<<B(51, 0, 2)>>, <<B(51, 0, 1)>>, <<>>, <<>>)
InInVars == <<<<"DI", 0>>, <<"AI", 0>>>>

\* One digital input and one digital output of one slave.
LiveNumCh   == NumChOf(MCSlaves1, 1, 0, 1, 0)
LiveBlocks  == BlocksOf(<<B(51, 0, 1)>>, <<>>, <<B(51, 0, 1)>>, <<>>)
LiveInVars  == <<>>
LiveOutVars == <<<<"DO", 0>>>>

RxCap1 == [n \in Nodes |-> 1]
RxCap2 == [n \in Nodes |-> 2]
NoVars == <<>>
NoSlaves == {}
=============================================================================
