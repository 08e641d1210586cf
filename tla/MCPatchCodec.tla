---------------------------- MODULE MCPatchCodec ----------------------------
(* Bodies of up to two instructions in front of either form of ret.        *)
EXTENDS PatchCodec

XImmediates == {0, 3, 15}
I(op, v) == [op |-> op, v |-> v]
Instrs == {I("xor", 0), I("cli", 0), I("sti", 0), I("work", 0)}
          \cup {I("mov", v) : v \in XImmediates}
XBodies ==
  [instrs : {<<>>} \cup {<<i>> : i \in Instrs} \cup {<<i, j>> : i, j \in Instrs},
   rep : BOOLEAN]
=============================================================================
