------------------------- MODULE MC_SupervisedNode --------------------------
(* Small instance of SupervisedNode. *)
EXTENDS SupervisedNode

SupervisorNode ==
  [node_id |-> 2, producer_id |-> 2, key_id |-> 2, role |-> MCXN947,
   authority_class |-> "OBSERVE",
   capabilities |-> required_capabilities(MCXN947)]

(* The supervisory peer, and one that brings the actuation gate as well.    *)
MCSelfNodes ==
  {SupervisorNode,
   [SupervisorNode EXCEPT !.capabilities = @ \cup {"ACTUATION_GATE"}]}

(* The state byte, the low byte of the sequence and the CRC.                *)
MCFlips == {<<6, 0>>, <<12, 1>>, <<24, 3>>}
=============================================================================
