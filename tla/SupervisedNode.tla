--------------------------- MODULE SupervisedNode ---------------------------
(***************************************************************************)
(* The F401 as the one node that supervises a machine and is itself        *)
(* supervised: its health model and output control, and the heartbeats     *)
(* that tell the MCXN947 node of its state.  The state byte is all they    *)
(* share, and the path carries any value of it, so a behaviour exercises   *)
(* one of the two while the other rests.                                   *)
(***************************************************************************)
EXTENDS SupervisedDevice, HeartbeatPath

VARIABLE part  \* the part this behaviour exercises

NodeInit ==
  /\ part \in {"machine", "heartbeat"}
  /\ Init
  /\ IF part = "heartbeat" THEN HeartbeatInit
     ELSE HeartbeatStart(CHOOSE e \in Epochs : TRUE, CHOOSE n \in SelfNodes : TRUE,
                         CHOOSE s \in RecordStatus : TRUE)

NodeNext ==
  /\ \/ part = "machine" /\ Next /\ UNCHANGED heartbeatVars
     \/ part = "heartbeat" /\ HeartbeatNext /\ UNCHANGED vars
  /\ UNCHANGED part

\* The main loop analyses block after block, and the adapter does not fail at
\* every one of them; the supervisor's period timer keeps running.
NodeSpec ==
  /\ NodeInit /\ [][NodeNext]_<< part, vars, heartbeatVars >>
  /\ WF_vars(part = "machine" /\ BlockArrives)
  /\ WF_heartbeatVars(part = "heartbeat" /\ NoteMissed)
=============================================================================
