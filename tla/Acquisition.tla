----------------------------- MODULE Acquisition -----------------------------
(***************************************************************************)
(* The measuring side of the device, from the clock tree to the spectrum:  *)
(* the start of the device, the speed capture, the sample stream and the   *)
(* processing of its blocks.  Each hands the next a value (a sample rate,  *)
(* a speed, a block of samples) and reads nothing back, so a behaviour     *)
(* exercises one of them while the others rest.                            *)
(***************************************************************************)
EXTENDS RpmCapture, AcquisitionStream, Boot, Signal

VARIABLE part  \* the part this behaviour exercises

AcquisitionInit ==
  /\ part \in {"rpm", "stream", "boot", "signal"}
  /\ RpmInit /\ StreamInit /\ BootInit /\ SignalInit
  /\ part # "boot" => board = CHOOSE b \in Boards : TRUE

AcquisitionNext ==
  /\ \/ part = "rpm" /\ RpmNext /\ UNCHANGED << streamVars, bootVars, signalVars >>
     \/ part = "stream" /\ StreamNext /\ UNCHANGED << rpmVars, bootVars, signalVars >>
     \/ part = "boot" /\ BootNext /\ UNCHANGED << rpmVars, streamVars, signalVars >>
     \/ part = "signal" /\ SignalNext /\ UNCHANGED << rpmVars, streamVars, bootVars >>
  /\ UNCHANGED part

\* As in AcquisitionStream: pending interrupts are served and the main loop
\* keeps polling.
AcquisitionSpec ==
  /\ AcquisitionInit
  /\ [][AcquisitionNext]_<< part, rpmVars, streamVars, bootVars, signalVars >>
  /\ WF_streamVars(part = "stream" /\ Handlers)
  /\ WF_streamVars(part = "stream" /\ Foreground)
=============================================================================
