----------------------------- MODULE SerialLine ------------------------------
(***************************************************************************)
(* The serial line of the device: the rings of the USART2 driver, whose    *)
(* bytes are only numbered, and the link above them, whose bytes make      *)
(* frames.  The link sees the driver through read_byte and write alone:    *)
(* the bytes it reads are a line that loses bytes (LinkService), and that  *)
(* is all the rings may do to them (UartRings).  Reports are the payloads  *)
(* that travel in the frames.  The three share no state, so a behaviour    *)
(* exercises one of them while the others rest.                            *)
(***************************************************************************)
EXTENDS UartRings, Reports

VARIABLE layer  \* the layer this behaviour exercises

SerialInit ==
  layer \in {"driver", "link", "reports"} /\ Init /\ LinkInit /\ ReportsInit

SerialNext ==
  /\ \/ layer = "driver" /\ Next /\ UNCHANGED << linkVars, reportVars >>
     \/ layer = "link" /\ LinkNext /\ UNCHANGED << vars, reportVars >>
     \/ layer = "reports" /\ ReportsNext /\ UNCHANGED << vars, linkVars >>
  /\ UNCHANGED layer

\* The fairness of the driver and the link; at rest none of its actions is enabled.
SerialSpec ==
  /\ SerialInit /\ [][SerialNext]_<< layer, vars, linkVars, reportVars >>
  /\ DriverFairness
  /\ LinkFairness
---------------------------------------------------------------------------
(* What the host concludes from the frames it gets is so: a gap in the     *)
(* telemetry numbers is a loss of that many frames, and a report says what *)
(* the device had.                                                         *)
HostInformed == GapIsLoss /\ ReadAsReported /\ AnswersAsDispatched
=============================================================================
