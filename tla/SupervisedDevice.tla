-------------------------- MODULE SupervisedDevice --------------------------
(***************************************************************************)
(* The health model, the supervisory control and the device state of the   *)
(* embedded link, as guardian_embedded_link.c ties them together: every    *)
(* operation of the main loop or of the local application that reaches one *)
(* of them is an action, with all the calls it makes.  All of them run in  *)
(* the main loop, one after the other.                                     *)
(*                                                                         *)
(* Whether a host may send a privileged command is SecureSession's matter; *)
(* here a command is one that was let through.                             *)
(***************************************************************************)
EXTENDS Control

CONSTANT None   \* no block scored yet

VARIABLES
  health,   \* guardian_health_t
  ctl,      \* guardian_control_t and the board's output
  link,     \* link->state, the device state of GET_STATUS and telemetry
  prev,     \* history: band of the last scored block, or None
  calm      \* history: calm blocks in a row, up to RecoveryStreak

vars == <<health, ctl, link, prev, calm>>

DeviceStates == {"BOOT", "IDLE", "RUNNING", "DEGRADED", "FAULT"}

control_device_state(state) ==
  CASE state = "ACTIVE" -> "RUNNING"
    [] state = "DEGRADED" -> "DEGRADED"
    [] state = "FAULT_LATCHED" -> "FAULT"
    [] OTHER -> "IDLE"

\* Control owns the device state while it supervises or holds a fault.
owns(c) == c.supervised \/ c.state = "FAULT_LATCHED"

sync_control_state(c) ==
  link' = IF owns(c) THEN control_device_state(c.state) ELSE link

\* A new control record, and the device state that goes with it.
Controlled(c) == ctl' = c /\ sync_control_state(c)

update_control_health(h, o1, o2) == Controlled(update_health(ctl, h.state, o1, o2))

\* guardian_embedded_link_init
Init ==
  /\ health = health_reset
  /\ ctl = control_init
  /\ link = "IDLE"
  /\ prev = None /\ calm = 0

\* guardian_embedded_link_configure_control_output: its only caller calls it
\* once, at start-up, before there is an output.
ConfigureOutput(o1, o2) ==
  /\ ~ctl.available
  /\ Controlled(configure_output(ctl, o1, o2))
  /\ UNCHANGED <<health, prev, calm>>

\* guardian_embedded_link_update_dsp: a feature block from the DSP.
UpdateDsp(f, o1, o2) ==
  /\ health' = ingest(health, f)
  /\ update_control_health(health', o1, o2)
  /\ IF rejected(health, f) \/ health.state \notin Scoring
     THEN UNCHANGED <<prev, calm>>
     ELSE /\ prev' = f.band
          /\ calm' = IF f.band # "calm" THEN 0
                     ELSE IF calm < RecoveryStreak THEN calm + 1 ELSE calm

\* BASELINE_CONTROL with START and a target; an impossible target is an error
\* and control is not told.
BaselineStart(n, o1, o2) ==
  /\ baseline_accepts(n)
  /\ health' = start_baseline(n)
  /\ update_control_health(health', o1, o2)
  /\ prev' = None /\ calm' = 0

\* BASELINE_CONTROL with RESET.
BaselineReset(o1, o2) ==
  /\ health' = health_reset
  /\ update_control_health(health', o1, o2)
  /\ prev' = None /\ calm' = 0

\* CONTROL_COMMAND
ControlCommand(action, o1, o2) ==
  /\ Controlled(control_action(ctl, action, o1, o2))
  /\ UNCHANGED <<health, prev, calm>>

SetLocalRunRequest(requested, o1, o2) ==
  /\ Controlled(set_local_run_request(ctl, requested, o1, o2))
  /\ UNCHANGED <<health, prev, calm>>

SetInterlock(closed, o1, o2) ==
  /\ Controlled(set_interlock(ctl, closed, o1, o2))
  /\ UNCHANGED <<health, prev, calm>>

\* guardian_embedded_link_set_state: the application's word counts only while
\* control does not own the device state.
SetState(state) ==
  /\ ~owns(ctl)
  /\ link' = state
  /\ UNCHANGED <<health, ctl, prev, calm>>

\* GET_CONTROL_STATUS changes nothing but brings the device state up to date.
GetControlStatus ==
  /\ sync_control_state(ctl)
  /\ UNCHANGED <<health, ctl, prev, calm>>

Next ==
  \/ \E o1, o2 \in Outcomes :
       \/ ConfigureOutput(o1, o2)
       \/ \E f \in Features : UpdateDsp(f, o1, o2)
       \/ \E n \in 0 .. MaxSamples + 1 : BaselineStart(n, o1, o2)
       \/ BaselineReset(o1, o2)
       \/ \E action \in Actions : ControlCommand(action, o1, o2)
       \/ \E b \in BOOLEAN : SetLocalRunRequest(b, o1, o2) \/ SetInterlock(b, o1, o2)
  \/ \E state \in DeviceStates : SetState(state)
  \/ GetControlStatus

Spec == Init /\ [][Next]_vars

\* A block that arrives while the output adapter works.
BlockArrives ==
  \E f \in Features, o \in Outcomes : o.ok /\ UpdateDsp(f, o, o)

----------------------------------------------------------------------------
(* Properties.                                                             *)

TypeOK ==
  /\ health \in HealthModel
  /\ ctl \in Control
  /\ link \in DeviceStates
  /\ prev \in Bands \cup {None} /\ calm \in 0 .. RecoveryStreak

\* What the control record publishes is consistent: a latched fault and the
\* state FAULT_LATCHED go together, supervision is one of the three other
\* states, the permit is given in ACTIVE and DEGRADED alone, and DEGRADED is
\* running on a warning (guardian_control_evaluate and every early return).
StatusConsistent ==
  /\ ctl.latched # {} <=> ctl.state = "FAULT_LATCHED"
  /\ ctl.supervised <=> ctl.state \in {"ARMED", "ACTIVE", "DEGRADED"}
  /\ ctl.permit <=> ctl.state \in {"ACTIVE", "DEGRADED"}
  /\ ctl.permit <=> ctl.supervised /\ ctl.run
  /\ ctl.permit => (ctl.health = "WARNING" <=> ctl.state = "DEGRADED")

\* The board's output is on only while every condition for running holds now:
\* armed, requested locally, interlock closed, a trained model that is not in
\* alarm.  The one exception is an adapter that failed, and then the failure
\* is latched (guardian_control_apply_output, guardian_control_latch_fault).
OutputJustified ==
  ctl.out =>
    \/ /\ ctl.supervised /\ ctl.run /\ ctl.closed /\ ctl.available /\ ctl.latched = {}
       /\ health.state \in {"READY", "WARNING"} /\ health.samples = health.target
    \/ "OUTPUT_FAILURE" \in ctl.latched

\* Control decides on the health model as it is now, never on an older state of
\* it (guardian_embedded_update_control_health after every change).
HealthNotStale == ctl.health = health.state

\* While control supervises or holds a fault, GET_STATUS and telemetry show its
\* state, whatever the application says (guardian_embedded_sync_control_state).
DeviceStateOwned ==
  owns(ctl) => link = control_device_state(ctl.state)

\* The output goes on only at a local run request that was off before: no host
\* command, closing interlock, recovering health or cleared fault starts the
\* machine ("A host command cannot directly request machine motion").
OnlyLocalStart ==
  [][~ctl.out /\ ctl'.out => ~ctl.run /\ ctl'.run /\ ctl.state = "ARMED"]_vars

\* Latched faults only grow, except that CLEAR_FAULT empties the latch when all
\* causes are gone and the adapter has confirmed the safe-off
\* (guardian_control_action).
FaultsStayLatched ==
  [][~(ctl.latched \subseteq ctl'.latched) =>
       /\ ctl'.latched = {} /\ ctl'.state = "DISABLED" /\ ~ctl'.out /\ ~ctl'.run
       /\ ctl'.closed /\ health'.state = "READY"]_vars

\* An anomaly is over only after RecoveryStreak calm blocks in a row, unless a
\* new baseline is begun (guardian_health_score).
RecoveryIsPersistent ==
  [][health.state \in {"WARNING", "ALARM"} /\ health'.state = "READY" =>
       calm' = RecoveryStreak]_vars

\* What the device remembers of a danger it gives up only on the grounds it
\* must: no start without a local request, no fault forgotten while its cause
\* lasts, no recovery after a short calm.
LatchesHold == OnlyLocalStart /\ FaultsStayLatched /\ RecoveryIsPersistent

\* A scored model was learned from as many blocks as were asked for, all of one
\* sample rate (guardian_health_learn).
BaselineComplete ==
  health.state \in Scoring =>
    health.samples = health.target /\ health.target >= MinSamples /\ health.rate # 0

\* However the adapter failed, a held fault gets the output off in the end: each
\* block tries the safe-off again (guardian_control_evaluate, latched branch).
SafeOffInTheEnd ==
  (ctl.latched # {} /\ ctl.out) ~> ~ctl.out

----------------------------------------------------------------------------
(* Statements of the documentation that the code does not meet.            *)

\* "ARMED/DISABLED -> IDLE": leaving supervision publishes IDLE.
DisabledPublishesIdle ==
  [][ctl.state # "DISABLED" /\ ctl'.state = "DISABLED" => link' = "IDLE"]_vars

\* "Alarm qualification: weighted deviation >= 6.0, 2 persistent severe blocks".
AlarmNeedsSevereBlocks ==
  [][health.state # "ALARM" /\ health'.state = "ALARM" =>
       prev = "severe" /\ prev' = "severe"]_vars

=============================================================================
