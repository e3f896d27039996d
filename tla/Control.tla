------------------------------ MODULE Control -------------------------------
(***************************************************************************)
(* guardian_control.c: the supervisory state machine and its fault latch.  *)
(*                                                                         *)
(* A control record is guardian_control_t without its diagnostic counters, *)
(* together with "out", what the output callback last put on the board.    *)
(* The callback may fail; whether the board followed a failed call is not  *)
(* known to the code.  An operator that calls it takes the outcomes of the *)
(* first and of the second call that one operation can make.               *)
(***************************************************************************)
EXTENDS Health

\* Outcomes of one call: ok is what it returned, taken whether the board followed.
Outcomes == {[ok |-> TRUE, taken |-> TRUE], [ok |-> FALSE, taken |-> TRUE],
             [ok |-> FALSE, taken |-> FALSE]}

\* Faults that can be latched; OUTPUT_UNAVAILABLE is only ever a live one.
Faults == {"HEALTH_NOT_READY", "HEALTH_ALARM", "INTERLOCK_OPEN", "OUTPUT_FAILURE"}

ControlStates == {"DISABLED", "ARMED", "ACTIVE", "DEGRADED", "FAULT_LATCHED"}

\* Actions of CONTROL_COMMAND.
Actions == {"ARM", "DISARM", "CLEAR_FAULT"}

Control == [state : ControlStates, health : HealthStates, latched : SUBSET Faults,
            supervised : BOOLEAN,   \* supervision_enabled
            run : BOOLEAN,          \* local_run_request
            closed : BOOLEAN,       \* interlock_closed
            available : BOOLEAN,    \* output_available: a callback is configured
            permit : BOOLEAN,       \* run_permit
            out : BOOLEAN]

\* Live faults, from the inputs as they are now.
active_faults(c) ==
  (IF c.health \in {"UNTRAINED", "LEARNING"} THEN {"HEALTH_NOT_READY"} ELSE {})
    \cup (IF c.health = "ALARM" THEN {"HEALTH_ALARM"} ELSE {})
    \cup (IF ~c.closed THEN {"INTERLOCK_OPEN"} ELSE {})
    \cup (c.latched \cap {"OUTPUT_FAILURE"})

\* One call of the output callback.
applied(c, permit, o) == [c EXCEPT !.out = IF o.taken THEN permit ELSE @]

latch_fault(c, faults, o) ==
  [c EXCEPT !.latched = @ \cup faults \cup (IF c.available /\ ~o.ok THEN {"OUTPUT_FAILURE"} ELSE {}),
            !.supervised = FALSE, !.permit = FALSE, !.state = "FAULT_LATCHED",
            !.out = IF c.available /\ o.taken THEN FALSE ELSE @]

apply_output(c, permit, o1, o2) ==
  IF ~c.available THEN c
  ELSE IF ~o1.ok THEN latch_fault(applied(c, permit, o1), {"OUTPUT_FAILURE"}, o2)
  ELSE [applied(c, permit, o1) EXCEPT !.permit = permit]

\* Mutant: the safe-off is not tried again while a fault is held.
evaluate_latched_once(c, o1, o2) == [c EXCEPT !.supervised = FALSE, !.state = "FAULT_LATCHED"]

evaluate_latched(c, o1, o2) ==
  [apply_output(c, FALSE, o1, o2) EXCEPT !.supervised = FALSE, !.state = "FAULT_LATCHED"]

evaluate_disabled(c, o1, o2) ==
  IF c.available /\ ~o1.ok THEN latch_fault(applied(c, FALSE, o1), {"OUTPUT_FAILURE"}, o2)
  ELSE [c EXCEPT !.permit = FALSE, !.state = "DISABLED",
                 !.out = IF c.available THEN FALSE ELSE @]

\* The first live fault, in the code's order, that ends supervision.
tripping(c) ==
  IF "INTERLOCK_OPEN" \in active_faults(c) THEN {"INTERLOCK_OPEN"}
  ELSE IF "HEALTH_NOT_READY" \in active_faults(c) THEN {"HEALTH_NOT_READY"}
  ELSE IF "HEALTH_ALARM" \in active_faults(c) THEN {"HEALTH_ALARM"}
  ELSE {}

evaluate_supervised(c, o1, o2) ==
  IF tripping(c) # {} THEN latch_fault(c, tripping(c), o1)
  ELSE IF c.available /\ o1.ok
  THEN [apply_output(c, c.run, o1, o2) EXCEPT
          !.state = IF ~c.run THEN "ARMED"
                    ELSE IF c.health = "WARNING" THEN "DEGRADED" ELSE "ACTIVE"]
  ELSE apply_output(c, c.run, o1, o2)

evaluate(c, o1, o2) ==
  IF c.latched # {} THEN evaluate_latched(c, o1, o2)
  ELSE IF ~c.supervised THEN evaluate_disabled(c, o1, o2)
  ELSE evaluate_supervised(c, o1, o2)

control_init ==
  [state |-> "DISABLED", health |-> "UNTRAINED", latched |-> {}, supervised |-> FALSE,
   run |-> FALSE, closed |-> FALSE, available |-> FALSE, permit |-> FALSE, out |-> FALSE]

configure_output(c, o1, o2) ==
  LET d == [c EXCEPT !.available = TRUE]
  IN  IF ~o1.ok THEN latch_fault(applied(d, FALSE, o1), {"OUTPUT_FAILURE"}, o2)
      ELSE [d EXCEPT !.permit = FALSE, !.out = FALSE]

set_local_run_request(c, requested, o1, o2) == evaluate([c EXCEPT !.run = requested], o1, o2)

\* Mutant: the interlock is only noted, for the next evaluation.
set_interlock_deferred(c, closed, o1, o2) == [c EXCEPT !.closed = closed]

set_interlock(c, closed, o1, o2) == evaluate([c EXCEPT !.closed = closed], o1, o2)

update_health(c, state, o1, o2) == evaluate([c EXCEPT !.health = state], o1, o2)

\* What ARM and CLEAR_FAULT both require.
safe_entry(c) == ~c.run /\ c.health = "READY" /\ c.closed /\ c.available

disarm(c, o1, o2) ==
  LET d == [c EXCEPT !.supervised = FALSE]
  IN  IF c.available /\ ~o1.ok THEN latch_fault(applied(d, FALSE, o1), {"OUTPUT_FAILURE"}, o2)
      ELSE [d EXCEPT !.permit = FALSE, !.out = IF c.available THEN FALSE ELSE @,
                     !.state = IF c.latched # {} THEN "FAULT_LATCHED" ELSE "DISABLED"]

\* Mutant: the latch is released before the adapter confirmed the safe-off.
clear_fault_unconfirmed(c, o1, o2) ==
  IF c.supervised \/ ~safe_entry(c) THEN c
  ELSE [applied(c, FALSE, o1) EXCEPT !.latched = {}, !.permit = FALSE, !.state = "DISABLED"]

clear_fault(c, o1, o2) ==
  IF c.supervised \/ ~safe_entry(c) THEN c
  ELSE IF ~o1.ok THEN latch_fault(applied(c, FALSE, o1), {"OUTPUT_FAILURE"}, o2)
  ELSE [c EXCEPT !.latched = {}, !.permit = FALSE, !.out = FALSE, !.state = "DISABLED"]

arm(c, o1, o2) ==
  IF c.latched # {} \/ ~safe_entry(c) THEN c
  ELSE IF ~o1.ok THEN apply_output(c, FALSE, o1, o2)
  ELSE [apply_output(c, FALSE, o1, o2) EXCEPT !.supervised = TRUE, !.state = "ARMED"]

control_action(c, action, o1, o2) ==
  CASE action = "ARM" -> arm(c, o1, o2)
    [] action = "DISARM" -> disarm(c, o1, o2)
    [] action = "CLEAR_FAULT" -> clear_fault(c, o1, o2)

=============================================================================
