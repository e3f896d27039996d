------------------------ MODULE SupervisedNode_proofs ------------------------
(***************************************************************************)
(* The supervised node, for every baseline size, set of sample rates and   *)
(* streak lengths, every set of epochs and nodes, and whatever the medium  *)
(* between the two nodes does.  First the machine: the argument is about   *)
(* one control record, and evaluate brings any record whose inputs have    *)
(* just changed (Settling) back to the invariant of a record at rest       *)
(* (Settled).  Then the heartbeat path: a NodeLink frame as bytes, and     *)
(* what the receiver accepts.  Last the node that does both.               *)
(***************************************************************************)
EXTENDS SupervisedNode, TLAPS

\* A record some input of which may just have been overwritten.
Settling(c) ==
  /\ c \in Control
  /\ c.supervised \/ c.latched # {} \/ c.out => c.available
  /\ c.supervised => c.latched = {}
  /\ c.out => c.supervised \/ "OUTPUT_FAILURE" \in c.latched

\* A record between two operations.
Settled(c) ==
  /\ Settling(c)
  /\ c.latched # {} <=> c.state = "FAULT_LATCHED"
  /\ c.supervised <=> c.state \in {"ARMED", "ACTIVE", "DEGRADED"}
  /\ c.permit <=> c.state \in {"ACTIVE", "DEGRADED"}
  /\ c.permit <=> c.supervised /\ c.run
  /\ c.permit => (c.health = "WARNING" <=> c.state = "DEGRADED")
  /\ c.supervised => c.closed /\ c.health \in {"READY", "WARNING"} /\ (c.permit <=> c.out)

LEMMA OutcomeFacts ==
  ASSUME NEW o \in Outcomes
  PROVE  o.ok \in BOOLEAN /\ o.taken \in BOOLEAN /\ (o.ok => o.taken)
<1>1. CASE o = [ok |-> TRUE, taken |-> TRUE]
  BY <1>1
<1>2. CASE o = [ok |-> FALSE, taken |-> TRUE]
  BY <1>2
<1>3. CASE o = [ok |-> FALSE, taken |-> FALSE]
  BY <1>3
<1>4. QED BY <1>1, <1>2, <1>3 DEF Outcomes

\* The fields of a control record.
LEMMA ControlFields ==
  ASSUME NEW c \in Control
  PROVE  /\ c.state \in ControlStates /\ c.health \in HealthStates /\ c.latched \subseteq Faults
         /\ c.supervised \in BOOLEAN /\ c.run \in BOOLEAN /\ c.closed \in BOOLEAN
         /\ c.available \in BOOLEAN /\ c.permit \in BOOLEAN /\ c.out \in BOOLEAN
BY DEF Control

\* d keeps the inputs of c.
SameInputs(c, d) ==
  d.run = c.run /\ d.closed = c.closed /\ d.health = c.health /\ d.available = c.available

\* d is c with faults latched and, if the adapter obeys, the output off.
LatchedFrom(c, faults, d) ==
  /\ d \in Control /\ SameInputs(c, d)
  /\ d.state = "FAULT_LATCHED" /\ d.supervised = FALSE /\ d.permit = FALSE
  /\ c.latched \cup faults \subseteq d.latched
  /\ d.out => c.out /\ "OUTPUT_FAILURE" \in d.latched

\* guardian_control_latch_fault, field by field.
LEMMA LatchFields ==
  ASSUME NEW c \in Control, NEW o \in Outcomes, NEW faults \in SUBSET Faults,
         c.available
  PROVE  LatchedFrom(c, faults, latch_fault(c, faults, o))
<1> DEFINE failed == IF c.available /\ ~o.ok THEN {"OUTPUT_FAILURE"} ELSE {}
           d == latch_fault(c, faults, o)
<1>1. failed \in SUBSET Faults /\ (c.latched \cup faults \cup failed) \in SUBSET Faults
  BY ControlFields DEF Faults
<1>2. (IF c.available /\ o.taken THEN FALSE ELSE c.out) \in BOOLEAN
  BY ControlFields, OutcomeFacts
<1>3. d = [c EXCEPT !.latched = c.latched \cup faults \cup failed, !.supervised = FALSE,
                    !.permit = FALSE, !.state = "FAULT_LATCHED",
                    !.out = IF c.available /\ o.taken THEN FALSE ELSE c.out]
  BY DEF latch_fault, Control
<1> HIDE DEF failed
<1>4. /\ d.state = "FAULT_LATCHED" /\ d.supervised = FALSE /\ d.permit = FALSE
      /\ d.run = c.run /\ d.closed = c.closed /\ d.health = c.health
      /\ d.available = c.available
      /\ d.latched = c.latched \cup faults \cup failed
      /\ d.out = IF c.available /\ o.taken THEN FALSE ELSE c.out
  BY <1>3 DEF Control
<1>5. d \in Control
  BY <1>1, <1>2, <1>3 DEF Control, ControlStates
<1>6. d.out => c.out /\ "OUTPUT_FAILURE" \in d.latched
  BY <1>4, OutcomeFacts DEF failed
<1>7. QED BY <1>4, <1>5, <1>6 DEF LatchedFrom, SameInputs

\* d is c but for the board's output.
AppliedFrom(c, permit, o, d) ==
  /\ d \in Control /\ SameInputs(c, d)
  /\ d.state = c.state /\ d.supervised = c.supervised /\ d.permit = c.permit
  /\ d.latched = c.latched
  /\ d.out = (IF o.taken THEN permit ELSE c.out)

\* The callback alone, field by field.
LEMMA AppliedFields ==
  ASSUME NEW c \in Control, NEW o \in Outcomes, NEW permit \in BOOLEAN
  PROVE  AppliedFrom(c, permit, o, applied(c, permit, o))
<1>1. (IF o.taken THEN permit ELSE c.out) \in BOOLEAN
  BY ControlFields
<1>2. QED BY <1>1 DEF AppliedFrom, SameInputs, applied, Control

\* d is settled, has the inputs of c and holds at least its faults; the output
\* is on only if it was, or if it was asked for.
SettledFrom(c, permit, d) ==
  /\ Settled(d) /\ SameInputs(c, d) /\ c.latched \subseteq d.latched
  /\ d.out => c.out \/ permit

\* A failed call leaves the record latched and safe.
LEMMA FailedCall ==
  ASSUME NEW c \in Control, NEW o1 \in Outcomes, NEW o2 \in Outcomes, NEW permit \in BOOLEAN,
         c.available
  PROVE  SettledFrom(c, permit, latch_fault(applied(c, permit, o1), {"OUTPUT_FAILURE"}, o2))
<1> DEFINE e == applied(c, permit, o1)
           d == latch_fault(e, {"OUTPUT_FAILURE"}, o2)
<1>0. AppliedFrom(c, permit, o1, e)
  BY AppliedFields
<1> HIDE DEF e
<1>1. e \in Control /\ SameInputs(c, e) /\ e.available /\ e.latched = c.latched
      /\ (e.out => c.out \/ permit)
  BY <1>0 DEF AppliedFrom, SameInputs
<1>2. {"OUTPUT_FAILURE"} \in SUBSET Faults
  BY DEF Faults
<1>3. LatchedFrom(e, {"OUTPUT_FAILURE"}, d)
  BY <1>1, <1>2, LatchFields
<1> HIDE DEF d
<1>4. Settled(d)
  BY <1>1, <1>3 DEF Settled, Settling, LatchedFrom, SameInputs
<1>5. SettledFrom(c, permit, d)
  BY <1>1, <1>3, <1>4 DEF SettledFrom, LatchedFrom, SameInputs
<1>6. QED BY <1>5 DEF d, e

\* evaluate settles every record.
LEMMA EvaluateSettles ==
  ASSUME NEW c, Settling(c), NEW o1 \in Outcomes, NEW o2 \in Outcomes
  PROVE  SettledFrom(c, c.supervised /\ c.run, evaluate(c, o1, o2))
<1> DEFINE d == evaluate(c, o1, o2)
<1> SUFFICES SettledFrom(c, c.supervised /\ c.run, d)
  OBVIOUS
<1>0. c \in Control
  BY DEF Settling
<1>a. FALSE \in BOOLEAN /\ c.run \in BOOLEAN
  BY <1>0, ControlFields
<1>1. CASE c.latched # {}
  <2>1. c.available /\ d = [apply_output(c, FALSE, o1, o2) EXCEPT !.supervised = FALSE,
                                                           !.state = "FAULT_LATCHED"]
    BY <1>1 DEF Settling, evaluate, evaluate_latched
  <2>2. CASE o1.ok
    <3>1. d = [c EXCEPT !.out = FALSE, !.permit = FALSE, !.supervised = FALSE,
                        !.state = "FAULT_LATCHED"]
      BY <2>1, <2>2, <1>0, OutcomeFacts DEF apply_output, applied, Control
    <3>2. d \in Control /\ d.state = "FAULT_LATCHED" /\ d.supervised = FALSE
          /\ d.permit = FALSE /\ d.out = FALSE /\ d.latched = c.latched
          /\ d.run = c.run /\ d.closed = c.closed /\ d.health = c.health
          /\ d.available = c.available
      BY <3>1, <1>0 DEF Control, ControlStates
    <3> HIDE DEF d
    <3>3. QED BY <1>1, <2>1, <3>2 DEF Settled, Settling, SettledFrom, SameInputs
  <2>3. CASE ~o1.ok
    <3> DEFINE e == latch_fault(applied(c, FALSE, o1), {"OUTPUT_FAILURE"}, o2)
    <3>1. d = [e EXCEPT !.supervised = FALSE, !.state = "FAULT_LATCHED"]
      BY <2>1, <2>3 DEF apply_output
    <3>2. SettledFrom(c, FALSE, e) /\ e.state = "FAULT_LATCHED" /\ e.supervised = FALSE
      <4>1. SettledFrom(c, FALSE, e)
        BY <1>0, <1>a, <2>1, FailedCall
      <4>2. e.latched # {}
        BY <4>1, <1>1 DEF SettledFrom
      <4> HIDE DEF e
      <4>3. QED BY <4>1, <4>2, ControlFields DEF SettledFrom, Settled, Settling
    <3> HIDE DEF e
    <3> HIDE DEF d
    <3>3. d = e
      <4>1. e \in Control /\ e.state = "FAULT_LATCHED" /\ e.supervised = FALSE
        BY <3>2 DEF SettledFrom, Settled, Settling
      <4>2. QED BY <4>1, <3>1 DEF Control
    <3>5. QED BY <3>2, <3>3 DEF SettledFrom
  <2>4. QED BY <2>2, <2>3
<1>2. CASE c.latched = {} /\ ~c.supervised
  <2>1. d = evaluate_disabled(c, o1, o2)
    BY <1>2 DEF evaluate
  <2>2. CASE c.available /\ ~o1.ok
    <3>1. d = latch_fault(applied(c, FALSE, o1), {"OUTPUT_FAILURE"}, o2)
      BY <2>1, <2>2 DEF evaluate_disabled
    <3>2. SettledFrom(c, FALSE, d)
      BY <3>1, <2>2, <1>0, <1>a, FailedCall
    <3> HIDE DEF d
    <3>3. QED BY <3>2 DEF SettledFrom
  <2>3. CASE ~(c.available /\ ~o1.ok)
    <3>1. d = [c EXCEPT !.permit = FALSE, !.state = "DISABLED",
                        !.out = IF c.available THEN FALSE ELSE c.out]
      BY <2>1, <2>3, <1>0 DEF evaluate_disabled, Control
    <3>2. d \in Control /\ d.state = "DISABLED" /\ d.supervised = c.supervised
          /\ d.permit = FALSE /\ d.out = (IF c.available THEN FALSE ELSE c.out)
          /\ d.latched = c.latched /\ d.run = c.run /\ d.closed = c.closed
          /\ d.health = c.health /\ d.available = c.available
      BY <3>1, <1>0, ControlFields DEF Control, ControlStates
    <3> HIDE DEF d
    <3>3. QED BY <1>2, <3>2 DEF Settled, Settling, SettledFrom, SameInputs
  <2>4. QED BY <2>2, <2>3
<1>3. CASE c.latched = {} /\ c.supervised
  <2>1. d = evaluate_supervised(c, o1, o2) /\ c.available
    BY <1>3 DEF evaluate, Settling
  <2>2. CASE tripping(c) # {}
    <3>1. d = latch_fault(c, tripping(c), o1)
      BY <2>1, <2>2 DEF evaluate_supervised
    <3>2. tripping(c) \in SUBSET Faults
      BY DEF tripping, Faults
    <3>3. LatchedFrom(c, tripping(c), d)
      BY <3>1, <3>2, <2>1, <1>0, LatchFields
    <3> HIDE DEF d
    <3>4. Settled(d)
      BY <2>1, <2>2, <3>3 DEF Settled, Settling, LatchedFrom, SameInputs
    <3>5. QED BY <3>3, <3>4 DEF SettledFrom, LatchedFrom
  <2>3. CASE tripping(c) = {} /\ ~o1.ok
    <3>1. d = latch_fault(applied(c, c.run, o1), {"OUTPUT_FAILURE"}, o2)
      BY <2>1, <2>3 DEF evaluate_supervised, apply_output
    <3>2. SettledFrom(c, c.run, d)
      BY <3>1, <2>1, <1>0, <1>a, FailedCall
    <3> HIDE DEF d
    <3>3. QED BY <3>2, <1>3 DEF SettledFrom
  <2>4. CASE tripping(c) = {} /\ o1.ok
    <3> DEFINE s == IF ~c.run THEN "ARMED" ELSE IF c.health = "WARNING" THEN "DEGRADED" ELSE "ACTIVE"
    <3>1. d = [c EXCEPT !.out = c.run, !.permit = c.run, !.state = s]
      BY <2>1, <2>4, <1>0, OutcomeFacts
      DEF evaluate_supervised, apply_output, applied, Control
    <3>2. d \in Control /\ d.state = s /\ d.supervised = c.supervised
          /\ d.permit = c.run /\ d.out = c.run /\ d.latched = c.latched
          /\ d.run = c.run /\ d.closed = c.closed
          /\ d.health = c.health /\ d.available = c.available
      BY <3>1, <1>0, <1>a DEF Control, ControlStates
    <3>3. c.closed /\ c.health \in {"READY", "WARNING"}
      BY <2>4, <1>0, ControlFields DEF tripping, active_faults, HealthStates
    <3> HIDE DEF d
    <3>4. QED BY <1>3, <2>1, <3>2, <3>3, <1>a DEF Settled, Settling, SettledFrom, SameInputs
  <2>5. QED BY <2>2, <2>3, <2>4
<1>4. QED BY <1>1, <1>2, <1>3, <1>0, ControlFields

\* What a host command may do to a record at rest.
CommandedFrom(c, d) ==
  /\ Settled(d) /\ SameInputs(c, d)
  /\ d.out => c.out
  /\ \/ c.latched \subseteq d.latched
     \/ d.latched = {} /\ d.state = "DISABLED" /\ ~d.out /\ safe_entry(c)

\* guardian_control_action keeps a record settled and never starts the machine.
LEMMA ActionSettles ==
  ASSUME NEW c, Settled(c), NEW o1 \in Outcomes, NEW o2 \in Outcomes, NEW action \in Actions
  PROVE  CommandedFrom(c, control_action(c, action, o1, o2))
<1> DEFINE d == control_action(c, action, o1, o2)
<1> SUFFICES CommandedFrom(c, d)
  OBVIOUS
<1>0. c \in Control /\ c.run \in BOOLEAN /\ c.supervised \in BOOLEAN
  BY ControlFields DEF Settled, Settling
<1>a. CommandedFrom(c, c)
  BY DEF CommandedFrom, SameInputs
<1>b. ASSUME c.available, NEW e \in Control, SameInputs(c, e), e.out = c.out,
             e.latched = c.latched
      PROVE  CommandedFrom(c, latch_fault(applied(e, FALSE, o1), {"OUTPUT_FAILURE"}, o2))
  <2> DEFINE f == latch_fault(applied(e, FALSE, o1), {"OUTPUT_FAILURE"}, o2)
  <2>1. SettledFrom(e, FALSE, f)
    BY <1>b, FailedCall DEF SameInputs
  <2> HIDE DEF f
  <2>2. CommandedFrom(c, f)
    BY <1>b, <2>1 DEF CommandedFrom, SettledFrom, SameInputs
  <2>3. QED BY <2>2 DEF f
<1>1. CASE action = "ARM"
  <2>1. d = arm(c, o1, o2)
    BY <1>1 DEF control_action
  <2>2. CASE c.latched # {} \/ ~safe_entry(c)
    BY <1>a, <2>1, <2>2 DEF arm
  <2>3. CASE c.latched = {} /\ safe_entry(c) /\ ~o1.ok
    <3>1. c.available /\ d = latch_fault(applied(c, FALSE, o1), {"OUTPUT_FAILURE"}, o2)
      BY <2>1, <2>3 DEF arm, apply_output, safe_entry
    <3>2. SameInputs(c, c)
      BY DEF SameInputs
    <3>3. QED BY <1>0, <1>b, <3>1, <3>2
  <2>4. CASE c.latched = {} /\ safe_entry(c) /\ o1.ok
    <3>1. d = [c EXCEPT !.out = FALSE, !.permit = FALSE, !.supervised = TRUE, !.state = "ARMED"]
      BY <2>1, <2>4, <1>0, OutcomeFacts DEF arm, apply_output, applied, safe_entry, Control
    <3>2. d \in Control /\ d.out = FALSE /\ d.permit = FALSE /\ d.supervised = TRUE
          /\ d.state = "ARMED" /\ d.latched = c.latched /\ SameInputs(c, d)
      BY <3>1, <1>0 DEF Control, ControlStates, SameInputs
    <3> HIDE DEF d
    <3>3. Settled(d)
      BY <3>2, <2>4, <1>0 DEF Settled, Settling, SameInputs, safe_entry
    <3>4. QED BY <3>2, <3>3 DEF CommandedFrom
  <2>5. QED BY <2>2, <2>3, <2>4
<1>2. CASE action = "DISARM"
  <2> DEFINE e == [c EXCEPT !.supervised = FALSE]
  <2>1. d = disarm(c, o1, o2)
    BY <1>2 DEF control_action
  <2>2. e \in Control /\ SameInputs(c, e) /\ e.out = c.out /\ e.latched = c.latched
    BY <1>0 DEF Control, SameInputs
  <2>3. CASE c.available /\ ~o1.ok
    <3>1. d = latch_fault(applied(e, FALSE, o1), {"OUTPUT_FAILURE"}, o2)
      BY <2>1, <2>3 DEF disarm
    <3>2. QED BY <1>b, <2>2, <2>3, <3>1
  <2>4. CASE ~(c.available /\ ~o1.ok)
    <3> DEFINE s == IF c.latched # {} THEN "FAULT_LATCHED" ELSE "DISABLED"
               out == IF c.available THEN FALSE ELSE c.out
    <3>1. d = [c EXCEPT !.supervised = FALSE, !.permit = FALSE, !.out = out, !.state = s]
      BY <2>1, <2>4, <1>0 DEF disarm, Control
    <3>2. out \in BOOLEAN /\ s \in ControlStates
      BY <1>0, ControlFields DEF ControlStates
    <3> HIDE DEF s, out
    <3>3. d \in Control /\ d.out = out /\ d.permit = FALSE /\ d.supervised = FALSE
          /\ d.state = s /\ d.latched = c.latched /\ SameInputs(c, d)
      BY <3>1, <3>2, <1>0 DEF Control, SameInputs
    <3> HIDE DEF d
    <3>4. Settled(d)
      BY <3>3 DEF Settled, Settling, SameInputs, s, out
    <3>5. QED BY <3>3, <3>4 DEF CommandedFrom, out
  <2>5. QED BY <2>3, <2>4
<1>3. CASE action = "CLEAR_FAULT"
  <2>1. d = clear_fault(c, o1, o2)
    BY <1>3 DEF control_action
  <2>2. CASE c.supervised \/ ~safe_entry(c)
    BY <1>a, <2>1, <2>2 DEF clear_fault
  <2>3. CASE ~c.supervised /\ safe_entry(c) /\ ~o1.ok
    <3>1. c.available /\ d = latch_fault(applied(c, FALSE, o1), {"OUTPUT_FAILURE"}, o2)
      BY <2>1, <2>3 DEF clear_fault, safe_entry
    <3>2. SameInputs(c, c)
      BY DEF SameInputs
    <3>3. QED BY <1>0, <1>b, <3>1, <3>2
  <2>4. CASE ~c.supervised /\ safe_entry(c) /\ o1.ok
    <3>1. d = [c EXCEPT !.latched = {}, !.permit = FALSE, !.out = FALSE, !.state = "DISABLED"]
      BY <2>1, <2>4 DEF clear_fault
    <3>2. d \in Control /\ d.out = FALSE /\ d.permit = FALSE /\ d.supervised = c.supervised
          /\ d.state = "DISABLED" /\ d.latched = {} /\ SameInputs(c, d)
      BY <3>1, <1>0 DEF Control, ControlStates, SameInputs
    <3> HIDE DEF d
    <3>3. Settled(d)
      BY <3>2, <2>4, <1>0 DEF Settled, Settling, SameInputs, safe_entry
    <3>4. QED BY <3>2, <3>3, <2>4 DEF CommandedFrom
  <2>5. QED BY <2>2, <2>3, <2>4
<1>4. QED BY <1>1, <1>2, <1>3 DEF Actions

\* Overwriting one input of a record at rest makes it one that may settle.
LEMMA InputsSettle ==
  ASSUME NEW c, Settled(c), NEW b \in BOOLEAN, NEW h \in HealthStates
  PROVE  /\ Settling([c EXCEPT !.run = b])
         /\ Settling([c EXCEPT !.closed = b])
         /\ Settling([c EXCEPT !.health = h])
<1>1. c \in Control
  BY DEF Settled, Settling
<1>2. [c EXCEPT !.run = b] \in Control /\ [c EXCEPT !.closed = b] \in Control
      /\ [c EXCEPT !.health = h] \in Control
  BY <1>1 DEF Control
<1>3. QED BY <1>1, <1>2 DEF Settled, Settling, Control

----------------------------------------------------------------------------
(* The health model.                                                       *)

\* A baseline in progress is incomplete, a scored one complete and of one rate.
HealthInv(h) ==
  /\ h \in HealthModel
  /\ h.state = "LEARNING" => /\ h.samples < h.target /\ h.target >= MinSamples
                             /\ h.samples > 0 => h.rate # 0
  /\ h.state \in Scoring => h.samples = h.target /\ h.target >= MinSamples /\ h.rate # 0

USE HealthAssumption

\* A reset model, and one whose baseline has just been started.
LEMMA ResetModel ==
  /\ HealthInv(health_reset)
  /\ \A n \in MinSamples .. MaxSamples : HealthInv(start_baseline(n))
  /\ \A n \in MinSamples .. MaxSamples : start_baseline(n).recovery = 0
<1>1. health_reset \in HealthModel /\ health_reset.state = "UNTRAINED"
  BY DEF health_reset, HealthModel, HealthStates
<1>2. HealthInv(health_reset)
  BY <1>1 DEF HealthInv, Scoring
<1>3. ASSUME NEW n \in MinSamples .. MaxSamples
      PROVE  HealthInv(start_baseline(n)) /\ start_baseline(n).recovery = 0
  <2>1. health_reset.samples = 0 /\ health_reset.recovery = 0
    BY DEF health_reset
  <2>a. n \in 0 .. MaxSamples /\ "LEARNING" \in HealthStates
    BY DEF HealthStates
  <2>2. start_baseline(n) \in HealthModel
    BY <1>1, <2>a DEF start_baseline, HealthModel
  <2>3. start_baseline(n).state = "LEARNING" /\ start_baseline(n).target = n
        /\ start_baseline(n).samples = 0 /\ start_baseline(n).recovery = 0
    BY <1>1, <2>1 DEF start_baseline, HealthModel
  <2>4. QED BY <2>2, <2>3 DEF HealthInv, Scoring
<1>4. QED BY <1>2, <1>3

\* guardian_health_learn
LEMMA LearnModel ==
  ASSUME NEW h, HealthInv(h), NEW f \in Features, f.rate # 0, h.state = "LEARNING"
  PROVE  HealthInv(learn(h, f)) /\ learn(h, f).recovery = h.recovery
         /\ learn(h, f).state \in {"LEARNING", "READY"}
<1> DEFINE g == learn(h, f)
<1>1. h \in HealthModel /\ h.samples \in Nat /\ h.target \in Nat /\ h.samples + 1 <= h.target
      /\ h.target <= MaxSamples /\ f.rate \in SampleRates \cup {0} /\ h.rate \in SampleRates \cup {0}
  BY DEF HealthInv, HealthModel, Features
<1>2. /\ g.samples = h.samples + 1 /\ g.target = h.target /\ g.recovery = h.recovery
      /\ g.rate = (IF h.samples = 0 THEN f.rate ELSE h.rate)
      /\ g.state = (IF h.samples + 1 >= h.target THEN "READY" ELSE "LEARNING")
  BY <1>1 DEF learn, HealthModel
<1>3. g \in HealthModel
  <2>1. (IF h.samples = 0 THEN f.rate ELSE h.rate) \in SampleRates \cup {0}
        /\ (IF h.samples + 1 >= h.target THEN "READY" ELSE h.state) \in HealthStates
        /\ h.samples + 1 \in 0 .. MaxSamples
    BY <1>1 DEF HealthStates
  <2>2. QED BY <1>1, <2>1 DEF learn, HealthModel
<1> HIDE DEF g
<1>4. HealthInv(g) /\ g.state \in {"LEARNING", "READY"}
  BY <1>1, <1>2, <1>3 DEF HealthInv, Scoring
<1>5. QED BY <1>2, <1>4 DEF g

\* guardian_health_score; only a full recovery streak ends an anomaly.
LEMMA ScoreModel ==
  ASSUME NEW h, HealthInv(h), NEW f \in Features, h.state \in Scoring
  PROVE  LET g == score(h, f)
         IN  /\ HealthInv(g)
             /\ g.recovery = (IF f.band = "calm" THEN saturated(h.recovery) ELSE 0)
             /\ h.state \in {"WARNING", "ALARM"} /\ g.state = "READY" =>
                  f.band = "calm" /\ g.recovery >= RecoveryStreak
<1> DEFINE a == IF f.band \in {"mild", "severe"} THEN saturated(h.anomalous) ELSE 0
           r == IF f.band = "calm" THEN saturated(h.recovery) ELSE 0
           s == scored_state(h.state, f.band, a, r)
           g == score(h, f)
<1>1. h \in HealthModel /\ a \in 0 .. StreakCap /\ r \in 0 .. StreakCap
  BY DEF HealthInv, HealthModel, saturated
<1>2. s \in Scoring /\ (h.state \in {"WARNING", "ALARM"} /\ s = "READY" =>
                            f.band = "calm" /\ r >= RecoveryStreak)
  BY DEF scored_state, Scoring
<1> HIDE DEF a, s
<1>3. g = [h EXCEPT !.state = s, !.anomalous = a, !.recovery = r]
  BY <1>1 DEF score, a, s, HealthModel
<1>4. g \in HealthModel /\ g.state = s /\ g.recovery = r /\ g.samples = h.samples
      /\ g.target = h.target /\ g.rate = h.rate
  BY <1>1, <1>2, <1>3 DEF HealthModel, Scoring, HealthStates
<1> HIDE DEF g
<1>5. HealthInv(g)
  BY <1>2, <1>4 DEF HealthInv, Scoring
<1>6. QED BY <1>2, <1>4, <1>5 DEF g

----------------------------------------------------------------------------
(* The whole device.                                                       *)

\* The calm blocks counted are the recovery streak, up to the length that counts.
CalmInv ==
  calm = IF health.recovery < RecoveryStreak THEN health.recovery ELSE RecoveryStreak

IInv ==
  /\ TypeOK
  /\ HealthInv(health)
  /\ CalmInv
  /\ Settled(ctl)
  /\ HealthNotStale
  /\ DeviceStateOwned

\* The initial state satisfies the invariant.
LEMMA InitInv == Init => IInv
<1> SUFFICES ASSUME Init PROVE IInv
  OBVIOUS
<1>1. HealthInv(health) /\ health.recovery = 0 /\ health.state = "UNTRAINED"
  BY ResetModel DEF Init, health_reset
<1>2. Settled(ctl) /\ ctl.health = "UNTRAINED" /\ ~ctl.supervised /\ ctl.state = "DISABLED"
  BY DEF Init, control_init, Settled, Settling, Control, ControlStates, HealthStates, Faults
<1>3. QED BY <1>1, <1>2 DEF Init, IInv, TypeOK, CalmInv, HealthNotStale, DeviceStateOwned,
       HealthInv, Settled, Settling, owns, DeviceStates

\* After every change of control the device state is control's, if it owns it.
LEMMA ControlledOwns ==
  ASSUME NEW c, Controlled(c), link \in DeviceStates
  PROVE  ctl' = c /\ DeviceStateOwned' /\ link' \in DeviceStates
<1>1. control_device_state(c.state) \in DeviceStates
  BY DEF control_device_state, DeviceStates
<1>2. QED BY <1>1 DEF Controlled, sync_control_state, DeviceStateOwned

\* What a step may do to the control record.
ControlStep ==
  /\ Settled(ctl')
  /\ ctl'.health = health'.state
  /\ ~ctl.out /\ ctl'.out => ~ctl.run /\ ctl'.run /\ ctl.state = "ARMED"
  /\ \/ ctl.latched \subseteq ctl'.latched
     \/ /\ ctl'.latched = {} /\ ctl'.state = "DISABLED" /\ ~ctl'.out /\ ~ctl'.run
        /\ ctl'.closed /\ health'.state = "READY"

\* What a step may do to the health model.
HealthStep ==
  /\ HealthInv(health') /\ CalmInv'
  /\ prev' \in Bands \cup {None} /\ calm' \in 0 .. RecoveryStreak
  /\ health.state \in {"WARNING", "ALARM"} /\ health'.state = "READY" => calm' = RecoveryStreak

\* Control told of the health state it has now.
LEMMA TellHealth ==
  ASSUME IInv, NEW o1 \in Outcomes, NEW o2 \in Outcomes, HealthInv(health'),
         update_control_health(health', o1, o2)
  PROVE  ControlStep /\ DeviceStateOwned' /\ link' \in DeviceStates
<1> DEFINE c == [ctl EXCEPT !.health = health'.state]
           d == evaluate(c, o1, o2)
<1>1. health'.state \in HealthStates
  BY DEF HealthInv, HealthModel
<1>2. ctl \in Control /\ Settled(ctl)
  BY DEF IInv, Settled, Settling
<1>3. Settling(c) /\ c.health = health'.state /\ c.run = ctl.run /\ c.closed = ctl.closed
      /\ c.out = ctl.out /\ c.supervised = ctl.supervised /\ c.latched = ctl.latched
  BY <1>1, <1>2, InputsSettle DEF Control
<1> HIDE DEF c
<1>4. SettledFrom(c, c.supervised /\ c.run, d)
  BY <1>3, EvaluateSettles
<1>5. Controlled(d)
  BY DEF update_control_health, update_health, c
<1>6. ctl' = d /\ DeviceStateOwned' /\ link' \in DeviceStates
  BY <1>5, ControlledOwns DEF IInv, TypeOK
<1> HIDE DEF d
<1>7. ControlStep
  BY <1>2, <1>3, <1>4, <1>6 DEF ControlStep, SettledFrom, SameInputs, Settled
<1>8. QED BY <1>6, <1>7

\* Every step keeps the invariant and is a step of both components.
LEMMA NextStep ==
  ASSUME IInv, Next
  PROVE  ControlStep /\ HealthStep /\ DeviceStateOwned' /\ link' \in DeviceStates
<1>0. /\ ctl \in Control /\ Settled(ctl) /\ ctl.health = health.state /\ HealthInv(health)
      /\ health.recovery \in 0 .. StreakCap /\ link \in DeviceStates
      /\ prev \in Bands \cup {None} /\ calm \in 0 .. RecoveryStreak
  BY DEF IInv, TypeOK, HealthNotStale, HealthInv, HealthModel
<1>h. ASSUME UNCHANGED <<health, prev, calm>> PROVE HealthStep
  BY <1>h, <1>0 DEF HealthStep, IInv, CalmInv
<1>1. ASSUME NEW o1 \in Outcomes, NEW o2 \in Outcomes, ConfigureOutput(o1, o2)
      PROVE  ControlStep /\ HealthStep /\ DeviceStateOwned' /\ link' \in DeviceStates
  <2> DEFINE c == [ctl EXCEPT !.available = TRUE]
             d == configure_output(ctl, o1, o2)
  <2>1. c \in Control /\ c.available = TRUE /\ c.latched = ctl.latched /\ c.out = ctl.out
        /\ c.run = ctl.run /\ c.closed = ctl.closed /\ c.health = ctl.health
        /\ c.state = ctl.state /\ c.supervised = ctl.supervised /\ c.permit = ctl.permit
    BY <1>0 DEF Control
  <2>2. ~ctl.available /\ ~ctl.out /\ ~ctl.supervised /\ ctl.latched = {}
    BY <1>0, <1>1 DEF ConfigureOutput, Settled, Settling
  <2>3. Settled(d) /\ ~d.out /\ d.health = ctl.health /\ ctl.latched \subseteq d.latched
    <3>1. CASE o1.ok
      <4>1. d = [c EXCEPT !.out = FALSE, !.permit = FALSE]
        BY <3>1, <2>1, OutcomeFacts DEF configure_output, applied, Control
      <4>2. d \in Control /\ d.out = FALSE /\ d.permit = FALSE /\ d.latched = c.latched
            /\ d.run = c.run /\ d.closed = c.closed /\ d.health = c.health
            /\ d.state = c.state /\ d.supervised = c.supervised /\ d.available = c.available
        BY <4>1, <2>1 DEF Control
      <4> HIDE DEF c, d
      <4>3. QED BY <4>2, <2>1, <2>2, <1>0 DEF Settled, Settling
    <3>2. CASE ~o1.ok
      <4>1. d = latch_fault(applied(c, FALSE, o1), {"OUTPUT_FAILURE"}, o2)
        BY <3>2 DEF configure_output
      <4> HIDE DEF c
      <4>2. SettledFrom(c, FALSE, d)
        BY <4>1, <2>1, FailedCall
      <4> HIDE DEF d
      <4>3. QED BY <4>2, <2>1, <2>2 DEF SettledFrom, SameInputs
    <3>3. QED BY <3>1, <3>2
  <2>4. ctl' = d /\ DeviceStateOwned' /\ link' \in DeviceStates
    BY <1>0, <1>1, ControlledOwns DEF ConfigureOutput
  <2> HIDE DEF d
  <2>5. ControlStep
    BY <1>0, <1>1, <2>3, <2>4 DEF ControlStep, ConfigureOutput
  <2>6. QED BY <1>1, <1>h, <2>4, <2>5 DEF ConfigureOutput
<1>2. ASSUME NEW o1 \in Outcomes, NEW o2 \in Outcomes, NEW f \in Features, UpdateDsp(f, o1, o2)
      PROVE  ControlStep /\ HealthStep /\ DeviceStateOwned' /\ link' \in DeviceStates
  <2>1. HealthStep
    <3>1. CASE rejected(health, f) \/ health.state = "UNTRAINED"
      <4>1. UNCHANGED <<health, prev, calm>>
        BY <1>2, <3>1 DEF UpdateDsp, ingest, Scoring
      <4>2. QED BY <1>h, <4>1
    <3>2. CASE ~rejected(health, f) /\ health.state = "LEARNING"
      <4>1. health' = learn(health, f) /\ UNCHANGED <<prev, calm>> /\ f.rate # 0
        BY <1>2, <3>2 DEF UpdateDsp, ingest, Scoring, rejected
      <4>2. HealthInv(health') /\ health'.recovery = health.recovery
        BY <4>1, <3>2, <1>0, LearnModel
      <4>3. QED BY <4>1, <4>2, <3>2, <1>0 DEF HealthStep, IInv, CalmInv
    <3>3. CASE ~rejected(health, f) /\ health.state \in Scoring
      <4>1. health' = score(health, f) /\ prev' = f.band
            /\ calm' = IF f.band # "calm" THEN 0
                       ELSE IF calm < RecoveryStreak THEN calm + 1 ELSE calm
        BY <1>2, <3>3 DEF UpdateDsp, ingest, Scoring
      <4>2. /\ HealthInv(health')
            /\ health'.recovery = (IF f.band = "calm" THEN saturated(health.recovery) ELSE 0)
            /\ health.state \in {"WARNING", "ALARM"} /\ health'.state = "READY" =>
                  f.band = "calm" /\ health'.recovery >= RecoveryStreak
        BY <4>1, <3>3, <1>0, ScoreModel
      <4>3. CalmInv' /\ calm' \in 0 .. RecoveryStreak
        BY <4>1, <4>2, <1>0 DEF IInv, CalmInv, saturated
      <4>4. f.band \in Bands /\ health'.recovery \in Nat
        BY <4>2 DEF Features, HealthInv, HealthModel
      <4>5. QED BY <4>1, <4>2, <4>3, <4>4 DEF HealthStep, CalmInv
    <3>4. QED BY <3>1, <3>2, <3>3, <1>0 DEF HealthInv, HealthModel, HealthStates, Scoring
  <2>2. QED BY <1>2, <2>1, TellHealth DEF UpdateDsp, HealthStep
<1>3. ASSUME NEW o1 \in Outcomes, NEW o2 \in Outcomes, NEW n \in 0 .. MaxSamples + 1,
             BaselineStart(n, o1, o2)
      PROVE  ControlStep /\ HealthStep /\ DeviceStateOwned' /\ link' \in DeviceStates
  <2>1. HealthInv(health') /\ health'.recovery = 0 /\ health'.state = "LEARNING"
    <3>1. start_baseline(n).state = "LEARNING"
      BY DEF start_baseline, health_reset
    <3>2. QED BY <1>3, <3>1, ResetModel DEF BaselineStart, baseline_accepts
  <2>2. HealthStep
    BY <2>1, <1>3 DEF BaselineStart, HealthStep, CalmInv
  <2>3. QED BY <1>3, <2>1, <2>2, TellHealth DEF BaselineStart
<1>4. ASSUME NEW o1 \in Outcomes, NEW o2 \in Outcomes, BaselineReset(o1, o2)
      PROVE  ControlStep /\ HealthStep /\ DeviceStateOwned' /\ link' \in DeviceStates
  <2>1. HealthInv(health') /\ health'.recovery = 0 /\ health'.state = "UNTRAINED"
    BY <1>4, ResetModel DEF BaselineReset, health_reset
  <2>2. HealthStep
    BY <2>1, <1>4 DEF BaselineReset, HealthStep, CalmInv
  <2>3. QED BY <1>4, <2>1, <2>2, TellHealth DEF BaselineReset
<1>5. ASSUME NEW o1 \in Outcomes, NEW o2 \in Outcomes, NEW action \in Actions,
             ControlCommand(action, o1, o2)
      PROVE  ControlStep /\ HealthStep /\ DeviceStateOwned' /\ link' \in DeviceStates
  <2> DEFINE d == control_action(ctl, action, o1, o2)
  <2>1. CommandedFrom(ctl, d)
    BY <1>0, ActionSettles
  <2>2. ctl' = d /\ DeviceStateOwned' /\ link' \in DeviceStates
    BY <1>0, <1>5, ControlledOwns DEF ControlCommand
  <2> HIDE DEF d
  <2>3. ControlStep
    BY <1>0, <1>5, <2>1, <2>2
    DEF ControlStep, ControlCommand, CommandedFrom, SameInputs, safe_entry
  <2>4. QED BY <1>5, <1>h, <2>2, <2>3 DEF ControlCommand
<1>6. ASSUME NEW o1 \in Outcomes, NEW o2 \in Outcomes, NEW b \in BOOLEAN,
             SetLocalRunRequest(b, o1, o2)
      PROVE  ControlStep /\ HealthStep /\ DeviceStateOwned' /\ link' \in DeviceStates
  <2> DEFINE c == [ctl EXCEPT !.run = b]
             d == evaluate(c, o1, o2)
  <2>1. Settling(c) /\ c.run = b /\ c.closed = ctl.closed /\ c.health = ctl.health
        /\ c.out = ctl.out /\ c.supervised = ctl.supervised /\ c.latched = ctl.latched
    BY <1>0, InputsSettle DEF Control, IInv, TypeOK
  <2>2. ctl' = d /\ DeviceStateOwned' /\ link' \in DeviceStates
    BY <1>0, <1>6, ControlledOwns DEF SetLocalRunRequest, set_local_run_request
  <2> HIDE DEF c
  <2>3. SettledFrom(c, c.supervised /\ c.run, d)
    BY <2>1, EvaluateSettles
  <2> HIDE DEF d
  <2>4. ControlStep
    BY <1>0, <1>6, <2>1, <2>2, <2>3
    DEF ControlStep, SetLocalRunRequest, SettledFrom, SameInputs, Settled
  <2>5. QED BY <1>6, <1>h, <2>2, <2>4 DEF SetLocalRunRequest
<1>7. ASSUME NEW o1 \in Outcomes, NEW o2 \in Outcomes, NEW b \in BOOLEAN,
             SetInterlock(b, o1, o2)
      PROVE  ControlStep /\ HealthStep /\ DeviceStateOwned' /\ link' \in DeviceStates
  <2> DEFINE c == [ctl EXCEPT !.closed = b]
             d == evaluate(c, o1, o2)
  <2>1. Settling(c) /\ c.run = ctl.run /\ c.closed = b /\ c.health = ctl.health
        /\ c.out = ctl.out /\ c.supervised = ctl.supervised /\ c.latched = ctl.latched
    BY <1>0, InputsSettle DEF Control, IInv, TypeOK
  <2>2. ctl' = d /\ DeviceStateOwned' /\ link' \in DeviceStates
    BY <1>0, <1>7, ControlledOwns DEF SetInterlock, set_interlock
  <2> HIDE DEF c
  <2>3. SettledFrom(c, c.supervised /\ c.run, d)
    BY <2>1, EvaluateSettles
  <2> HIDE DEF d
  <2>4. ControlStep
    BY <1>0, <1>7, <2>1, <2>2, <2>3
    DEF ControlStep, SetInterlock, SettledFrom, SameInputs, Settled
  <2>5. QED BY <1>7, <1>h, <2>2, <2>4 DEF SetInterlock
<1>8. ASSUME NEW state \in DeviceStates, SetState(state)
      PROVE  ControlStep /\ HealthStep /\ DeviceStateOwned' /\ link' \in DeviceStates
  BY <1>0, <1>8, <1>h DEF SetState, ControlStep, DeviceStateOwned
<1>9. ASSUME GetControlStatus
      PROVE  ControlStep /\ HealthStep /\ DeviceStateOwned' /\ link' \in DeviceStates
  <2>1. ControlStep /\ HealthStep
    BY <1>0, <1>9, <1>h DEF GetControlStatus, ControlStep
  <2>2. Controlled(ctl)
    BY <1>9 DEF GetControlStatus, Controlled
  <2>3. QED BY <1>0, <2>1, <2>2, ControlledOwns
<1>10. QED BY <1>1, <1>2, <1>3, <1>4, <1>5, <1>6, <1>7, <1>8, <1>9 DEF Next

\* The invariant is inductive.
LEMMA NextInv == IInv /\ [Next]_vars => IInv'
<1>1. ASSUME IInv, Next PROVE IInv'
  BY <1>1, NextStep DEF IInv, TypeOK, HealthNotStale, ControlStep, HealthStep, HealthInv,
     Settled, Settling
<1>2. ASSUME IInv, UNCHANGED vars PROVE IInv'
  BY <1>2 DEF IInv, vars, TypeOK, HealthNotStale, CalmInv, DeviceStateOwned
<1>3. QED BY <1>1, <1>2

\* The inductive invariant of the device: control at rest, told of the health
\* model as it is, and owner of the device state it publishes.
THEOREM DeviceInvariant == Spec => []IInv
BY InitInv, NextInv, PTL DEF Spec

\* Every component keeps its type; the streak counters stay within their width.
THEOREM DeviceTypeCorrect == Spec => []TypeOK
<1>1. IInv => TypeOK
  BY DEF IInv
<1>2. QED BY <1>1, DeviceInvariant, PTL

\* The published control status is consistent at every point between operations.
THEOREM StatusAlwaysConsistent == Spec => []StatusConsistent
<1>1. IInv => StatusConsistent
  BY DEF IInv, StatusConsistent, Settled
<1>2. QED BY <1>1, DeviceInvariant, PTL

LEMMA OutputFromInv == IInv => OutputJustified
BY DEF IInv, OutputJustified, HealthNotStale, Settled, Settling, HealthInv, Scoring

\* The board's output is on only with every condition met, or with the adapter's
\* failure latched.
THEOREM OutputIsJustified == Spec => []OutputJustified
BY OutputFromInv, DeviceInvariant, PTL

\* Control never works with an old health state, and the device state is its own.
THEOREM HealthAndStateInStep == Spec => [](HealthNotStale /\ DeviceStateOwned)
<1>1. IInv => HealthNotStale /\ DeviceStateOwned
  BY DEF IInv
<1>2. QED BY <1>1, DeviceInvariant, PTL

\* No scoring with a partial baseline.
THEOREM BaselinesComplete == Spec => []BaselineComplete
<1>1. IInv => BaselineComplete
  BY DEF IInv, BaselineComplete, HealthInv
<1>2. QED BY <1>1, DeviceInvariant, PTL

\* What one step may do to the output, the faults and the health state.
StartStep == ~ctl.out /\ ctl'.out => ~ctl.run /\ ctl'.run /\ ctl.state = "ARMED"
FaultStep ==
  ~(ctl.latched \subseteq ctl'.latched) =>
    /\ ctl'.latched = {} /\ ctl'.state = "DISABLED" /\ ~ctl'.out /\ ~ctl'.run
    /\ ctl'.closed /\ health'.state = "READY"
RecoveryStep ==
  health.state \in {"WARNING", "ALARM"} /\ health'.state = "READY" => calm' = RecoveryStreak

LEMMA LatchSteps ==
  IInv /\ [Next]_vars => [StartStep]_vars /\ [FaultStep]_vars /\ [RecoveryStep]_vars
<1>1. IInv /\ [Next]_vars => [StartStep]_vars
  BY NextStep DEF ControlStep, StartStep
<1>2. IInv /\ [Next]_vars => [FaultStep]_vars
  BY NextStep DEF ControlStep, FaultStep
<1>3. IInv /\ [Next]_vars => [RecoveryStep]_vars
  BY NextStep DEF HealthStep, RecoveryStep
<1> QED BY <1>1, <1>2, <1>3

\* Nothing but a local run request on an armed device starts the machine.
THEOREM StartsAreLocal == Spec => OnlyLocalStart
BY LatchSteps, DeviceInvariant, PTL DEF Spec, OnlyLocalStart, StartStep

\* A fault stays latched until CLEAR_FAULT finds all causes gone.
THEOREM FaultsLatch == Spec => FaultsStayLatched
BY LatchSteps, DeviceInvariant, PTL DEF Spec, FaultsStayLatched, FaultStep

\* An anomaly ends only after a full streak of calm blocks.
THEOREM RecoveriesPersist == Spec => RecoveryIsPersistent
BY LatchSteps, DeviceInvariant, PTL DEF Spec, RecoveryIsPersistent, RecoveryStep

\* Starts, faults and recoveries together (guardian_control_action,
\* guardian_control_evaluate, guardian_health_score).
THEOREM LatchesAlwaysHold == Spec => LatchesHold
BY StartsAreLocal, FaultsLatch, RecoveriesPersist, PTL DEF LatchesHold

-----------------------------------------------------------------------------
(* The heartbeat path.                                                     *)

\* A frame the F401 may have sent.
Sendable(f) == f \in Frames /\ f.epoch # 0 /\ f.state \in 0..5

\* A freshness runtime is uninitialised, or active for the one peer.
RuntimeOf(r) ==
  \/ r = freshness_runtime_init
  \/ /\ r \in FreshnessRuntimes /\ r.condition = "ACTIVE" /\ r.identity = PeerIdentity
     /\ r.accepted_epoch # 0 /\ r.accepted_sequence # 0

AdapterInv ==
  /\ adapter \in Adapters
  /\ adapter.state \in SenderStates \cup {NODE_STATE.BOOT}
  /\ adapter.initialized => adapter.node = NodeId /\ adapter.epoch \in Epochs \ {0}

\* What was heard was sent, in order, and nothing that is still fresh for the
\* receiver was heard before.
HeardInv ==
  /\ heartbeats \in Seq(medium)
  /\ \A i, j \in DOMAIN heartbeats :
       i < j /\ heartbeats[i].epoch = heartbeats[j].epoch
         => heartbeats[i].sequence < heartbeats[j].sequence
  /\ rt.condition = "ACTIVE" =>
       \A i \in DOMAIN heartbeats :
         /\ heartbeats[i].epoch = rt.accepted_epoch
         /\ heartbeats[i].sequence <= rt.accepted_sequence

PathInv ==
  /\ AdapterInv
  /\ \A f \in medium : Sendable(f)
  /\ RuntimeOf(rt)
  /\ sup \in Supervisors
  /\ HeardInv

LEMMA SequenceOver ==
  ASSUME NEW S, NEW U, S \subseteq U, NEW s \in Seq(S)
  PROVE  s \in Seq(U)
OBVIOUS

LEMMA BytesAreNumbers == ASSUME NEW s \in Seq(0..255) PROVE s \in Seq(Int)
<1>1. 0..255 \subseteq Int
  OBVIOUS
<1> DEFINE B == 0..255
<1>2. B \subseteq Int /\ s \in Seq(B)
  BY <1>1
<1> HIDE DEF B
<1> QED BY <1>2, SequenceOver

\* u is m elements of S, those of s, and then the n of t, position by position.
Joins(u, s, t, m, n, S) ==
  /\ u \in Seq(S) /\ Len(u) = m + n
  /\ \A i \in 1..m : u[i] = s[i]
  /\ \A i \in 1..n : u[m + i] = t[i]

LEMMA Joined ==
  ASSUME NEW S, NEW s \in Seq(S), NEW t \in Seq(S),
         NEW m \in Nat, NEW n \in Nat, Len(s) = m, Len(t) = n
  PROVE  Joins(s \o t, s, t, m, n, S)
BY DEF Joins

\* t is what s has from position m + 1 on.
PartAt(s, t, m, from, to, S) ==
  /\ s \in Seq(S) /\ t \in Seq(S) /\ m \in Nat
  /\ from = m + 1 /\ to = m + Len(t) /\ to <= Len(s)
  /\ \A i \in 1..Len(t) : s[m + i] = t[i]

LEMMA PartOf ==
  ASSUME NEW s, NEW t, NEW m, NEW from, NEW to, NEW S, PartAt(s, t, m, from, to, S)
  PROVE  SubSeq(s, from, to) = t
BY DEF PartAt

\* Four bytes hold a 32-bit number.
LEMMA FourBytes ==
  ASSUME NEW v \in 0..UINT32_MAX
  PROVE  /\ write_u32_be(v) \in Seq(Int) /\ Len(write_u32_be(v)) = 4
         /\ 2^24 * write_u32_be(v)[1] + 2^16 * write_u32_be(v)[2]
            + 256 * write_u32_be(v)[3] + write_u32_be(v)[4] = v
<1>1. 2^24 = 16777216 /\ 2^16 = 65536
  OBVIOUS
<1>2. UINT32_MAX \in Nat /\ v < 65536 * 65536
  <2>1. UINT32_MAX \in Nat /\ UINT32_MAX \div 65536 < 65536
    BY <1>1, UInt32Assumption
  <2>2. QED BY <2>1
<1>3. v \in Nat /\ v < 4294967296
  BY <1>2
<1>4. 16777216 * ((v \div 16777216) % 256) + 65536 * ((v \div 65536) % 256)
      + 256 * ((v \div 256) % 256) + (v % 256) = v
  BY <1>3
<1>5. /\ (v \div 16777216) % 256 \in 0..255 /\ (v \div 65536) % 256 \in 0..255
      /\ (v \div 256) % 256 \in 0..255 /\ v % 256 \in 0..255
  BY <1>3
<1> DEFINE w == write_u32_be(v)
<1>6. /\ w[1] = (v \div 16777216) % 256 /\ w[2] = (v \div 65536) % 256
      /\ w[3] = (v \div 256) % 256 /\ w[4] = v % 256
  BY <1>1 DEF write_u32_be
<1>7. w \in Seq(Int) /\ Len(w) = 4
  BY <1>1, <1>5 DEF write_u32_be
<1> HIDE DEF w
<1>8. 16777216 * w[1] + 65536 * w[2] + 256 * w[3] + w[4] = v
  BY <1>4, <1>6
<1>9. QED BY <1>1, <1>7, <1>8 DEF w

\* The fields of a guardian_node_link_frame_t.
NodeLinkFrames ==
  [type: 0..255, flags: 0..255, state: 0..255, sequence: 0..UINT32_MAX, epoch: 0..UINT32_MAX,
   sender: 0..UINT32_MAX, payload: Seq(0..255)]

\* Every frame that guardian_node_link_encode accepts, whatever its payload, is
\* decoded by guardian_node_link_decode as it was encoded.
THEOREM NodeLinkRoundTrip ==
  ASSUME NEW f \in NodeLinkFrames, node_link_encode_result(f, NL_MAX_FRAME) = "OK"
  PROVE  node_link_decode(node_link_encode(f)) = [result |-> "OK", frame |-> f]
<1> DEFINE h == <<MAGIC_0, NL_MAGIC_1, NL_VERSION, f.type, f.flags, f.state>>
           n == Len(f.payload)
           l == write_u16_be(n)
           q == write_u32_be(f.sequence)
           e == write_u32_be(f.epoch)
           s == write_u32_be(f.sender)
           data == h \o l \o q \o e \o s \o f.payload
           c == crc_bytes(node_link_crc32(data))
           T == Int \cup {c[i] : i \in 1..4}
           b == node_link_encode(f)
<1>1. /\ f.type \in 0..255 /\ f.flags = 0 /\ f.state \in 0..5
      /\ f.sequence \in 0..UINT32_MAX /\ f.sequence # 0 /\ f.epoch \in 0..UINT32_MAX
      /\ f.sender \in 0..UINT32_MAX /\ f.payload \in Seq(0..255) /\ n \in 0..64
      /\ valid_message_type(f.type) /\ valid_state(f.state)
  <2>1. /\ f.type \in 0..255 /\ f.state \in 0..255 /\ f.sequence \in 0..UINT32_MAX
        /\ f.epoch \in 0..UINT32_MAX /\ f.sender \in 0..UINT32_MAX /\ f.payload \in Seq(0..255)
    BY DEF NodeLinkFrames
  <2>2. /\ valid_message_type(f.type) /\ f.flags = NL_SUPPORTED_FLAGS /\ valid_state(f.state)
        /\ f.sequence # 0 /\ ~(n > NL_MAX_PAYLOAD)
    <3> HIDE DEF n
    <3> QED BY DEF node_link_encode_result, n
  <2>3. n \in Nat
    BY <2>1
  <2> HIDE DEF n
  <2>a. f.state \in 0..255
    BY <2>1, Zenon
  <2>4. f.flags = 0 /\ n \in 0..64 /\ f.state \in 0..5
    BY <2>a, <2>2, <2>3 DEF NL_SUPPORTED_FLAGS, NL_MAX_PAYLOAD, valid_state, NODE_STATE
  <2> QED BY <2>1, <2>2, <2>4
<1>2. f = [type |-> f.type, flags |-> f.flags, state |-> f.state, sequence |-> f.sequence,
           epoch |-> f.epoch, sender |-> f.sender, payload |-> f.payload]
  BY DEF NodeLinkFrames
<1>3. /\ h \in Seq(T) /\ Len(h) = 6
      /\ h[1] = 71 /\ h[2] = 78 /\ h[3] = 1 /\ h[4] = f.type /\ h[5] = 0 /\ h[6] = f.state
  <2>1. Int \subseteq T
    OBVIOUS
  <2>2. f.type \in Int /\ f.flags \in Int /\ f.state \in Int /\ f.flags = 0
    <3>1. f.type \in 0..255 /\ f.flags = 0 /\ f.state \in 0..5
      BY <1>1, Zenon
    <3> QED BY <3>1
  <2> HIDE DEF c, T, n
  <2>3. h \in Seq(Int) /\ Len(h) = 6
    BY <2>2 DEF MAGIC_0, NL_MAGIC_1, NL_VERSION
  <2>4. h[1] = 71 /\ h[2] = 78 /\ h[3] = 1 /\ h[4] = f.type /\ h[5] = 0 /\ h[6] = f.state
    BY <2>2 DEF MAGIC_0, NL_MAGIC_1, NL_VERSION
  <2> HIDE DEF h
  <2> QED BY <2>1, <2>3, <2>4
<1>4. l \in Seq(T) /\ Len(l) = 2 /\ l[1] = 0 /\ l[2] = n
  <2>1. n \in 0..64
    BY <1>1
  <2>2. Int \subseteq T
    OBVIOUS
  <2> HIDE DEF c, n, T
  <2>3. (n \div 256) % 256 = 0 /\ n % 256 = n /\ n \in Int
    BY <2>1
  <2>4. l = <<0, n>>
    BY <2>3 DEF write_u16_be
  <2> HIDE DEF l
  <2>5. l \in Seq(Int) /\ Len(l) = 2 /\ l[1] = 0 /\ l[2] = n
    BY <2>3, <2>4
  <2> QED BY <2>2, <2>5
<1>5. /\ q \in Seq(Int) /\ Len(q) = 4
      /\ 2^24 * q[1] + 2^16 * q[2] + 256 * q[3] + q[4] = f.sequence
  BY <1>1, FourBytes, Zenon
<1>6. /\ e \in Seq(Int) /\ Len(e) = 4
      /\ 2^24 * e[1] + 2^16 * e[2] + 256 * e[3] + e[4] = f.epoch
  BY <1>1, FourBytes, Zenon
<1>7. /\ s \in Seq(Int) /\ Len(s) = 4
      /\ 2^24 * s[1] + 2^16 * s[2] + 256 * s[3] + s[4] = f.sender
  BY <1>1, FourBytes, Zenon
<1>8. q \in Seq(T) /\ e \in Seq(T) /\ s \in Seq(T)
  <2>1. Int \subseteq T
    OBVIOUS
  <2> HIDE DEF c, q, e, s, T
  <2> QED BY <1>5, <1>6, <1>7, <2>1
<1>9. c \in Seq(T) /\ Len(c) = 4
  <2>1. Len(c) = 4 /\ c = <<c[1], c[2], c[3], c[4]>>
    BY DEF crc_bytes
  <2>2. c[1] \in T /\ c[2] \in T /\ c[3] \in T /\ c[4] \in T
    OBVIOUS
  <2> HIDE DEF c, T
  <2>3. <<c[1], c[2], c[3], c[4]>> \in Seq(T)
    BY <2>2
  <2> QED BY <2>1, <2>3, Zenon
<1>10. f.payload \in Seq(T) /\ Len(f.payload) = n
  <2>1. Int \subseteq T
    OBVIOUS
  <2> HIDE DEF c, T
  <2>2. f.payload \in Seq(Int)
    <3>1. f.payload \in Seq(0..255)
      BY <1>1, Zenon
    <3> QED BY <3>1, BytesAreNumbers, Zenon
  <2>3. f.payload \in Seq(T)
    BY <2>1, <2>2
  <2> QED BY <2>3
<1>11. b = data \o c
  BY DEF node_link_encode
<1>a. /\ n \in Nat /\ 2 \in Nat /\ 4 \in Nat /\ 6 \in Nat /\ 8 \in Nat /\ 12 \in Nat
      /\ 16 \in Nat /\ 20 \in Nat /\ 20 + n \in Nat
  BY <1>1
<1> HIDE DEF b, T, h, l, q, e, s, c, n
<1> DEFINE d1 == h \o l
           d2 == d1 \o q
           d3 == d2 \o e
           d4 == d3 \o s
           d5 == d4 \o f.payload
<1>12. Joins(d1, h, l, 6, 2, T)
  BY <1>a, <1>3, <1>4, Joined, Zenon
<1> HIDE DEF d1
<1>12a. d1 \in Seq(T) /\ Len(d1) = 8
  BY <1>12 DEF Joins
<1>13. Joins(d2, d1, q, 8, 4, T)
  BY <1>a, <1>12a, <1>5, <1>8, Joined, Zenon
<1> HIDE DEF d2
<1>13a. d2 \in Seq(T) /\ Len(d2) = 12
  BY <1>13 DEF Joins
<1>14. Joins(d3, d2, e, 12, 4, T)
  BY <1>a, <1>13a, <1>6, <1>8, Joined, Zenon
<1> HIDE DEF d3
<1>14a. d3 \in Seq(T) /\ Len(d3) = 16
  BY <1>14 DEF Joins
<1>15. Joins(d4, d3, s, 16, 4, T)
  BY <1>a, <1>14a, <1>7, <1>8, Joined, Zenon
<1> HIDE DEF d4
<1>15a. d4 \in Seq(T) /\ Len(d4) = 20
  BY <1>15 DEF Joins
<1>16. Joins(d5, d4, f.payload, 20, n, T)
  BY <1>a, <1>15a, <1>10, Joined, Zenon
<1> HIDE DEF d5
<1>16a. d5 \in Seq(T) /\ Len(d5) = 20 + n
  BY <1>a, <1>16 DEF Joins
<1>17. data = d5
  BY DEF d5, d4, d3, d2, d1
<1> HIDE DEF data
<1>18. Joins(b, data, c, 20 + n, 4, T)
  BY <1>a, <1>9, <1>11, <1>16a, <1>17, Joined, Zenon
<1> HIDE DEF b
<1>18a. b \in Seq(T) /\ Len(b) = 24 + n
  BY <1>a, <1>18 DEF Joins
<1>b. /\ \A i \in 1..20 : b[i] = d4[i]
      /\ \A i \in 1..16 : b[i] = d3[i]
      /\ \A i \in 1..12 : b[i] = d2[i]
      /\ \A i \in 1..8 : b[i] = d1[i]
  <2>1. \A i \in 1..20 : b[i] = d4[i]
    <3>1. \A i \in 1..20 : d5[i] = d4[i]
      BY <1>16, Zenon DEF Joins
    <3>2. \A i \in 1..(20 + n) : b[i] = d5[i]
      BY <1>17, <1>18, Zenon DEF Joins
    <3>3. \A i \in 1..20 : i \in 1..(20 + n)
      <4>1. n \in Nat
        BY <1>a, Zenon
      <4> QED BY <4>1
    <3> QED BY <3>1, <3>2, <3>3, Zenon
  <2>2. \A i \in 1..16 : b[i] = d3[i]
    <3>1. \A i \in 1..16 : d4[i] = d3[i]
      BY <1>15, Zenon DEF Joins
    <3>2. \A i \in 1..16 : i \in 1..20
      OBVIOUS
    <3> QED BY <2>1, <3>1, <3>2, Zenon
  <2>3. \A i \in 1..12 : b[i] = d2[i]
    <3>1. \A i \in 1..12 : d3[i] = d2[i]
      BY <1>14, Zenon DEF Joins
    <3>2. \A i \in 1..12 : i \in 1..16
      OBVIOUS
    <3> QED BY <2>2, <3>1, <3>2, Zenon
  <2>4. \A i \in 1..8 : b[i] = d1[i]
    <3>1. \A i \in 1..8 : d2[i] = d1[i]
      BY <1>13, Zenon DEF Joins
    <3>2. \A i \in 1..8 : i \in 1..12
      OBVIOUS
    <3> QED BY <2>3, <3>1, <3>2, Zenon
  <2> QED BY <2>1, <2>2, <2>3, <2>4
<1>19. /\ b[1] = 71 /\ b[2] = 78 /\ b[3] = 1 /\ b[4] = f.type /\ b[5] = 0 /\ b[6] = f.state
       /\ b[7] = 0 /\ b[8] = n
  <2>1. d1[7] = l[1] /\ d1[8] = l[2] /\ \A i \in 1..6 : d1[i] = h[i]
    <3>1. d1[6 + 1] = l[1] /\ d1[6 + 2] = l[2] /\ \A i \in 1..6 : d1[i] = h[i]
      BY <1>12 DEF Joins
    <3> QED BY <3>1
  <2>2. /\ b[1] = d1[1] /\ b[2] = d1[2] /\ b[3] = d1[3] /\ b[4] = d1[4]
        /\ b[5] = d1[5] /\ b[6] = d1[6] /\ b[7] = d1[7] /\ b[8] = d1[8]
    <3>1. \A i \in 1..8 : b[i] = d1[i]
      BY <1>b, Zenon
    <3> QED BY <3>1
  <2>3. /\ d1[1] = h[1] /\ d1[2] = h[2] /\ d1[3] = h[3] /\ d1[4] = h[4]
        /\ d1[5] = h[5] /\ d1[6] = h[6]
    <3>1. \A i \in 1..6 : d1[i] = h[i]
      BY <2>1, Zenon
    <3> QED BY <3>1
  <2> QED BY <1>3, <1>4, <2>1, <2>2, <2>3, Zenon
<1>20. /\ b[9] = q[1] /\ b[10] = q[2] /\ b[11] = q[3] /\ b[12] = q[4]
  <2>1. \A i \in 1..4 : b[8 + i] = q[i]
    <3>1. \A i \in 1..4 : d2[8 + i] = q[i]
      BY <1>13, Zenon DEF Joins
    <3>2. \A i \in 1..4 : 8 + i \in 1..12
      OBVIOUS
    <3> QED BY <1>b, <3>1, <3>2, Zenon
  <2> QED BY <2>1
<1>21. /\ b[13] = e[1] /\ b[14] = e[2] /\ b[15] = e[3] /\ b[16] = e[4]
  <2>1. \A i \in 1..4 : b[12 + i] = e[i]
    <3>1. \A i \in 1..4 : d3[12 + i] = e[i]
      BY <1>14, Zenon DEF Joins
    <3>2. \A i \in 1..4 : 12 + i \in 1..16
      OBVIOUS
    <3> QED BY <1>b, <3>1, <3>2, Zenon
  <2> QED BY <2>1
<1>22. /\ b[17] = s[1] /\ b[18] = s[2] /\ b[19] = s[3] /\ b[20] = s[4]
  <2>1. \A i \in 1..4 : b[16 + i] = s[i]
    <3>1. \A i \in 1..4 : d4[16 + i] = s[i]
      BY <1>15, Zenon DEF Joins
    <3>2. \A i \in 1..4 : 16 + i \in 1..20
      OBVIOUS
    <3> QED BY <1>b, <3>1, <3>2, Zenon
  <2> QED BY <2>1
<1>23. /\ read_u16_be(b, 7) = n /\ read_u32_be(b, 9) = f.sequence
       /\ read_u32_be(b, 13) = f.epoch /\ read_u32_be(b, 17) = f.sender
  <2>1. read_u16_be(b, 7) = n
    BY <1>a, <1>19 DEF read_u16_be
  <2>2. read_u32_be(b, 9) = f.sequence
    BY <1>5, <1>20 DEF read_u32_be
  <2>3. read_u32_be(b, 13) = f.epoch
    BY <1>6, <1>21 DEF read_u32_be
  <2>4. read_u32_be(b, 17) = f.sender
    BY <1>7, <1>22 DEF read_u32_be
  <2> QED BY <2>1, <2>2, <2>3, <2>4
<1>24. SubSeq(b, 9, 12) # <<0, 0, 0, 0>>
  <2>1. SUFFICES ASSUME SubSeq(b, 9, 12) = <<0, 0, 0, 0>> PROVE FALSE
    OBVIOUS
  <2>2. /\ SubSeq(b, 9, 12)[1] = b[9] /\ SubSeq(b, 9, 12)[2] = b[10]
        /\ SubSeq(b, 9, 12)[3] = b[11] /\ SubSeq(b, 9, 12)[4] = b[12]
    BY <1>18a
  <2>a. <<0, 0, 0, 0>>[1] = 0 /\ <<0, 0, 0, 0>>[2] = 0 /\ <<0, 0, 0, 0>>[3] = 0
        /\ <<0, 0, 0, 0>>[4] = 0
    OBVIOUS
  <2>3. b[9] = 0 /\ b[10] = 0 /\ b[11] = 0 /\ b[12] = 0
    BY <2>1, <2>2, <2>a, Zenon
  <2>4. f.sequence = 0
    BY <1>23, <2>3 DEF read_u32_be
  <2> QED BY <1>1, <2>4
<1>25. SubSeq(b, 1, 20 + n) = data
  <2>1. data \in Seq(T) /\ Len(data) = 20 + n
    BY <1>16a, <1>17
  <2>2. \A i \in 1..(20 + n) : b[0 + i] = data[i]
    BY <1>a, <1>18 DEF Joins
  <2>3. PartAt(b, data, 0, 1, 20 + n, T)
    BY <1>a, <1>18a, <2>1, <2>2 DEF PartAt
  <2> QED BY <2>3, PartOf, Zenon
<1>26. SubSeq(b, 21 + n, 24 + n) = c
  <2>1. \A i \in 1..4 : b[(20 + n) + i] = c[i]
    BY <1>18 DEF Joins
  <2>2. PartAt(b, c, 20 + n, 21 + n, 24 + n, T)
    BY <1>a, <1>9, <1>18a, <2>1 DEF PartAt
  <2> QED BY <2>2, PartOf, Zenon
<1>27. SubSeq(b, 21, 20 + n) = f.payload
  <2>1. \A i \in 1..n : b[20 + i] = f.payload[i]
    <3>1. TAKE i \in 1..n
    <3>2. 20 + i \in 1..(20 + n) /\ d5[20 + i] = f.payload[i]
      BY <1>a, <1>16, SMTT(20) DEF Joins
    <3>3. b[20 + i] = d5[20 + i]
      BY <1>17, <1>18, <3>2 DEF Joins
    <3> QED BY <3>2, <3>3
  <2>2. PartAt(b, f.payload, 20, 21, 20 + n, T)
    BY <1>a, <1>10, <1>18a, <2>1 DEF PartAt
  <2> QED BY <2>2, PartOf, ZenonT(40)
<1>29. c = crc_bytes(node_link_crc32(data))
  BY DEF c, data
<1> DEFINE frame == [type |-> b[4], flags |-> b[5], state |-> b[6],
                      sequence |-> read_u32_be(b, 9), epoch |-> read_u32_be(b, 13),
                      sender |-> read_u32_be(b, 17), payload |-> SubSeq(b, 21, 20 + n)]
<1>30. frame = f
  BY <1>1, <1>2, <1>19, <1>23, <1>27
<1>31. /\ ~(Len(b) < NL_HEADER_SIZE + NL_CRC_SIZE)
       /\ ~(b[1] # MAGIC_0 \/ b[2] # NL_MAGIC_1) /\ ~(b[3] # NL_VERSION)
       /\ valid_message_type(b[4]) /\ ~(b[5] # NL_SUPPORTED_FLAGS) /\ valid_state(b[6])
       /\ ~(read_u16_be(b, 7) > NL_MAX_PAYLOAD)
       /\ ~(Len(b) # NL_HEADER_SIZE + read_u16_be(b, 7) + NL_CRC_SIZE)
  <2>1. n \in 0..64
    BY <1>1 DEF n
  <2>2. /\ ~(b[1] # MAGIC_0 \/ b[2] # NL_MAGIC_1) /\ ~(b[3] # NL_VERSION)
        /\ ~(b[5] # NL_SUPPORTED_FLAGS)
    BY <1>19 DEF MAGIC_0, NL_MAGIC_1, NL_VERSION, NL_SUPPORTED_FLAGS
  <2>3. valid_message_type(b[4]) /\ valid_state(b[6])
    BY <1>1, <1>19
  <2>4. ~(Len(b) < NL_HEADER_SIZE + NL_CRC_SIZE)
    BY <1>18a, <2>1 DEF NL_HEADER_SIZE, NL_CRC_SIZE
  <2>5. ~(Len(b) # NL_HEADER_SIZE + read_u16_be(b, 7) + NL_CRC_SIZE)
    <3>1. NL_HEADER_SIZE + n + NL_CRC_SIZE = 24 + n
      BY <2>1 DEF NL_HEADER_SIZE, NL_CRC_SIZE
    <3> QED BY <1>18a, <1>23, <3>1, Zenon
  <2>6. ~(read_u16_be(b, 7) > NL_MAX_PAYLOAD)
    BY <1>23, <2>1 DEF NL_MAX_PAYLOAD
  <2> QED BY <2>2, <2>3, <2>4, <2>5, <2>6
<1>32. /\ NL_HEADER_SIZE + read_u16_be(b, 7) = 20 + n /\ NL_HEADER_SIZE + 1 = 21
       /\ 20 + n + 1 = 21 + n /\ 20 + n + NL_CRC_SIZE = 24 + n
  BY <1>a, <1>23 DEF NL_HEADER_SIZE, NL_CRC_SIZE
<1>33. node_link_decode(b) = [result |-> "OK", frame |-> frame]
  BY <1>24, <1>25, <1>26, <1>29, <1>31, <1>32, Zenon DEF node_link_decode
<1> QED BY <1>30, <1>33 DEF b

\* What the F401 sends is such a frame.
LEMMA DecodedAsEncoded ==
  ASSUME NEW f, Sendable(f)
  PROVE  node_link_decode(node_link_encode(f)) = [result |-> "OK", frame |-> f]
<1>1. /\ f.type \in {1, 4} /\ f.flags = 0 /\ f.state \in 0..5
      /\ f.sequence \in 1..UINT32_MAX /\ f.epoch \in 0..UINT32_MAX /\ f.sender = 1
      /\ f.payload = << >> /\ UINT32_MAX \in Nat \ {0}
  BY HeartbeatConstants, UInt32Assumption
     DEF Sendable, Frames, NL_MESSAGE, NL_SUPPORTED_FLAGS, NodeId
<1>2. valid_message_type(f.type)
  <2>1. NL_MESSAGE.HELLO = 1 /\ NL_MESSAGE.HEARTBEAT = 4
        /\ "HELLO" \in DOMAIN NL_MESSAGE /\ "HEARTBEAT" \in DOMAIN NL_MESSAGE
    BY DEF NL_MESSAGE
  <2> QED BY <1>1, <2>1 DEF valid_message_type
<1>3. f \in NodeLinkFrames
  <2>1. f = [type |-> f.type, flags |-> f.flags, state |-> f.state, sequence |-> f.sequence,
             epoch |-> f.epoch, sender |-> f.sender, payload |-> f.payload]
    BY DEF Sendable, Frames
  <2>2. /\ f.type \in 0..255 /\ f.flags \in 0..255 /\ f.state \in 0..255
        /\ f.sequence \in 0..UINT32_MAX /\ f.sender \in 0..UINT32_MAX
        /\ f.payload \in Seq(0..255)
    BY <1>1
  <2> QED BY <1>1, <2>1, <2>2 DEF NodeLinkFrames
<1>4. node_link_encode_result(f, NL_MAX_FRAME) = "OK"
  BY <1>1, <1>2 DEF node_link_encode_result, NL_SUPPORTED_FLAGS, valid_state, NODE_STATE,
                    NL_MAX_PAYLOAD, NL_MAX_FRAME, NL_HEADER_SIZE, NL_CRC_SIZE
<1> QED BY <1>3, <1>4, NodeLinkRoundTrip

-----------------------------------------------------------------------------
(* A frame through the stages of the receiver.                             *)

\* A record with the fields of a decoded frame.
Framed(g) ==
  g = [type |-> g.type, flags |-> g.flags, state |-> g.state, sequence |-> g.sequence,
       epoch |-> g.epoch, sender |-> g.sender, payload |-> g.payload]

LEMMA DecodedIsFramed ==
  ASSUME NEW b
  PROVE  /\ node_link_decode(b).result \in NODE_LINK_RESULTS
         /\ node_link_decode(b).result = "OK" => Framed(node_link_decode(b).frame)
<1> DEFINE end == NL_HEADER_SIZE + read_u16_be(b, 7)
           frame == [type |-> b[4], flags |-> b[5], state |-> b[6],
                     sequence |-> read_u32_be(b, 9), epoch |-> read_u32_be(b, 13),
                     sender |-> read_u32_be(b, 17),
                     payload |-> SubSeq(b, NL_HEADER_SIZE + 1, end)]
           passed == [result |-> "OK", frame |-> frame]
<1>1. Framed(frame)
  BY DEF Framed
<1>2. passed.result = "OK" /\ passed.frame = frame
  OBVIOUS
<1>3. \A why : Rejected(why).result = why
  BY DEF Rejected
<1> DEFINE WHY == {"FRAME_TOO_SHORT", "MAGIC", "VERSION", "MESSAGE_TYPE", "FLAGS", "STATE",
                   "PAYLOAD_TOO_LARGE", "LENGTH_MISMATCH", "SEQUENCE_ZERO", "CRC"}
<1>4. \/ node_link_decode(b) = passed
      \/ \E why \in WHY : node_link_decode(b) = Rejected(why)
  <2> HIDE DEF frame, WHY
  <2>1. /\ "FRAME_TOO_SHORT" \in WHY /\ "MAGIC" \in WHY /\ "VERSION" \in WHY
        /\ "MESSAGE_TYPE" \in WHY /\ "FLAGS" \in WHY /\ "STATE" \in WHY
        /\ "PAYLOAD_TOO_LARGE" \in WHY /\ "LENGTH_MISMATCH" \in WHY
        /\ "SEQUENCE_ZERO" \in WHY /\ "CRC" \in WHY
    BY DEF WHY
  <2>2. node_link_decode(b) =
          IF Len(b) < NL_HEADER_SIZE + NL_CRC_SIZE THEN Rejected("FRAME_TOO_SHORT")
          ELSE IF b[1] # MAGIC_0 \/ b[2] # NL_MAGIC_1 THEN Rejected("MAGIC")
          ELSE IF b[3] # NL_VERSION THEN Rejected("VERSION")
          ELSE IF ~valid_message_type(b[4]) THEN Rejected("MESSAGE_TYPE")
          ELSE IF b[5] # NL_SUPPORTED_FLAGS THEN Rejected("FLAGS")
          ELSE IF ~valid_state(b[6]) THEN Rejected("STATE")
          ELSE IF read_u16_be(b, 7) > NL_MAX_PAYLOAD THEN Rejected("PAYLOAD_TOO_LARGE")
          ELSE IF Len(b) # end + NL_CRC_SIZE THEN Rejected("LENGTH_MISMATCH")
          ELSE IF SubSeq(b, 9, 12) = <<0, 0, 0, 0>> THEN Rejected("SEQUENCE_ZERO")
          ELSE IF SubSeq(b, end + 1, end + NL_CRC_SIZE)
                  # crc_bytes(node_link_crc32(SubSeq(b, 1, end)))
            THEN Rejected("CRC")
          ELSE passed
    BY Zenon DEF node_link_decode, frame
  <2> HIDE DEF passed
  <2> QED BY <2>1, <2>2, Zenon
<1>5. WHY \subseteq NODE_LINK_RESULTS \ {"OK"} /\ "OK" \in NODE_LINK_RESULTS
  BY DEF NODE_LINK_RESULTS
<1> HIDE DEF passed, frame, WHY
<1> QED BY <1>1, <1>2, <1>3, <1>4, <1>5

LEMMA Configured ==
  /\ Authenticator = [configured |-> TRUE, peers |-> <<Peer>>]
  /\ Resolver = [configured |-> TRUE, consumer |-> "mcxn947", bindings |-> <<Binding>>]
<1>1. /\ <<Peer>>[1] = Peer /\ DOMAIN <<Peer>> = {1} /\ Len(<<Peer>>) = 1
      /\ <<Binding>>[1] = Binding /\ DOMAIN <<Binding>> = {1} /\ Len(<<Binding>>) = 1
  OBVIOUS
<1>2. /\ Peer.sender = 1 /\ Peer.producer = 1 /\ Peer.key = 1 /\ Peer.algorithm = 1
      /\ Binding.sender = 1 /\ Binding.producer = 1 /\ Binding.key = 1
      /\ Binding.algorithm = 1 /\ Binding.profile = "f401"
  BY SMTT(20) DEF Peer, Binding, NodeId, SIGNATURE_ED25519
<1>3. authenticator_check(<<Peer>>, SIGNATURE_ED25519, TRUE) = "OK"
  BY <1>1, <1>2, SMTT(20) DEF authenticator_check, SIGNATURE_ED25519, AUTH_MAX_PEERS
<1>4. resolver_check(<<Binding>>, "mcxn947", TRUE) = "OK"
  <2> DEFINE bs == <<Binding>>
             Why(i) == IF 0 \in {bs[i].sender, bs[i].producer, bs[i].key}
                         THEN "CONTEXT_INCOMPLETE"
                       ELSE IF bs[i].algorithm # SIGNATURE_ED25519 THEN "UNSUPPORTED"
                       ELSE IF ~semantic_snapshot_ref(bs[i].profile)
                         THEN "CONTEXT_INCOMPLETE"
                       ELSE IF \E j \in 1..(i - 1) : SameIdentity(bs[i], bs[j])
                         THEN "BINDING_AMBIGUOUS"
                       ELSE "OK"
  <2>1. Why(1) = "OK"
    <3>1. ~ \E j \in 1..(1 - 1) : SameIdentity(bs[1], bs[j])
      OBVIOUS
    <3>2. "f401" # NO_REF
      BY NoRefAssumption DEF SEMANTIC_NAMES
    <3> QED BY <1>1, <1>2, <3>1, <3>2 DEF SIGNATURE_ED25519, semantic_snapshot_ref
  <2>2. {i \in DOMAIN bs : Why(i) # "OK"} = {}
    <3> HIDE DEF Why
    <3> QED BY <1>1, <2>1
  <2>3. "mcxn947" # NO_REF /\ ~(1 > SEMANTIC_MAX_BINDINGS)
    BY NoRefAssumption DEF SEMANTIC_MAX_BINDINGS, SEMANTIC_NAMES
  <2> QED BY <1>1, <2>2, <2>3, Zenon DEF resolver_check, semantic_snapshot_ref
<1>5. QED BY <1>3, <1>4 DEF Authenticator, Resolver, authenticator_configure, resolver_configure

\* What the stages make of a frame that passes them.
AuthOf(f) ==
  [frame |-> f, producer |-> 1, key |-> 1, algorithm |-> SIGNATURE_ED25519]
MessageOf(f) ==
  [auth |-> AuthOf(f), producer_profile |-> "f401", consumer_profile |-> "mcxn947",
   contract |-> "contract"]

\* Whoever asks the key store, a frame that is authenticated is the one signed.
LEMMA AuthenticatedAsSigned ==
  ASSUME NEW f, Sendable(f), NEW g, Framed(g), NEW k
  PROVE  LET a == authenticate(Authenticator, g, SignatureOf(f), ED25519_SIGNATURE_SIZE, k)
         IN /\ a.result = "OK" => g = f /\ a.message = AuthOf(f)
            /\ g = f /\ k = "VERIFIED" => a.result = "OK"
            /\ k = "VERIFIED" => a.result \in AUTH_RESULTS
<1> DEFINE found == resolve_peer(Authenticator, g.sender)
           peer == CHOOSE p \in found : TRUE
           t == build_auth_transcript(g, peer.producer, peer.key)
           verified == map_verify_result(verify_signature(k, peer, t.bytes, SignatureOf(f)))
           passed == [result |-> "OK",
                      message |-> [frame |-> g, producer |-> peer.producer,
                                   key |-> peer.key, algorithm |-> peer.algorithm]]
           a == authenticate(Authenticator, g, SignatureOf(f), ED25519_SIGNATURE_SIZE, k)
<1>1. /\ f.type \in {1, 4} /\ f.flags = 0 /\ f.state \in 0..5 /\ f.sequence # 0
      /\ f.epoch # 0 /\ f.sender = 1 /\ f.payload = << >> /\ Framed(f)
  BY HeartbeatConstants, UInt32Assumption
     DEF Sendable, Frames, Framed, NL_MESSAGE, NL_SUPPORTED_FLAGS, NodeId
<1>2. /\ Peer.sender = 1 /\ Peer.producer = 1 /\ Peer.key = 1
      /\ Peer.algorithm = SIGNATURE_ED25519
  BY DEF Peer, NodeId, SIGNATURE_ED25519
<1>3. /\ g.sender = 1 => found = {Peer} /\ peer = Peer
      /\ g.sender # 1 => found = {}
  <2>1. found = {<<Peer>>[i] : i \in {j \in DOMAIN <<Peer>> : <<Peer>>[j].sender = g.sender}}
    BY Configured DEF resolve_peer
  <2>2. <<Peer>>[1] = Peer /\ DOMAIN <<Peer>> = {1}
    OBVIOUS
  <2>3. g.sender = 1 => found = {Peer}
    BY <1>2, <2>1, <2>2
  <2>4. g.sender # 1 => found = {}
    BY <1>2, <2>1, <2>2
  <2> QED BY <2>3, <2>4
<1>4. build_auth_transcript(f, 1, 1)
      = [result |-> "OK", bytes |-> <<NL_VERSION, f.type, f.flags, f.state, f.sequence,
                                      f.epoch, f.sender, 1, 1, f.payload>>]
  <2>1. valid_message_type(f.type)
    <3>1. NL_MESSAGE.HELLO = 1 /\ NL_MESSAGE.HEARTBEAT = 4
          /\ "HELLO" \in DOMAIN NL_MESSAGE /\ "HEARTBEAT" \in DOMAIN NL_MESSAGE
      BY DEF NL_MESSAGE
    <3> QED BY <1>1, <3>1 DEF valid_message_type
  <2>2. f.state <= NODE_STATE.FAULT
    BY <1>1 DEF NODE_STATE
  <2>3. Len(f.payload) = 0 /\ ~(Len(f.payload) > NL_MAX_PAYLOAD)
    BY <1>1 DEF NL_MAX_PAYLOAD
  <2>4. 0 \notin {f.sequence, f.epoch, f.sender, 1, 1}
    BY <1>1
  <2> QED BY <1>1, <2>1, <2>2, <2>3, <2>4, Zenon
          DEF build_auth_transcript, auth_message_type_valid, auth_state_valid,
              NL_SUPPORTED_FLAGS
<1>5. SignatureOf(f) = [key |-> 1, over |-> <<NL_VERSION, f.type, f.flags, f.state, f.sequence,
                                              f.epoch, f.sender, 1, 1, f.payload>>]
  BY <1>2, <1>4 DEF SignatureOf
<1>6. a = IF found = {} THEN Rejected("PEER_UNKNOWN")
          ELSE IF peer.algorithm # SIGNATURE_ED25519 THEN Rejected("ALGORITHM_UNSUPPORTED")
          ELSE IF t.result # "OK" THEN Rejected(t.result)
          ELSE IF verified # "OK" THEN Rejected(verified)
          ELSE passed
  <2>1. Authenticator.configured = TRUE
    BY Configured
  <2> QED BY <2>1, Zenon DEF authenticate
<1>7. /\ \A why : Rejected(why).result = why
      /\ passed.result = "OK"
  BY DEF Rejected
<1>8. CASE g.sender # 1
  <2>1. a.result = "PEER_UNKNOWN"
    BY <1>3, <1>6, <1>7, <1>8, Zenon
  <2> QED BY <1>1, <1>8, <2>1 DEF AUTH_RESULTS
<1>9. CASE g.sender = 1
  <2>1. /\ peer.producer = 1 /\ peer.key = 1 /\ peer.algorithm = SIGNATURE_ED25519
        /\ found # {} /\ passed.message = [frame |-> g, producer |-> 1, key |-> 1,
                                           algorithm |-> SIGNATURE_ED25519]
    BY <1>2, <1>3, <1>9
  <2>2. t = build_auth_transcript(g, 1, 1)
    BY <2>1, Zenon
  <2> HIDE DEF t, peer, found
  <2>3. \/ t.result = "TRANSCRIPT"
        \/ /\ t.result = "OK"
           /\ t.bytes = <<NL_VERSION, g.type, g.flags, g.state, g.sequence, g.epoch, g.sender,
                          1, 1, g.payload>>
    BY <2>2 DEF build_auth_transcript, Rejected
  <2>4. g = f => t.result = "OK"
    BY <1>4, <2>2
  <2>5. \/ verified = "OK" /\ k = "VERIFIED" /\ SignatureOf(f) = [key |-> 1, over |-> t.bytes]
        \/ verified # "OK" /\ (k = "VERIFIED" => /\ verified = "SIGNATURE_INVALID"
                                                 /\ SignatureOf(f) # [key |-> 1, over |-> t.bytes])
    <3>1. peer.key = 1
      BY <2>1
    <3> HIDE DEF peer
    <3> QED BY <3>1 DEF verify_signature, map_verify_result, VERIFY_RESULTS
  <2> HIDE DEF verified, passed, found, peer, a
  <2>6. \/ a = Rejected(t.result) /\ t.result = "TRANSCRIPT"
        \/ a = Rejected(verified) /\ t.result = "OK" /\ verified # "OK"
        \/ a = passed /\ t.result = "OK" /\ verified = "OK"
    BY <1>6, <2>1, <2>3
  <2>7. a = passed => g = f
    <3>1. SUFFICES ASSUME t.result = "OK", SignatureOf(f) = [key |-> 1, over |-> t.bytes]
                   PROVE  g = f
      BY <1>7, <2>5, <2>6 DEF Rejected
    <3>2. <<NL_VERSION, f.type, f.flags, f.state, f.sequence, f.epoch, f.sender, 1, 1, f.payload>>
          = <<NL_VERSION, g.type, g.flags, g.state, g.sequence, g.epoch, g.sender, 1, 1, g.payload>>
      BY <1>5, <2>3, <3>1
    <3>3. /\ g.type = f.type /\ g.flags = f.flags /\ g.state = f.state /\ g.sequence = f.sequence
          /\ g.epoch = f.epoch /\ g.sender = f.sender /\ g.payload = f.payload
      BY <3>2
    <3> QED BY <1>1, <3>3, Zenon DEF Framed
  <2>8. g = f /\ k = "VERIFIED" => a = passed
    <3>1. SUFFICES ASSUME g = f, k = "VERIFIED" PROVE a = passed
      OBVIOUS
    <3>2. t.result = "OK" /\ SignatureOf(f) = [key |-> 1, over |-> t.bytes]
      BY <1>5, <2>3, <2>4, <3>1
    <3> QED BY <2>5, <2>6, <3>1, <3>2
  <2>9. a.result = "OK" => a = passed
    BY <1>7, <2>6
  <2>10. k = "VERIFIED" => a.result \in AUTH_RESULTS
    BY <1>7, <2>5, <2>6 DEF AUTH_RESULTS
  <2> QED BY <1>7, <2>1, <2>7, <2>8, <2>9, <2>10 DEF AuthOf, a
<1> QED BY <1>8, <1>9

\* A signed frame has the one binding; what the provider says decides.
LEMMA ResolvedAsBound ==
  ASSUME NEW f, f.sender = 1, NEW c
  PROVE  LET r == resolve_pre_freshness_compatibility(Resolver, AuthOf(f), c, "contract")
         IN /\ r.result = "OK" => r.message = MessageOf(f)
            /\ c = "COMPATIBLE" => r.result = "OK"
<1> DEFINE match == {i \in DOMAIN Resolver.bindings :
                       semantic_identity_equal(Resolver.bindings[i], AuthOf(f))}
           binding == Resolver.bindings[CHOOSE i \in match : TRUE]
           mapped == semantic_map_provider_result(c)
           r == resolve_pre_freshness_compatibility(Resolver, AuthOf(f), c, "contract")
           passed == [result |-> "OK",
                      message |-> [auth |-> AuthOf(f), producer_profile |-> binding.profile,
                                   consumer_profile |-> Resolver.consumer,
                                   contract |-> "contract"]]
<1>1. /\ Resolver.configured = TRUE /\ Resolver.consumer = "mcxn947"
      /\ Resolver.bindings = <<Binding>>
  BY Configured
<1>2. <<Binding>>[1] = Binding /\ DOMAIN <<Binding>> = {1}
  OBVIOUS
<1>3. semantic_identity_equal(Binding, AuthOf(f))
  BY DEF semantic_identity_equal, SameIdentity, Binding, AuthOf, NodeId
<1>4. match = {1}
  BY <1>1, <1>2, <1>3
<1>5. binding = Binding
  <2>1. (CHOOSE i \in match : TRUE) = 1
    BY <1>4
  <2> QED BY <1>1, <1>2, <2>1
<1>6. Binding.profile = "f401"
  BY DEF Binding
<1>7. passed = [result |-> "OK", message |-> MessageOf(f)]
  BY <1>1, <1>5, <1>6, Zenon DEF MessageOf
<1>8. r = IF mapped # "OK" THEN Rejected(mapped) ELSE passed
  <2>1. match # {} /\ ~ \E i, j \in match : i # j
    BY <1>4
  <2>2. "contract" # NO_REF
    BY NoRefAssumption DEF SEMANTIC_NAMES
  <2> QED BY <1>1, <2>1, <2>2, Zenon
          DEF resolve_pre_freshness_compatibility, semantic_snapshot_ref
<1>9. c = "COMPATIBLE" => mapped = "OK"
  BY DEF semantic_map_provider_result
<1> HIDE DEF mapped, r, passed
<1> QED BY <1>7, <1>8, <1>9 DEF Rejected, r

\* An active runtime of the peer, or an uninitialised one, is well formed.
LEMMA PeerIdentityFacts ==
  /\ PeerIdentity # NoIdentity /\ identity_structurally_valid(PeerIdentity)
  /\ PeerIdentity \in [sender : Nat, producer : Nat, key : Nat, algorithm : Nat,
                       producer_profile : SemanticRefs, consumer_profile : SemanticRefs,
                       contract : SemanticRefs]
<1>1. PeerIdentity =
        [sender |-> 1, producer |-> 1, key |-> 1, algorithm |-> 1,
         producer_profile |-> "f401", consumer_profile |-> "mcxn947", contract |-> "contract"]
  BY Configured DEF PeerIdentity, Peer, Binding, NodeId, SIGNATURE_ED25519
<1>2. "f401" # NO_REF /\ "mcxn947" # NO_REF /\ "contract" # NO_REF
  BY NoRefAssumption DEF SEMANTIC_NAMES
<1>3. PeerIdentity # NoIdentity
  <2>1. PeerIdentity.sender = 1 /\ NoIdentity.sender = 0
    BY <1>1 DEF NoIdentity
  <2> QED BY <2>1
<1>4. identity_structurally_valid(PeerIdentity)
  BY <1>1, <1>2 DEF identity_structurally_valid, SIGNATURE_ED25519, freshness_ref_valid
<1>5. "f401" \in SemanticRefs /\ "mcxn947" \in SemanticRefs /\ "contract" \in SemanticRefs
  BY DEF SemanticRefs, SEMANTIC_NAMES
<1> HIDE DEF PeerIdentity
<1> QED BY <1>1, <1>3, <1>4, <1>5

LEMMA RuntimeFacts ==
  ASSUME NEW r, RuntimeOf(r)
  PROVE  r \in FreshnessRuntimes /\ freshness_runtime_validate(r) = "OK"
<1>1. CASE r = freshness_runtime_init
  <2>1. r.identity = NoIdentity /\ r.observed_sequence = 0 /\ r.accepted_epoch = 0
        /\ r.accepted_sequence = 0 /\ r.condition = "UNINITIALIZED"
    BY <1>1 DEF freshness_runtime_init
  <2>2. freshness_runtime_validate(r) = "OK"
    BY <2>1 DEF freshness_runtime_validate, freshness_condition_valid, FRESHNESS_CONDITIONS
  <2>3. r \in FreshnessRuntimes
    BY <1>1, UInt32Assumption
       DEF freshness_runtime_init, FreshnessRuntimes, NoIdentity, SemanticRefs,
           FRESHNESS_CONDITIONS
  <2> QED BY <2>2, <2>3
<1>2. CASE r # freshness_runtime_init
  <2>1. /\ r \in FreshnessRuntimes /\ r.condition = "ACTIVE" /\ r.identity = PeerIdentity
        /\ r.accepted_epoch # 0 /\ r.accepted_sequence # 0
    BY <1>2 DEF RuntimeOf
  <2>2. freshness_runtime_validate(r) = "OK"
    BY <2>1, PeerIdentityFacts
       DEF freshness_runtime_validate, freshness_condition_valid, FRESHNESS_CONDITIONS
  <2> QED BY <2>1, <2>2
<1> QED BY <1>1, <1>2

\* What freshness says of a frame of the peer.
Judged(f) ==
  [result |-> "OK", decision |-> decision(rt, MessageOf(f), MaxGap), identity |-> PeerIdentity,
   prior |-> rt, observed_epoch |-> f.epoch, observed_sequence |-> f.sequence]

LEMMA EvaluatedAsJudged ==
  ASSUME NEW f, Sendable(f), RuntimeOf(rt)
  PROVE  freshness_evaluate(TRUE, MaxGap, rt, MessageOf(f)) = Judged(f)
<1>1. MessageOf(f).auth = AuthOf(f) /\ AuthOf(f).frame = f
  BY DEF MessageOf, AuthOf
<1>2. identity_from_message(MessageOf(f)) = PeerIdentity
  <2>1. f.sender = 1
    BY DEF Sendable, Frames, NodeId
  <2> QED BY <2>1, Configured
          DEF identity_from_message, MessageOf, AuthOf, PeerIdentity, Peer, Binding, NodeId
<1>3. f.sequence # 0 /\ f.epoch # 0
  BY UInt32Assumption DEF Sendable, Frames
<1>4. message_valid(MessageOf(f))
  BY <1>1, <1>2, <1>3, PeerIdentityFacts DEF message_valid
<1>5. freshness_runtime_validate(rt) = "OK" /\ ~(MaxGap = 0)
  BY RuntimeFacts, HeartbeatConstants
<1> QED BY <1>1, <1>2, <1>4, <1>5, Zenon DEF freshness_evaluate, Judged

\* A frame that passes every stage is the frame that was signed; what arrives
\* as it was sent is always judged.
LEMMA StagesFacts ==
  ASSUME NEW f, Sendable(f), RuntimeOf(rt), NEW d, NEW k, NEW c,
         d.result \in NODE_LINK_RESULTS, d.result = "OK" => Framed(d.frame)
  PROVE  LET e == Stages(d, SignatureOf(f), k, c)
         IN /\ e.result = "OK" => d.frame = f /\ e = Judged(f)
            /\ k = "VERIFIED" /\ c = "COMPATIBLE" =>
                 /\ d.result = "OK" /\ d.frame = f => e = Judged(f)
                 /\ e.result \in NODE_LINK_RESULTS \cup AUTH_RESULTS \cup SEMANTIC_RESULTS
                                 \cup FRESHNESS_RESULTS
<1> DEFINE a == authenticate(Authenticator, d.frame, SignatureOf(f), ED25519_SIGNATURE_SIZE, k)
           r == resolve_pre_freshness_compatibility(Resolver, a.message, c, "contract")
           e == Stages(d, SignatureOf(f), k, c)
<1>1. e = IF d.result # "OK" THEN Rejected(d.result)
          ELSE IF a.result # "OK" THEN Rejected(a.result)
          ELSE IF r.result # "OK" THEN Rejected(r.result)
          ELSE freshness_evaluate(TRUE, MaxGap, rt, r.message)
  BY Zenon DEF Stages
<1>2. d.result = "OK" =>
        /\ a.result = "OK" => d.frame = f /\ a.message = AuthOf(f)
        /\ d.frame = f /\ k = "VERIFIED" => a.result = "OK"
        /\ k = "VERIFIED" => a.result \in AUTH_RESULTS
  BY AuthenticatedAsSigned
<1>3. f.sender = 1
  BY DEF Sendable, Frames, NodeId
<1>4. a.message = AuthOf(f) =>
        /\ r.result = "OK" => r.message = MessageOf(f)
        /\ c = "COMPATIBLE" => r.result = "OK"
  BY <1>3, ResolvedAsBound
<1>5. freshness_evaluate(TRUE, MaxGap, rt, MessageOf(f)) = Judged(f)
  BY EvaluatedAsJudged
<1>6. \A why : Rejected(why).result = why
  BY DEF Rejected
<1>7. Judged(f).result = "OK" /\ "OK" \in FRESHNESS_RESULTS
  BY DEF Judged, FRESHNESS_RESULTS
<1> HIDE DEF a, r, e
<1> QED BY <1>1, <1>2, <1>4, <1>5, <1>6, <1>7, Zenon DEF e

\* What freshness_apply makes of it: only an accepted frame moves the runtime.
LEMMA AppliedRuntime ==
  ASSUME NEW f, Sendable(f), RuntimeOf(rt)
  PROVE  LET r == freshness_apply(rt, Judged(f))
         IN /\ RuntimeOf(r) /\ r.condition = rt.condition
            /\ r.accepted_epoch = rt.accepted_epoch
            /\ Judged(f).decision = "ACCEPT" =>
                 /\ rt.condition = "ACTIVE" /\ f.epoch = rt.accepted_epoch
                 /\ f.sequence > rt.accepted_sequence /\ r.accepted_sequence = f.sequence
            /\ Judged(f).decision # "ACCEPT" => r = rt
            /\ Judged(f).decision \in FRESHNESS_DECISIONS
<1> DEFINE e == Judged(f)
           r == freshness_apply(rt, e)
           candidate == [rt EXCEPT !.observed_epoch = f.epoch, !.observed_sequence = f.sequence,
                                   !.accepted_sequence = f.sequence]
<1>1. /\ e.result = "OK" /\ e.decision = decision(rt, MessageOf(f), MaxGap)
      /\ e.observed_epoch = f.epoch /\ e.observed_sequence = f.sequence
  BY DEF Judged
<1>2. /\ f.sequence \in 1..UINT32_MAX /\ f.epoch \in Nat /\ UINT32_MAX \in Nat
  <2>1. f.sequence \in 1..UINT32_MAX /\ f.epoch \in Epochs
    BY DEF Sendable, Frames
  <2>2. f.epoch \in 0..UINT32_MAX
    BY <2>1, HeartbeatConstants
  <2>3. UINT32_MAX \in Nat
    BY UInt32Assumption
  <2> QED BY <2>1, <2>2, <2>3
<1>3. r = IF /\ e.decision = "ACCEPT" /\ freshness_runtime_validate(candidate) = "OK"
            THEN candidate ELSE rt
  BY <1>1, Zenon DEF freshness_apply
<1>4. MessageOf(f).auth.frame = f
  BY DEF MessageOf, AuthOf
<1>5. e.decision \in FRESHNESS_DECISIONS
  <2>1. decision(rt, MessageOf(f), MaxGap) \in FRESHNESS_DECISIONS
    BY DEF decision, FRESHNESS_DECISIONS
  <2> QED BY <1>1, <2>1
<1>6. rt \in FreshnessRuntimes
  BY RuntimeFacts
<1>7. CASE e.decision = "ACCEPT"
  <2>1. /\ rt.condition = "ACTIVE" /\ f.epoch = rt.accepted_epoch
        /\ ~(f.sequence = rt.accepted_sequence) /\ ~(f.sequence < rt.accepted_sequence)
    BY <1>1, <1>4, <1>7, Zenon DEF decision
  <2>2. rt.accepted_sequence \in 0..UINT32_MAX /\ f.sequence > rt.accepted_sequence
    BY <1>2, <1>6, <2>1 DEF FreshnessRuntimes
  <2>3. RuntimeOf(candidate) /\ candidate.condition = "ACTIVE"
        /\ candidate.accepted_epoch = rt.accepted_epoch /\ candidate.accepted_sequence = f.sequence
    <3>1. /\ rt.identity = PeerIdentity /\ rt.accepted_epoch # 0
      BY <2>1 DEF RuntimeOf, freshness_runtime_init
    <3>2. candidate \in FreshnessRuntimes
      <4>1. f.sequence \in 0..UINT32_MAX
        BY <1>2
      <4> QED BY <1>2, <1>6, <4>1 DEF FreshnessRuntimes
    <3>3. /\ candidate.condition = rt.condition /\ candidate.identity = rt.identity
          /\ candidate.accepted_epoch = rt.accepted_epoch /\ candidate.accepted_sequence = f.sequence
      BY <1>6 DEF FreshnessRuntimes
    <3> HIDE DEF candidate
    <3> QED BY <1>2, <2>1, <3>1, <3>2, <3>3 DEF RuntimeOf
  <2>4. r = candidate
    BY <1>3, <1>7, <2>3, RuntimeFacts
  <2> HIDE DEF r, candidate, e
  <2> QED BY <1>5, <1>7, <2>1, <2>2, <2>3, <2>4 DEF r, e
<1>8. CASE e.decision # "ACCEPT"
  <2>1. r = rt
    BY <1>3, <1>8, Zenon
  <2> HIDE DEF r, e
  <2> QED BY <1>5, <1>8, <2>1 DEF r, e
<1> QED BY <1>7, <1>8

-----------------------------------------------------------------------------
(* The invariant.                                                          *)

LEMMA DecodedIs ==
  ASSUME NEW f \in Frames, NEW at \in Flips \cup {Intact}
  PROVE  Decoded(f, at) = node_link_decode(Flipped(node_link_encode(f), at))
<1> DEFINE D(g, p) == node_link_decode(Flipped(node_link_encode(g), p))
<1>1. Arrivals = {[frame |-> g, at |-> p, decoded |-> D(g, p)] :
                    g \in Frames, p \in Flips \cup {Intact}}
  BY DEF Arrivals
<1> HIDE DEF D
<1>2. [frame |-> f, at |-> at, decoded |-> D(f, at)] \in Arrivals
  BY <1>1
<1>3. \A x \in Arrivals : x.frame = f /\ x.at = at => x.decoded = D(f, at)
  BY <1>1
<1>4. \E x \in Arrivals : x.frame = f /\ x.at = at
  BY <1>2
<1> DEFINE y == CHOOSE x \in Arrivals : x.frame = f /\ x.at = at
<1>5. y \in Arrivals /\ y.frame = f /\ y.at = at
  BY <1>4, Zenon
<1>6. y.decoded = D(f, at)
  BY <1>3, <1>5, Zenon
<1> QED BY <1>6 DEF Decoded, D

\* What the invariant says of the nodes' records and of the medium.
LEMMA PathSoundFromInv == PathInv => PathSound
<1> SUFFICES ASSUME PathInv PROVE PathSound
  OBVIOUS
<1>1. rt \in FreshnessRuntimes /\ freshness_runtime_validate(rt) = "OK"
  BY RuntimeFacts DEF PathInv
<1>2. send_precheck(adapter) \in ADAPTER_RESULTS
  BY DEF send_precheck, ADAPTER_RESULTS
<1>3. ASSUME NEW f \in medium
      PROVE  LET e == Stages(Decoded(f, Intact), SignatureOf(f), "VERIFIED", "COMPATIBLE")
             IN /\ e.result = "OK" /\ e.decision \in FRESHNESS_DECISIONS
                /\ accept_heartbeat_result(sup, Heartbeat(f, e, 0)) \in MCXN947_RESULTS
  <2> DEFINE d == Decoded(f, Intact)
             e == Stages(d, SignatureOf(f), "VERIFIED", "COMPATIBLE")
  <2>1. Sendable(f) /\ RuntimeOf(rt)
    BY DEF PathInv
  <2>2. d = [result |-> "OK", frame |-> f]
    <3>1. d = node_link_decode(Flipped(node_link_encode(f), Intact))
      BY <2>1, DecodedIs DEF Sendable
    <3>2. Flipped(node_link_encode(f), Intact) = node_link_encode(f)
      BY Zenon DEF Flipped
    <3> QED BY <2>1, <3>1, <3>2, DecodedAsEncoded
  <2>3. d.result = "OK" /\ d.frame = f /\ Framed(d.frame) /\ d.result \in NODE_LINK_RESULTS
    BY <2>1, <2>2 DEF Framed, Sendable, Frames, NODE_LINK_RESULTS
  <2> HIDE DEF d
  <2>4. e = Judged(f)
    BY <2>1, <2>3, StagesFacts
  <2>5. e.result = "OK" /\ e.decision \in FRESHNESS_DECISIONS
    BY <2>1, <2>4, AppliedRuntime DEF Judged
  <2> HIDE DEF e
  <2>6. accept_heartbeat_result(sup, Heartbeat(f, e, 0)) \in MCXN947_RESULTS
    BY DEF accept_heartbeat_result, MCXN947_RESULTS
  <2> QED BY <2>5, <2>6 DEF e, d
<1>4. ASSUME NEW f \in medium, NEW at \in Flips
      PROVE  Stages(Decoded(f, at), SignatureOf(f), "VERIFIED", "COMPATIBLE").result
               \in NODE_LINK_RESULTS \cup AUTH_RESULTS \cup SEMANTIC_RESULTS
                   \cup FRESHNESS_RESULTS
  <2> DEFINE d == Decoded(f, at)
  <2>1. Sendable(f) /\ RuntimeOf(rt)
    BY DEF PathInv
  <2>2. d = node_link_decode(Flipped(node_link_encode(f), at))
    BY <2>1, DecodedIs DEF Sendable
  <2>3. d.result \in NODE_LINK_RESULTS /\ (d.result = "OK" => Framed(d.frame))
    BY <2>2, DecodedIsFramed
  <2> HIDE DEF d
  <2>4. Stages(d, SignatureOf(f), "VERIFIED", "COMPATIBLE").result
          \in NODE_LINK_RESULTS \cup AUTH_RESULTS \cup SEMANTIC_RESULTS \cup FRESHNESS_RESULTS
    BY <2>1, <2>3, StagesFacts
  <2> QED BY <2>4 DEF d
<1>5. HeartbeatTypeOK
  BY <1>1, <1>2, <1>3, <1>4, Zenon DEF HeartbeatTypeOK, PathInv, AdapterInv
<1>6. HeardAsSent
  <2>1. heartbeats \in Seq(medium)
    BY DEF PathInv, HeardInv
  <2>2. \A i \in DOMAIN heartbeats : heartbeats[i] \in medium
    BY <2>1
  <2> QED BY <2>2 DEF PathInv, HeardInv, HeardAsSent
<1> QED BY <1>5, <1>6 DEF PathSound

LEMMA SupervisorConfigured ==
  ASSUME NEW self \in SelfNodes
  PROVE  supervisor_configure(supervisor_init, self, MissedLimit) \in Supervisors
<1>1. self.node_id \in Nat /\ MissedLimit \in Nat /\ UINT32_MAX \in Nat
  BY HeartbeatConstants, UInt32Assumption
<1>2. supervisor_init \in Supervisors
  BY <1>1 DEF supervisor_init, Supervisors, MCXN947_STATES
<1>3. [supervisor_init EXCEPT !.self = self.node_id, !.limit = MissedLimit] \in Supervisors
  BY <1>1, <1>2 DEF Supervisors
<1> QED BY <1>2, <1>3 DEF supervisor_configure

LEMMA SupervisorMisses ==
  ASSUME sup \in Supervisors
  PROVE  note_missed_heartbeat(sup) \in Supervisors
<1> DEFINE missed == IF sup.missed < UINT32_MAX THEN sup.missed + 1 ELSE sup.missed
<1>1. missed \in 0..UINT32_MAX
  BY UInt32Assumption DEF Supervisors
<1> HIDE DEF missed
<1>2. CASE sup.limit = 0
  BY <1>2 DEF note_missed_heartbeat
<1>3. CASE sup.limit # 0
  <2> DEFINE recovery == sup.recovery \/ missed >= sup.limit
             state == IF missed >= sup.limit THEN "SAFE_HOLD"
                      ELSE IF sup.state = "MONITORING" THEN "DEGRADED" ELSE sup.state
  <2>1. note_missed_heartbeat(sup)
        = [sup EXCEPT !.missed = missed, !.recovery = recovery, !.state = state]
    BY <1>3 DEF note_missed_heartbeat, missed, Supervisors
  <2>2. recovery \in BOOLEAN /\ state \in MCXN947_STATES
    BY DEF Supervisors, MCXN947_STATES
  <2> HIDE DEF recovery, state
  <2> QED BY <1>1, <2>1, <2>2 DEF Supervisors
<1> QED BY <1>2, <1>3

LEMMA SupervisorHears ==
  ASSUME sup \in Supervisors, NEW f, Sendable(f), NEW e, NEW disagreement \in 0..1
  PROVE  accept_heartbeat(sup, Heartbeat(f, e, disagreement)) \in Supervisors
<1> DEFINE h == Heartbeat(f, e, disagreement)
<1>1. h.epoch = f.epoch /\ h.sequence = f.sequence
  BY DEF Heartbeat
<1>2. f.epoch \in Nat /\ f.sequence \in 0..UINT32_MAX
  <2>1. f.sequence \in 1..UINT32_MAX /\ f.epoch \in Epochs
    BY DEF Sendable, Frames
  <2>2. f.epoch \in 0..UINT32_MAX
    BY <2>1, HeartbeatConstants
  <2> QED BY <2>1, <2>2, UInt32Assumption
<1> HIDE DEF h
<1> DEFINE state == IF h.healthy # 1 \/ h.disagreement = 1 THEN "DEGRADED" ELSE "MONITORING"
<1>3. state \in MCXN947_STATES /\ 0 \in 0..UINT32_MAX
  BY UInt32Assumption DEF MCXN947_STATES
<1>4. \/ accept_heartbeat(sup, h) = sup
      \/ accept_heartbeat(sup, h)
         = [sup EXCEPT !.epoch = f.epoch, !.sequence = f.sequence, !.initialized = TRUE,
                       !.missed = 0, !.recovery = FALSE, !.state = state]
  BY <1>1 DEF accept_heartbeat
<1> HIDE DEF state
<1>5. accept_heartbeat(sup, h) \in Supervisors
  BY <1>2, <1>3, <1>4 DEF Supervisors
<1> QED BY <1>5 DEF h

\* A start of the adapter.
LEMMA AdapterStarts ==
  ASSUME NEW epoch \in Epochs
  PROVE  LET a == adapter_init(NodeId, epoch)
         IN /\ a \in Adapters /\ a.state = NODE_STATE.BOOT
            /\ a.initialized => a.node = NodeId /\ a.epoch \in Epochs \ {0}
<1>1. epoch \in Nat /\ UINT32_MAX \in Nat \ {0} /\ HEARTBEAT_MS \in Nat
  <2>1. epoch \in 0..UINT32_MAX /\ HEARTBEAT_MS \in Nat
    BY HeartbeatConstants
  <2> QED BY <2>1, UInt32Assumption
<1>2. NodeId = 1 /\ NODE_STATE.BOOT = 0
  BY DEF NodeId, NODE_STATE
<1>3. 1 \in 1..UINT32_MAX /\ 0 \in 0..HEARTBEAT_MS /\ 0 \in 0..5
  BY <1>1
<1>4. Uninitialized \in Adapters /\ Uninitialized.initialized = FALSE
      /\ Uninitialized.state = NODE_STATE.BOOT
  BY <1>1, <1>2, <1>3 DEF Uninitialized, Adapters
<1>5. CASE epoch = 0
  BY <1>4, <1>5 DEF adapter_init
<1>6. CASE epoch # 0
  <2>1. adapter_init(NodeId, epoch)
        = [Uninitialized EXCEPT !.node = NodeId, !.epoch = epoch, !.initialized = TRUE]
    BY <1>2, <1>6 DEF adapter_init
  <2> DEFINE a == adapter_init(NodeId, epoch)
  <2> HIDE DEF Uninitialized, a
  <2>2. a = [Uninitialized EXCEPT !.node = NodeId, !.epoch = epoch, !.initialized = TRUE]
    BY <2>1 DEF a
  <2>3. NodeId \in Nat
    BY <1>2
  <2>4. /\ a \in Adapters /\ a.state = Uninitialized.state /\ a.node = NodeId
        /\ a.epoch = epoch
    BY <1>1, <1>4, <2>2, <2>3 DEF Adapters
  <2> QED BY <1>4, <1>6, <2>4 DEF a
<1> QED BY <1>5, <1>6

\* Everything but the sender keeps the invariant when only the medium grows.
LEMMA SenderSteps ==
  ASSUME PathInv, AdapterInv', medium \subseteq medium', \A f \in medium' : Sendable(f),
         UNCHANGED <<rt, sup, heartbeats>>
  PROVE  PathInv'
<1>1. heartbeats' \in Seq(medium')
  <2>1. heartbeats \in Seq(medium)
    BY DEF PathInv, HeardInv
  <2> QED BY <2>1
<1>2. HeardInv'
  BY <1>1 DEF PathInv, HeardInv
<1>3. RuntimeOf(rt')
  BY DEF PathInv
<1> QED BY <1>2, <1>3 DEF PathInv

\* A frame that goes out is one the F401 may send, and its number is used up
\* only when the transport says so.
LEMMA SendStep ==
  ASSUME PathInv, NEW type \in {NL_MESSAGE.HELLO, NL_MESSAGE.HEARTBEAT}, NEW left \in BOOLEAN,
         NEW reported \in BOOLEAN, NEW elapsed \in 0..HEARTBEAT_MS,
         Send(type, left, reported, elapsed), UNCHANGED <<rt, sup, heartbeats>>
  PROVE  PathInv'
<1>1. /\ adapter \in Adapters /\ adapter.state \in SenderStates \cup {NODE_STATE.BOOT}
      /\ adapter.initialized => adapter.node = NodeId /\ adapter.epoch \in Epochs \ {0}
  BY DEF PathInv, AdapterInv
<1>2. adapter.initialized /\ ~adapter.exhausted
  BY <1>1 DEF Send, send_precheck, Adapters
<1>3. Sendable(FrameOf(adapter, type))
  <2>1. /\ adapter.state \in 0..5 /\ adapter.next_sequence \in 1..UINT32_MAX
        /\ adapter.node = NodeId /\ adapter.epoch \in Epochs /\ adapter.epoch # 0
    BY <1>1, <1>2 DEF Adapters
  <2> QED BY <1>1, <2>1 DEF Sendable, Frames, FrameOf
<1>4. medium \subseteq medium' /\ \A f \in medium' : Sendable(f)
  BY <1>3 DEF Send, PathInv
<1>5. AdapterInv'
  <2> DEFINE a == sent_adapter(adapter, reported)
  <2>1. adapter' = [a EXCEPT !.elapsed = elapsed]
    BY DEF Send
  <2>2. adapter.next_sequence \in 1..UINT32_MAX /\ UINT32_MAX \in Nat
    BY <1>1, UInt32Assumption DEF Adapters
  <2>3. /\ a \in Adapters /\ a.state = adapter.state /\ a.initialized = adapter.initialized
        /\ a.node = adapter.node /\ a.epoch = adapter.epoch
    <3>1. CASE ~reported
      BY <1>1, <3>1 DEF sent_adapter
    <3>2. CASE reported /\ adapter.next_sequence = UINT32_MAX
      BY <1>1, <3>2 DEF sent_adapter, Adapters
    <3>3. CASE reported /\ adapter.next_sequence # UINT32_MAX
      <4>1. adapter.next_sequence + 1 \in 1..UINT32_MAX
        BY <2>2, <3>3
      <4>2. a = [adapter EXCEPT !.next_sequence = adapter.next_sequence + 1]
        BY <1>1, <3>3 DEF sent_adapter, Adapters
      <4> QED BY <1>1, <4>1, <4>2 DEF Adapters
    <3> QED BY <3>1, <3>2, <3>3
  <2> HIDE DEF a
  <2>4. /\ adapter' \in Adapters /\ adapter'.state = adapter.state
        /\ adapter'.initialized = adapter.initialized
        /\ adapter'.node = adapter.node /\ adapter'.epoch = adapter.epoch
    BY <2>1, <2>3 DEF Adapters
  <2> QED BY <1>1, <2>4 DEF AdapterInv
<1> QED BY <1>4, <1>5, SenderSteps

\* What the F401's application does apart from sending.
LEMMA AdapterStep ==
  ASSUME PathInv,
         \/ Tick \/ SetTransport \/ (\E s \in SenderStates : SetNodeState(s)) \/ Crash
         \/ \E e \in Epochs : RestartSender(e)
  PROVE  PathInv'
<1>1. /\ adapter \in Adapters /\ adapter.state \in SenderStates \cup {NODE_STATE.BOOT}
      /\ adapter.initialized => adapter.node = NodeId /\ adapter.epoch \in Epochs \ {0}
  BY DEF PathInv, AdapterInv
<1>2. medium' = medium /\ UNCHANGED <<rt, sup, heartbeats>> /\ \A f \in medium : Sendable(f)
  BY DEF Tick, SetTransport, SetNodeState, Crash, RestartSender, PathInv
<1>3. AdapterInv'
  <2>1. CASE Tick
    <3>1. adapter.elapsed + 1 \in 0..HEARTBEAT_MS
      BY <1>1, <2>1, HeartbeatConstants DEF Tick, Adapters
    <3>2. adapter' = [adapter EXCEPT !.elapsed = adapter.elapsed + 1]
      BY <1>1, <2>1 DEF Tick, Adapters
    <3> QED BY <1>1, <3>1, <3>2 DEF AdapterInv, Adapters
  <2>2. CASE SetTransport
    BY <1>1, <2>2 DEF SetTransport, AdapterInv, Adapters
  <2>3. ASSUME NEW s \in SenderStates, SetNodeState(s) PROVE AdapterInv'
    <3>1. s \in 0..5
      BY <2>3, HeartbeatConstants DEF SetNodeState, f401_nodelink_state_valid, NODE_STATE
    <3>2. adapter' = [adapter EXCEPT !.state = s]
      BY <2>3 DEF SetNodeState
    <3> QED BY <1>1, <3>1, <3>2 DEF AdapterInv, Adapters
  <2>4. CASE Crash
    BY <1>1, <2>4 DEF Crash, AdapterInv
  <2>5. ASSUME NEW e \in Epochs, RestartSender(e) PROVE AdapterInv'
    <3>1. adapter' = adapter_init(NodeId, e)
      BY <2>5 DEF RestartSender
    <3> QED BY <3>1, AdapterStarts DEF AdapterInv
  <2> QED BY <2>1, <2>2, <2>3, <2>4, <2>5
<1> QED BY <1>2, <1>3, SenderSteps

\* A frame is heard: whatever arrives, only what was sent and is fresh counts.
LEMMA HearStep ==
  ASSUME PathInv, NEW f \in medium, NEW d, NEW k, NEW c, NEW disagreement \in 0..1,
         d.result \in NODE_LINK_RESULTS, d.result = "OK" => Framed(d.frame),
         HearFrame(d, SignatureOf(f), k, c, disagreement)
  PROVE  PathInv'
<1> DEFINE e == Stages(d, SignatureOf(f), k, c)
           h == Heartbeat(d.frame, e, disagreement)
           beats == d.frame.type = NL_MESSAGE.HEARTBEAT
<1>1. Sendable(f) /\ RuntimeOf(rt) /\ sup \in Supervisors
  BY DEF PathInv
<1>2. \/ UNCHANGED heartbeatVars
      \/ /\ e.result = "OK" /\ rt' = freshness_apply(rt, e)
         /\ sup' = (IF beats THEN accept_heartbeat(sup, h) ELSE sup)
         /\ heartbeats' = (IF beats /\ accept_heartbeat_result(sup, h) = "OK"
                             THEN Append(heartbeats, d.frame) ELSE heartbeats)
         /\ UNCHANGED <<adapter, alive, medium, restarts>>
  BY Zenon DEF HearFrame
<1>3. CASE UNCHANGED heartbeatVars
  BY <1>3 DEF heartbeatVars, PathInv, AdapterInv, HeardInv
<1>4. CASE /\ e.result = "OK" /\ rt' = freshness_apply(rt, e)
           /\ sup' = (IF beats THEN accept_heartbeat(sup, h) ELSE sup)
           /\ heartbeats' = (IF beats /\ accept_heartbeat_result(sup, h) = "OK"
                               THEN Append(heartbeats, d.frame) ELSE heartbeats)
           /\ UNCHANGED <<adapter, alive, medium, restarts>>
  <2>1. d.frame = f /\ e = Judged(f)
    BY <1>1, <1>4, StagesFacts
  <2> HIDE DEF e
  <2>2. sup' \in Supervisors
    <3>1. accept_heartbeat(sup, h) \in Supervisors
      BY <1>1, <2>1, SupervisorHears
    <3> QED BY <1>1, <1>4, <3>1
  <2>3. /\ RuntimeOf(rt') /\ rt'.condition = rt.condition
        /\ rt'.accepted_epoch = rt.accepted_epoch
        /\ e.decision = "ACCEPT" =>
             /\ rt.condition = "ACTIVE" /\ f.epoch = rt.accepted_epoch
             /\ f.sequence > rt.accepted_sequence /\ rt'.accepted_sequence = f.sequence
        /\ e.decision # "ACCEPT" => rt' = rt
    BY <1>1, <1>4, <2>1, AppliedRuntime
  <2>4. /\ heartbeats \in Seq(medium)
        /\ \A i, j \in DOMAIN heartbeats :
             i < j /\ heartbeats[i].epoch = heartbeats[j].epoch
               => heartbeats[i].sequence < heartbeats[j].sequence
        /\ rt.condition = "ACTIVE" =>
             \A i \in DOMAIN heartbeats :
               /\ heartbeats[i].epoch = rt.accepted_epoch
               /\ heartbeats[i].sequence <= rt.accepted_sequence
    BY DEF PathInv, HeardInv
  <2>5. /\ \A i \in DOMAIN heartbeats : heartbeats[i].sequence \in Nat
        /\ f.sequence \in Nat /\ rt.accepted_sequence \in Nat
    <3>1. \A i \in DOMAIN heartbeats : heartbeats[i] \in medium
      BY <2>4
    <3>2. \A g \in medium : g.sequence \in 1..UINT32_MAX
      BY DEF PathInv, Sendable, Frames
    <3>3. rt.accepted_sequence \in 0..UINT32_MAX
      BY <1>1, RuntimeFacts DEF FreshnessRuntimes
    <3> QED BY <3>1, <3>2, <3>3, UInt32Assumption
  <2>6. HeardInv'
    <3>1. CASE heartbeats' = Append(heartbeats, f) /\ e.decision = "ACCEPT"
      <4>1. /\ heartbeats' \in Seq(medium) /\ DOMAIN heartbeats = 1..Len(heartbeats)
            /\ Len(heartbeats) \in Nat /\ DOMAIN heartbeats' = 1..(Len(heartbeats) + 1)
            /\ heartbeats'[Len(heartbeats) + 1] = f
            /\ \A i \in 1..Len(heartbeats) : heartbeats'[i] = heartbeats[i]
        BY <2>4, <3>1
      <4> DEFINE n == Len(heartbeats)
      <4> HIDE DEF n
      <4>2. \A i \in 1..n : heartbeats[i].epoch = f.epoch /\ heartbeats[i].sequence < f.sequence
        BY <2>3, <2>4, <2>5, <3>1, <4>1 DEF n
      <4>3. ASSUME NEW i \in DOMAIN heartbeats', NEW j \in DOMAIN heartbeats', i < j,
                   heartbeats'[i].epoch = heartbeats'[j].epoch
            PROVE  heartbeats'[i].sequence < heartbeats'[j].sequence
        <5>1. i \in 1..n /\ (j \in 1..n \/ j = n + 1)
          BY <4>1, <4>3 DEF n
        <5> QED BY <2>4, <4>1, <4>2, <4>3, <5>1 DEF n
      <4>4. ASSUME NEW i \in DOMAIN heartbeats'
            PROVE  /\ heartbeats'[i].epoch = rt'.accepted_epoch
                   /\ heartbeats'[i].sequence <= rt'.accepted_sequence
        <5>1. i \in 1..n \/ i = n + 1
          BY <4>1 DEF n
        <5> QED BY <2>3, <2>5, <3>1, <4>1, <4>2, <5>1 DEF n
      <4>5. medium' = medium
        BY <1>4
      <4> QED BY <4>1, <4>3, <4>4, <4>5 DEF HeardInv
    <3>2. CASE heartbeats' = heartbeats
      <4>1. rt.condition = "ACTIVE" => rt'.accepted_sequence >= rt.accepted_sequence
        BY <2>3, <2>5
      <4>2. rt'.accepted_sequence \in Nat
        BY <2>3, <2>5
      <4>3. medium' = medium
        BY <1>4
      <4> QED BY <2>3, <2>4, <2>5, <3>2, <4>1, <4>2, <4>3 DEF HeardInv
    <3>3. beats /\ accept_heartbeat_result(sup, h) = "OK" => e.decision = "ACCEPT"
      <4>1. h.fresh = (e.decision = "ACCEPT")
        BY DEF Heartbeat
      <4> HIDE DEF h
      <4>2. accept_heartbeat_result(sup, h) = "OK" => h.fresh
        BY DEF accept_heartbeat_result
      <4> QED BY <4>1, <4>2
    <3> QED BY <1>4, <2>1, <3>1, <3>2, <3>3
  <2>7. AdapterInv' /\ \A g \in medium' : Sendable(g)
    BY <1>4 DEF PathInv, AdapterInv
  <2> QED BY <2>2, <2>3, <2>6, <2>7 DEF PathInv
<1> QED BY <1>2, <1>3, <1>4

\* The receiver's freshness state after a restart: what it was, or nothing.
LEMMA RecoveredRuntime ==
  ASSUME NEW status, NEW record, record.accepted_epoch \in Nat,
         record.accepted_sequence \in 0..UINT32_MAX
  PROVE  LET r == recovered(status, record)
         IN /\ RuntimeOf(r)
            /\ r.condition = "ACTIVE" =>
                 /\ r.accepted_epoch = record.accepted_epoch
                 /\ r.accepted_sequence = record.accepted_sequence
                 /\ record.identity = PeerIdentity
<1> DEFINE c == persistence_classify(status, record, PeerIdentity)
           candidate == restore_runtime_from_record(record)
           r == recovered(status, record)
           start == freshness_runtime_init
<1>0. start \in FreshnessRuntimes
  BY RuntimeFacts DEF RuntimeOf
<1> HIDE DEF start
<1>1. /\ candidate.condition = "ACTIVE" /\ candidate.identity = record.identity
      /\ candidate.accepted_epoch = record.accepted_epoch
      /\ candidate.accepted_sequence = record.accepted_sequence
      /\ candidate = [start EXCEPT !.condition = "ACTIVE", !.identity = record.identity,
                                    !.accepted_epoch = record.accepted_epoch,
                                    !.accepted_sequence = record.accepted_sequence]
  <2>1. candidate = [start EXCEPT !.condition = "ACTIVE", !.identity = record.identity,
                                  !.accepted_epoch = record.accepted_epoch,
                                  !.accepted_sequence = record.accepted_sequence]
    BY DEF restore_runtime_from_record, start
  <2> HIDE DEF candidate
  <2> QED BY <1>0, <2>1 DEF FreshnessRuntimes
<1>2. CASE r = freshness_runtime_init
  <2>1. r.condition = "UNINITIALIZED"
    BY <1>2 DEF freshness_runtime_init
  <2> QED BY <1>2, <2>1 DEF RuntimeOf
<1>3. CASE r # freshness_runtime_init
  <2>1. r = candidate /\ c.result = "OK" /\ c.class = "VALIDATED_RECORD_CANDIDATE"
    BY <1>3, Zenon DEF recovered
  <2>2. /\ record.identity = PeerIdentity /\ record.accepted_epoch # 0
        /\ record.accepted_sequence # 0
    BY <2>1 DEF persistence_classify, Rejected, identity_equal
  <2>3. "ACTIVE" \in FRESHNESS_CONDITIONS /\ 0 \in 0..UINT32_MAX
    BY UInt32Assumption DEF FRESHNESS_CONDITIONS
  <2>4. candidate \in FreshnessRuntimes
    <3>1. /\ record.identity \in [sender : Nat, producer : Nat, key : Nat, algorithm : Nat,
                                  producer_profile : SemanticRefs,
                                  consumer_profile : SemanticRefs, contract : SemanticRefs]
      BY <2>2, PeerIdentityFacts
    <3> HIDE DEF candidate
    <3> QED BY <1>0, <1>1, <2>3, <3>1 DEF FreshnessRuntimes
  <2> HIDE DEF candidate, r
  <2> QED BY <1>1, <2>1, <2>2, <2>4 DEF RuntimeOf, r
<1> QED BY <1>2, <1>3

LEMMA RestartReceiverStep ==
  ASSUME PathInv, NEW self \in SelfNodes, NEW status, RestartReceiver(self, status)
  PROVE  PathInv'
<1>1. /\ sup' = supervisor_configure(supervisor_init, self, MissedLimit)
      /\ rt' = recovered(status, rt) /\ UNCHANGED <<adapter, medium, heartbeats>>
  BY DEF RestartReceiver
<1>2. sup' \in Supervisors
  BY <1>1, SupervisorConfigured
<1>3. RuntimeOf(rt)
  BY DEF PathInv
<1>4. rt.accepted_epoch \in Nat /\ rt.accepted_sequence \in 0..UINT32_MAX
  BY <1>3, RuntimeFacts DEF FreshnessRuntimes
<1>5. /\ RuntimeOf(rt')
      /\ rt'.condition = "ACTIVE" => /\ rt'.accepted_epoch = rt.accepted_epoch
                                     /\ rt'.accepted_sequence = rt.accepted_sequence
                                     /\ rt.identity = PeerIdentity
  BY <1>1, <1>4, RecoveredRuntime
<1>6. rt.identity = PeerIdentity => rt.condition = "ACTIVE"
  BY <1>3, PeerIdentityFacts DEF RuntimeOf, freshness_runtime_init
<1>7. HeardInv'
  BY <1>1, <1>5, <1>6 DEF PathInv, HeardInv
<1>8. AdapterInv' /\ \A f \in medium' : Sendable(f)
  BY <1>1 DEF PathInv, AdapterInv
<1> QED BY <1>2, <1>5, <1>7, <1>8 DEF PathInv

LEMMA PathInitInv ==
  ASSUME NEW epoch \in Epochs, NEW self \in SelfNodes, NEW status,
         HeartbeatStart(epoch, self, status)
  PROVE  PathInv
<1>1. /\ adapter = adapter_init(NodeId, epoch) /\ medium = {} /\ heartbeats = << >>
      /\ rt = recovered(status, FirstRecord(epoch))
      /\ sup = supervisor_configure(supervisor_init, self, MissedLimit)
  BY DEF HeartbeatStart
<1>2. AdapterInv
  BY <1>1, AdapterStarts DEF AdapterInv
<1>3. RuntimeOf(rt)
  <2>1. /\ FirstRecord(epoch).accepted_epoch \in Nat
        /\ FirstRecord(epoch).accepted_sequence \in 0..UINT32_MAX
    <3>1. epoch \in 0..UINT32_MAX
      BY HeartbeatConstants
    <3> QED BY <3>1, UInt32Assumption DEF FirstRecord
  <2> QED BY <1>1, <2>1, RecoveredRuntime
<1>4. sup \in Supervisors
  BY <1>1, SupervisorConfigured
<1>5. HeardInv
  BY <1>1 DEF HeardInv
<1> QED BY <1>1, <1>2, <1>3, <1>4, <1>5 DEF PathInv

LEMMA PathNextInv == PathInv /\ [HeartbeatNext]_heartbeatVars => PathInv'
<1> SUFFICES ASSUME PathInv, [HeartbeatNext]_heartbeatVars PROVE PathInv'
  OBVIOUS
<1>0. adapter \in Adapters /\ adapter.elapsed \in 0..HEARTBEAT_MS /\ 0 \in 0..HEARTBEAT_MS
  BY HeartbeatConstants DEF PathInv, AdapterInv, Adapters
<1>1. CASE SendHello
  BY <1>0, <1>1, SendStep DEF SendHello
<1>2. CASE Poll
  <2>1. PICK left \in BOOLEAN, reported \in BOOLEAN :
          Send(NL_MESSAGE.HEARTBEAT, left, reported, IF reported THEN 0 ELSE adapter.elapsed)
    BY <1>2 DEF Poll
  <2>2. (IF reported THEN 0 ELSE adapter.elapsed) \in 0..HEARTBEAT_MS
    BY <1>0
  <2>3. UNCHANGED <<rt, sup, heartbeats>>
    BY <1>2 DEF Poll
  <2> QED BY <2>1, <2>2, <2>3, SendStep
<1>3. CASE \/ Tick \/ SetTransport \/ (\E s \in SenderStates : SetNodeState(s)) \/ Crash
           \/ \E e \in Epochs : RestartSender(e)
  BY <1>3, AdapterStep
<1>4. CASE DeliverFrame
  <2>1. PICK f \in medium, k \in KeyStates, c \in CompatStates, disagreement \in 0..1 :
          HearFrame(Decoded(f, Intact), SignatureOf(f), k, c, disagreement)
    BY <1>4 DEF DeliverFrame
  <2>2. Decoded(f, Intact) = node_link_decode(Flipped(node_link_encode(f), Intact))
    BY DecodedIs DEF PathInv, Sendable
  <2> QED BY <2>1, <2>2, DecodedIsFramed, HearStep
<1>5. CASE DeliverCorrupted
  <2>1. PICK f \in medium, at \in Flips :
          HearFrame(Decoded(f, at), SignatureOf(f), "VERIFIED", "COMPATIBLE", 0)
    BY <1>5 DEF DeliverCorrupted
  <2>2. Decoded(f, at) = node_link_decode(Flipped(node_link_encode(f), at))
    BY DecodedIs DEF PathInv, Sendable
  <2>3. 0 \in 0..1
    OBVIOUS
  <2> QED BY <2>1, <2>2, <2>3, DecodedIsFramed, HearStep
<1>6. CASE NoteMissed
  <2>1. sup' \in Supervisors
    BY <1>6, SupervisorMisses DEF NoteMissed, PathInv
  <2> QED BY <1>6, <2>1 DEF NoteMissed, PathInv, AdapterInv, HeardInv
<1>7. CASE \E self \in SelfNodes, status \in RecordStatus : RestartReceiver(self, status)
  BY <1>7, RestartReceiverStep
<1>8. CASE UNCHANGED heartbeatVars
  BY <1>8 DEF heartbeatVars, PathInv, AdapterInv, HeardInv
<1> QED BY <1>1, <1>2, <1>3, <1>4, <1>5, <1>6, <1>7, <1>8 DEF HeartbeatNext

\* Old frames never release the hold: only a heartbeat that is appended does.
LEMMA HoldStep ==
  ASSUME PathInv, [HeartbeatNext]_heartbeatVars,
         sup.state = "SAFE_HOLD", sup'.state \in {"MONITORING", "DEGRADED"}
  PROVE  Len(heartbeats') > Len(heartbeats)
<1>1. sup' # sup
  BY DEF PathInv, Supervisors
<1>2. heartbeats \in Seq(medium)
  BY DEF PathInv, HeardInv
<1>3. ASSUME NEW d, NEW g, NEW k, NEW c, NEW disagreement, HearFrame(d, g, k, c, disagreement)
      PROVE  Len(heartbeats') > Len(heartbeats)
  <2> DEFINE e == Stages(d, g, k, c)
             h == Heartbeat(d.frame, e, disagreement)
             beats == d.frame.type = NL_MESSAGE.HEARTBEAT
  <2>1. /\ sup' = (IF beats THEN accept_heartbeat(sup, h) ELSE sup)
        /\ heartbeats' = (IF beats /\ accept_heartbeat_result(sup, h) = "OK"
                            THEN Append(heartbeats, d.frame) ELSE heartbeats)
    BY <1>1, <1>3, Zenon DEF HearFrame, heartbeatVars
  <2> HIDE DEF h, e
  <2>2. beats /\ accept_heartbeat_result(sup, h) = "OK"
    BY <1>1, <2>1 DEF accept_heartbeat
  <2>3. heartbeats' = Append(heartbeats, d.frame)
    BY <2>1, <2>2
  <2>4. Len(heartbeats') = Len(heartbeats) + 1
    BY <1>2, <2>3
  <2> QED BY <1>2, <2>4
<1>4. CASE NoteMissed
  <2>1. sup' = note_missed_heartbeat(sup) /\ sup \in Supervisors
    BY <1>4 DEF NoteMissed, PathInv
  <2>2. note_missed_heartbeat(sup).state = "SAFE_HOLD"
    BY <2>1 DEF note_missed_heartbeat, Supervisors
  <2> QED BY <2>1, <2>2
<1>5. ASSUME NEW self \in SelfNodes, NEW status, RestartReceiver(self, status)
      PROVE  FALSE
  <2>1. sup' = supervisor_configure(supervisor_init, self, MissedLimit)
    BY <1>5 DEF RestartReceiver
  <2>2. supervisor_configure(supervisor_init, self, MissedLimit).state = "BOOTSTRAP"
    BY DEF supervisor_configure, supervisor_init
  <2> QED BY <2>1, <2>2
<1>6. \/ DeliverFrame \/ DeliverCorrupted \/ NoteMissed
      \/ \E self \in SelfNodes, status \in RecordStatus : RestartReceiver(self, status)
  BY <1>1 DEF HeartbeatNext, heartbeatVars, SendHello, Poll, Tick, SetTransport, SetNodeState,
              Crash, RestartSender
<1> QED BY <1>3, <1>4, <1>5, <1>6 DEF DeliverFrame, DeliverCorrupted

\* The inductive invariant of the heartbeat path, whatever the machine does: the
\* receiver's state is for the one peer, and all that was heard lies behind it.
THEOREM PathInvariant == NodeSpec => []PathInv
<1>1. NodeInit => PathInv
  <2> SUFFICES ASSUME NodeInit PROVE PathInv
    OBVIOUS
  <2>1. CASE HeartbeatInit
    BY <2>1, PathInitInv DEF HeartbeatInit
  <2>2. CASE HeartbeatStart(CHOOSE e \in Epochs : TRUE, CHOOSE n \in SelfNodes : TRUE,
                            CHOOSE s \in RecordStatus : TRUE)
    <3>1. (CHOOSE e \in Epochs : TRUE) \in Epochs /\ (CHOOSE n \in SelfNodes : TRUE) \in SelfNodes
      BY HeartbeatConstants
    <3> QED BY <2>2, <3>1, PathInitInv
  <2> QED BY <2>1, <2>2 DEF NodeInit
<1>2. PathInv /\ [NodeNext]_<<part, vars, heartbeatVars>> => PathInv'
  <2>1. [NodeNext]_<<part, vars, heartbeatVars>> => [HeartbeatNext]_heartbeatVars
    BY DEF NodeNext
  <2> QED BY <2>1, PathNextInv
<1> QED BY <1>1, <1>2, PTL DEF NodeSpec

\* Both nodes' records are well formed, every frame that arrives intact is
\* judged, and what the supervisor accepts was sent, once and in order, whatever
\* the medium and the restarts do (guardian_node_link_decode,
\* guardian_node_link_freshness_evaluate, guardian_mcxn947_supervisor_accept_heartbeat).
THEOREM HeartbeatsAreSound == NodeSpec => []PathSound
BY PathInvariant, PathSoundFromInv, PTL

\* The supervisor leaves SAFE_HOLD only with a heartbeat it had not heard
\* (guardian_mcxn947_supervisor_accept_heartbeat).
THEOREM HoldIsReleasedByNews == NodeSpec => HoldReleasedByNews
<1>1. PathInv /\ [NodeNext]_<<part, vars, heartbeatVars>>
        => [sup.state = "SAFE_HOLD" /\ sup'.state \in {"MONITORING", "DEGRADED"}
              => Len(heartbeats') > Len(heartbeats)]_heartbeatVars
  <2>1. [NodeNext]_<<part, vars, heartbeatVars>> => [HeartbeatNext]_heartbeatVars
    BY DEF NodeNext
  <2> QED BY <2>1, HoldStep
<1> QED BY <1>1, PathInvariant, PTL DEF NodeSpec, HoldReleasedByNews

-----------------------------------------------------------------------------
(* The machine of the node, whatever its heartbeats do.                    *)

LEMMA MachineOfNode ==
  /\ NodeInit => Init
  /\ [NodeNext]_<<part, vars, heartbeatVars>> => [Next]_vars
<1>1. NodeInit => Init
  BY DEF NodeInit
<1>2. [NodeNext]_<<part, vars, heartbeatVars>> => [Next]_vars
  BY DEF NodeNext
<1> QED BY <1>1, <1>2

\* Both parts of the node keep their inductive invariants, whichever of the two
\* takes its step (the main loop and the heartbeat path share no state).
THEOREM NodeInvariant == NodeSpec => [](IInv /\ PathInv)
BY MachineOfNode, InitInv, NextInv, PathInvariant, PTL DEF NodeSpec

\* The output of the supervised node is justified as the device's is.
THEOREM NodeOutputIsJustified == NodeSpec => []OutputJustified
BY NodeInvariant, OutputFromInv, PTL

\* The node starts, latches and recovers as the device does.
THEOREM NodeLatchesHold == NodeSpec => LatchesHold
BY MachineOfNode, NodeInvariant, LatchSteps, PTL
   DEF NodeSpec, LatchesHold, OnlyLocalStart, FaultsStayLatched, RecoveryIsPersistent,
       StartStep, FaultStep, RecoveryStep
=============================================================================
