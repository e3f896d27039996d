------------------------------- MODULE Health -------------------------------
(***************************************************************************)
(* guardian_health.c: explicit baseline learning, then scoring of feature  *)
(* blocks with hysteresis.                                                 *)
(*                                                                         *)
(* The floating-point statistics (Welford, sigma floors, weights) are left *)
(* out: of a block only its verdict counts, the band in which the largest  *)
(* weighted deviation lies.  "calm" is below RECOVERY_Z, "raised" between  *)
(* RECOVERY_Z and WARNING_Z, "mild" between WARNING_Z and ALARM_Z and      *)
(* "severe" from ALARM_Z on.  Scores and rejection counters are not kept.  *)
(***************************************************************************)
EXTENDS Integers

CONSTANTS
  MinSamples, MaxSamples,   \* GUARDIAN_HEALTH_BASELINE_MIN/MAX_SAMPLES
  SampleRates,              \* sample rates a block may have, zero excluded
  WarningStreak, AlarmStreak, RecoveryStreak,
  StreakCap                 \* 255: an unsigned 8-bit counter that saturates

ASSUME HealthAssumption ==
  /\ MinSamples \in Nat \ {0} /\ MaxSamples \in Nat /\ MinSamples <= MaxSamples
  /\ SampleRates \subseteq Nat \ {0}
  /\ WarningStreak \in Nat \ {0} /\ AlarmStreak \in Nat \ {0} /\ RecoveryStreak \in Nat \ {0}
  /\ StreakCap \in Nat
  /\ WarningStreak <= StreakCap /\ AlarmStreak <= StreakCap /\ RecoveryStreak <= StreakCap

Bands == {"calm", "raised", "mild", "severe"}

HealthStates == {"UNTRAINED", "LEARNING", "READY", "WARNING", "ALARM"}

Scoring == {"READY", "WARNING", "ALARM"}

\* A DSP feature block; rate 0 stands for every reason to call it invalid.
Features == [rate : SampleRates \cup {0}, band : Bands]

HealthModel == [state : HealthStates, samples : 0 .. MaxSamples, target : 0 .. MaxSamples,
                rate : SampleRates \cup {0}, anomalous : 0 .. StreakCap, recovery : 0 .. StreakCap]

health_reset ==
  [state |-> "UNTRAINED", samples |-> 0, target |-> 0, rate |-> 0, anomalous |-> 0, recovery |-> 0]

\* A target out of range leaves the model alone (the request is an error).
baseline_accepts(n) == n \in MinSamples .. MaxSamples

start_baseline(n) == [health_reset EXCEPT !.state = "LEARNING", !.target = n]

learn(h, f) ==
  [h EXCEPT !.rate = IF h.samples = 0 THEN f.rate ELSE @,
            !.samples = @ + 1,
            !.state = IF h.samples + 1 >= h.target THEN "READY" ELSE @]

saturated(n) == IF n = StreakCap THEN n ELSE n + 1

\* The state that a scored block leads to, given the streaks after counting it.
scored_state(s, band, anomalous, recovery) ==
  IF band = "severe" /\ anomalous >= AlarmStreak THEN "ALARM"
  ELSE IF band = "severe" /\ s = "READY" THEN "WARNING"
  ELSE IF band = "mild" /\ anomalous >= WarningStreak /\ s # "ALARM" THEN "WARNING"
  ELSE IF band = "calm" /\ recovery >= RecoveryStreak THEN "READY"
  ELSE s

score(h, f) ==
  LET anomalous == IF f.band \in {"mild", "severe"} THEN saturated(h.anomalous) ELSE 0
      recovery == IF f.band = "calm" THEN saturated(h.recovery) ELSE 0
  IN  [h EXCEPT !.state = scored_state(@, f.band, anomalous, recovery),
                !.anomalous = anomalous, !.recovery = recovery]

\* Invalid blocks and blocks of another sample rate are counted and dropped.
rejected(h, f) == f.rate = 0 \/ (h.rate # 0 /\ f.rate # h.rate)

ingest(h, f) ==
  IF rejected(h, f) \/ h.state = "UNTRAINED" THEN h
  ELSE IF h.state = "LEARNING" THEN learn(h, f)
  ELSE score(h, f)

=============================================================================
