---------------------------- MODULE Measurement ----------------------------
(***************************************************************************)
(* The measurement node and the processing node of the multi-node system:  *)
(*   firmware/MultiNode/Src/guardian_st_measurement_node.c                 *)
(*   firmware/MultiNode/Src/guardian_high_compute_node.c                   *)
(* Values are kept in thousandths, as in the code.  The 64-bit accumulators*)
(* of the code cannot overflow (16 samples of at most 100000), so they are *)
(* plain integers here.                                                    *)
(***************************************************************************)
EXTENDS MultiNodeRegistry, FiniteSetsExt

CONSTANTS SAMPLE_COUNT_MAX,  \* UINT32_MAX, where the sample counters stop
          Samples,           \* what the sensor hands to the measurement node
          Windows,           \* what the processing node is asked to analyse
          MeasurementSelf, ComputeSelf,   \* the two registered nodes
          MeasurementPolicy, ComputePolicy

ASSUME MeasurementConstants == SAMPLE_COUNT_MAX \in Nat \ {0}

VARIABLES st,            \* guardian_st_measurement_node_t
          observations,  \* history: the observations handed out, in order
          hc,            \* guardian_high_compute_node_t
          analysed,      \* the application's two windows analysed last
          fusion         \* the fusion of those two windows, or none yet

samplingVars == << st, observations >>
processingVars == << hc, analysed, fusion >>

ST_MEASUREMENT_MAX_QUALITY == 100
HIGH_COMPUTE_MAX_SAMPLES == 16
NORMALIZED_LIMIT_MILLI == 100000
CORRELATION_SCALE == 1000
HIGH_COMPUTE_MAX_QUALITY == 100

SIGNAL_TYPES == {"VIBRATION_X", "VIBRATION_Y", "VIBRATION_Z", "CURRENT", "VOLTAGE",
                 "SPEED", "PHASE", "TEMPERATURE", "ACOUSTIC_EMISSION", "TRANSIENT"}

ST_MEASUREMENT_RESULTS ==
  {"OK", "INVALID_NODE", "INVALID_POLICY", "INVALID_SAMPLE", "SEQUENCE_REGRESSION",
   "TIMESTAMP_REGRESSION", "OUT_OF_RANGE", "SATURATED", "QUALITY", "UNCERTAINTY"}
HIGH_COMPUTE_RESULTS ==
  {"OK", "INVALID_NODE", "INVALID_POLICY", "INVALID_WINDOW", "SEQUENCE_REGRESSION",
   "TIMESTAMP_REGRESSION", "OUT_OF_RANGE", "SATURATED", "QUALITY",
   "CORRELATION_UNDEFINED"}

(* guardian_st_measurement_sample_t: the signal type and the saturation    *)
(* flag are whatever the caller wrote.                                     *)
MeasurementSamples ==
  [sensor_id : Nat, signal_type : STRING, sequence : Nat, timestamp_us : Nat,
   value_milli : Int, valid_min_milli : Int, valid_max_milli : Int,
   uncertainty_milli : Nat, quality : 0 .. 255, saturated : 0 .. 255]
---------------------------------------------------------------------------
st_signal_type_valid(type) == type \in SIGNAL_TYPES

st_init == [initialized |-> FALSE, last_sequence |-> 0, last_timestamp_us |-> 0,
            accepted_samples |-> 0, rejected_samples |-> 0]

st_configure_result(self, policy) ==
  IF validate_node(self) # "OK" THEN "INVALID_NODE"
  ELSE IF \/ self.role # ST \/ self.authority_class # "OBSERVE"
          \/ "SENSOR_ACQUISITION" \notin self.capabilities
          \/ "ACTUATION_GATE" \in self.capabilities
    THEN "INVALID_NODE"
  ELSE IF \/ policy.max_uncertainty_milli = 0
          \/ policy.minimum_quality = 0
          \/ policy.minimum_quality > ST_MEASUREMENT_MAX_QUALITY
    THEN "INVALID_POLICY"
  ELSE "OK"

st_configure(node, self, policy) ==
  IF st_configure_result(self, policy) = "OK"
    THEN [st_init EXCEPT !.initialized = TRUE] ELSE node

st_validate_sample(node, sample) ==
  IF ~node.initialized THEN "INVALID_NODE"
  ELSE IF \/ 0 \in {sample.sensor_id, sample.sequence, sample.timestamp_us}
          \/ ~st_signal_type_valid(sample.signal_type)
          \/ sample.valid_min_milli > sample.valid_max_milli
          \/ sample.saturated > 1
          \/ sample.quality > ST_MEASUREMENT_MAX_QUALITY
    THEN "INVALID_SAMPLE"
  ELSE IF sample.saturated = 1 THEN "SATURATED"
  ELSE IF sample.value_milli \notin sample.valid_min_milli .. sample.valid_max_milli
    THEN "OUT_OF_RANGE"
  ELSE IF sample.quality < MeasurementPolicy.minimum_quality THEN "QUALITY"
  ELSE IF \/ sample.uncertainty_milli = 0
          \/ sample.uncertainty_milli > MeasurementPolicy.max_uncertainty_milli
    THEN "UNCERTAINTY"
  ELSE IF node.accepted_samples > 0 /\ sample.sequence <= node.last_sequence
    THEN "SEQUENCE_REGRESSION"
  ELSE IF node.accepted_samples > 0 /\ sample.timestamp_us <= node.last_timestamp_us
    THEN "TIMESTAMP_REGRESSION"
  ELSE "OK"

(* Mutant: the counters wrap.                                              *)
counted_wraps(n) == (n + 1) % (SAMPLE_COUNT_MAX + 1)

(* Both counters stop at UINT32_MAX.                                       *)
counted(n) == IF n < SAMPLE_COUNT_MAX THEN n + 1 ELSE n

st_accept_sample(node, sample) ==
  IF st_validate_sample(node, sample) = "OK"
    THEN [node EXCEPT !.last_sequence = sample.sequence,
                      !.last_timestamp_us = sample.timestamp_us,
                      !.accepted_samples = counted(@)]
    ELSE [node EXCEPT !.rejected_samples = counted(@)]

Observation(sample) ==
  [producer_node_id |-> MeasurementSelf.node_id, sequence |-> sample.sequence,
   timestamp_us |-> sample.timestamp_us, value_milli |-> sample.value_milli,
   actuation_authorized |-> FALSE]
---------------------------------------------------------------------------
(* guardian_high_compute_isqrt_u64: a bit of the root per turn, from the   *)
(* largest power of four of 64 bits that is not above the value.           *)
isqrt_bits[k \in -1 .. 31, value \in Nat, result \in Nat] ==
  IF k < 0 THEN result
  ELSE IF value >= result + 4^k
    THEN isqrt_bits[k - 1, value - result - 4^k, result \div 2 + 4^k]
  ELSE isqrt_bits[k - 1, value, result \div 2]

isqrt(value) ==
  isqrt_bits[IF value = 0 THEN -1 ELSE CHOOSE k \in 0 .. 31 : value \div 4^k \in 1 .. 3,
             value, 0]

(* C's division truncates towards zero.                                    *)
Truncated(a, b) == IF a >= 0 THEN a \div b ELSE -((-a) \div b)

Magnitude(a) == IF a >= 0 THEN a ELSE -a

window_basic_valid(w) ==
  /\ 0 \notin {w.subject_node_id, w.subject_producer_id, w.signal_id, w.epoch}
  /\ Len(w.samples) \in 2 .. HIGH_COMPUTE_MAX_SAMPLES
  /\ w.baseline_milli \in -NORMALIZED_LIMIT_MILLI .. NORMALIZED_LIMIT_MILLI

hc_init == [initialized |-> FALSE, accepted_windows |-> 0, rejected_windows |-> 0]

hc_configure_result(self, policy) ==
  IF validate_node(self) # "OK" THEN "INVALID_NODE"
  ELSE IF \/ self.role # HIGH_COMPUTE \/ self.authority_class # "OBSERVE"
          \/ "SIGNAL_PROCESSING" \notin self.capabilities
          \/ "ACTUATION_GATE" \in self.capabilities
    THEN "INVALID_NODE"
  ELSE IF \/ policy.minimum_quality \notin 1 .. HIGH_COMPUTE_MAX_QUALITY
          \/ policy.drift_threshold_milli \notin 1 .. NORMALIZED_LIMIT_MILLI
          \/ policy.minimum_correlation_milli \notin
               -CORRELATION_SCALE .. CORRELATION_SCALE
    THEN "INVALID_POLICY"
  ELSE "OK"

hc_configure(node, self, policy) ==
  IF hc_configure_result(self, policy) = "OK"
    THEN [hc_init EXCEPT !.initialized = TRUE] ELSE node

hc_sample_result(w, i) ==
  LET s == w.samples[i]
  IN IF 0 \in {s.sequence, s.timestamp_us} THEN "INVALID_WINDOW"
     ELSE IF s.normalized_milli \notin -NORMALIZED_LIMIT_MILLI .. NORMALIZED_LIMIT_MILLI
       THEN "OUT_OF_RANGE"
     ELSE IF s.saturated # 0 THEN "SATURATED"
     ELSE IF \/ s.quality \notin 1 .. HIGH_COMPUTE_MAX_QUALITY
             \/ s.quality < ComputePolicy.minimum_quality
       THEN "QUALITY"
     ELSE IF i > 1 /\ s.sequence <= w.samples[i - 1].sequence
       THEN "SEQUENCE_REGRESSION"
     ELSE IF i > 1 /\ s.timestamp_us <= w.samples[i - 1].timestamp_us
       THEN "TIMESTAMP_REGRESSION"
     ELSE "OK"

(* The first sample that is refused decides.                               *)
hc_analyze_result(node, w) ==
  LET bad == {i \in DOMAIN w.samples : hc_sample_result(w, i) # "OK"}
  IN IF ~node.initialized THEN "INVALID_NODE"
     ELSE IF ~window_basic_valid(w) THEN "INVALID_WINDOW"
     ELSE IF bad # {} THEN hc_sample_result(w, Min(bad))
     ELSE "OK"

Values(w) == [i \in DOMAIN w.samples |-> w.samples[i].normalized_milli]

SumOf(f) == FoldSet(LAMBDA i, acc : acc + f[i], 0, DOMAIN f)

hc_analysis(w) ==
  LET v == Values(w)
      n == Len(w.samples)
      mean == Truncated(SumOf(v), n)
      low == Min({v[i] : i \in DOMAIN v})
      high == Max({v[i] : i \in DOMAIN v})
      drift == Magnitude(mean - w.baseline_milli)
  IN [sample_count |-> n, mean_milli |-> mean, minimum_milli |-> low,
      maximum_milli |-> high, peak_to_peak_milli |-> high - low,
      mean_square_milli2 |-> SumOf([i \in DOMAIN v |-> v[i] * v[i]]) \div n,
      drift_milli |-> drift,
      minimum_quality |-> Min({w.samples[i].quality : i \in DOMAIN v}),
      drift_detected |-> drift >= ComputePolicy.drift_threshold_milli,
      actuation_authorized |-> FALSE]

(* Mutant: the quotient is not brought back into the scale.                *)
clamp_none(c) == c

clamp(c) == Max({-CORRELATION_SCALE, Min({CORRELATION_SCALE, c})})

hc_correlate_and_fuse(node, left, right, la, ra) ==
  LET n == Len(left.samples)
      centered(w) == [i \in 1 .. n |-> Values(w)[i] * n - SumOf(Values(w))]
      l == centered(left)
      r == centered(right)
      dot == SumOf([i \in 1 .. n |-> l[i] * r[i]])
      denominator == isqrt(SumOf([i \in 1 .. n |-> l[i] * l[i]]))
                       * isqrt(SumOf([i \in 1 .. n |-> r[i] * r[i]]))
      correlation == clamp(Truncated(dot * CORRELATION_SCALE, denominator))
      failed(why) == [result |-> why]
  IN IF ~node.initialized THEN failed("INVALID_NODE")
     ELSE IF \/ ~window_basic_valid(left) \/ ~window_basic_valid(right)
             \/ Len(right.samples) # n
             \/ la.sample_count # n \/ ra.sample_count # n
             \/ la.actuation_authorized \/ ra.actuation_authorized
       THEN failed("INVALID_WINDOW")
     ELSE IF denominator = 0 THEN failed("CORRELATION_UNDEFINED")
     ELSE [result |-> "OK", correlation_milli |-> correlation,
           fused_mean_milli |-> Truncated(la.mean_milli + ra.mean_milli, 2),
           contradiction_detected |->
             correlation < ComputePolicy.minimum_correlation_milli,
           actuation_authorized |-> FALSE]

(* Whatever the policy is, a node answers each sample and each window of   *)
(* the instance with a result of its enumeration.                          *)
ASSUME ResultsAreListed ==
  /\ Samples \subseteq MeasurementSamples
  /\ \A sample \in Samples, b \in BOOLEAN :
       st_validate_sample([st_init EXCEPT !.initialized = b], sample)
         \in ST_MEASUREMENT_RESULTS
  /\ st_configure_result(MeasurementSelf, MeasurementPolicy) \in ST_MEASUREMENT_RESULTS
  /\ \A w \in Windows : hc_analyze_result(hc_init, w) \in HIGH_COMPUTE_RESULTS
  /\ hc_configure_result(ComputeSelf, ComputePolicy) \in HIGH_COMPUTE_RESULTS
---------------------------------------------------------------------------
MeasurementInit ==
  /\ st = st_configure(st_init, MeasurementSelf, MeasurementPolicy)
  /\ observations = << >>
  /\ hc = hc_configure(hc_init, ComputeSelf, ComputePolicy)
  /\ analysed = [side \in {"left", "right"} |-> {}]
  /\ fusion = << >>

AcceptSample ==
  \E sample \in Samples :
    /\ st' = st_accept_sample(st, sample)
    /\ observations' = IF st_validate_sample(st, sample) = "OK"
                         THEN Append(observations, Observation(sample))
                         ELSE observations
    /\ UNCHANGED processingVars

(* The window counters of the processing node wrap.                        *)
Analyze ==
  \E side \in {"left", "right"}, w \in Windows :
    /\ LET result == hc_analyze_result(hc, w)
           ok == result = "OK"
           next(n) == (n + 1) % (SAMPLE_COUNT_MAX + 1)
       IN /\ hc' = CASE ok -> [hc EXCEPT !.accepted_windows = next(@)]
                     [] result = "INVALID_NODE" -> hc
                     [] OTHER -> [hc EXCEPT !.rejected_windows = next(@)]
          /\ analysed' = [analysed EXCEPT ![side] = IF ok THEN {w} ELSE {}]
    /\ fusion' = << >>
    /\ UNCHANGED samplingVars

Fuse ==
  /\ \E left \in analysed["left"], right \in analysed["right"] :
       fusion' = << left, right,
                    hc_correlate_and_fuse(hc, left, right,
                                          hc_analysis(left), hc_analysis(right)) >>
  /\ UNCHANGED << st, observations, hc, analysed >>

ProcessingNext == Analyze \/ Fuse
---------------------------------------------------------------------------
(* The observations the measurement node hands out have strictly           *)
(* increasing sequence numbers and timestamps, however many samples it has *)
(* accepted: the regression check of validate_sample is skipped while      *)
(* accepted_samples is zero, so that counter must never come back to zero. *)
ObservationsInOrder ==
  \A i \in 1 .. Len(observations) - 1 :
    /\ observations[i].sequence < observations[i + 1].sequence
    /\ observations[i].timestamp_us < observations[i + 1].timestamp_us

(* A fusion reports a correlation within plus or minus 1000 that says what *)
(* the two windows say: two windows with the same shape correlate fully,   *)
(* so no policy makes them a contradiction, two windows with opposite      *)
(* shapes correlate by -1000, and the fused mean lies between the means.   *)
(* The roots of the denominator are truncated, so the bare quotient can    *)
(* leave the scale.                                                        *)
FusionSaysWhatWindowsSay ==
  (fusion # << >> /\ fusion[3].result = "OK") =>
    LET left == Values(fusion[1])
        right == Values(fusion[2])
        c == fusion[3].correlation_milli
        means == {hc_analysis(fusion[1]).mean_milli, hc_analysis(fusion[2]).mean_milli}
        moved(s) == \E d \in -8 .. 8 : \A i \in DOMAIN left : right[i] = s * left[i] + d
    IN /\ c \in -CORRELATION_SCALE .. CORRELATION_SCALE
       /\ moved(1) => c = CORRELATION_SCALE /\ ~fusion[3].contradiction_detected
       /\ moved(-1) => c = -CORRELATION_SCALE
       /\ fusion[3].fused_mean_milli \in Min(means) .. Max(means)
=============================================================================
