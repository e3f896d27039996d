------------------------------- MODULE Signal -------------------------------
(***************************************************************************)
(* From a block of ADC codes to measurements and spectral features:        *)
(*   firmware/Acquisition/Src/guardian_acquisition.c                       *)
(*   firmware/DSP/Src/guardian_dsp.c                                       *)
(*   firmware/App/Src/guardian_firmware_app.c  (guardian_firmware_app_poll)*)
(*                                                                         *)
(* Integer code is integer arithmetic here (inputs are chosen so that the  *)
(* code's 64-bit intermediate values fit).  Floating-point code is exact   *)
(* arithmetic on fractions, rounded where the code converts to an integer; *)
(* the transform, which is multiplication and addition only, runs on pairs *)
(* over the field of Prime elements with the code's index arithmetic.      *)
(***************************************************************************)
EXTENDS Integers, Sequences, FiniteSetsExt

CONSTANTS FFT_SIZE,       \* 64 in the code; frames per block as well
          Prime, TWIDDLE, \* a primitive FFT_SIZE-th root of unity of the field
          Vectors,        \* inputs of the transform
          Blocks,         \* blocks of codes: a sequence per channel, status flags
          Spectra,        \* power spectra a block may have, from bin 0 up
          Calibration,    \* guardian_acquisition_calibration_t
          SAMPLE_RATE_HZ, \* the configured rate
          MaxPublished    \* bound: blocks processed

VARIABLES acquisition, \* guardian_acquisition_t: latest, next_block_sequence
          telemetered, \* the measurements the link publishes
          features,    \* link->dsp_features and dsp_features_valid
          transform    \* an input of the transform and its output

signalVars == << acquisition, telemetered, features, transform >>

ADC_MAX_CODE == 4095
FACTORY_VDDA_MV == 3300
INT16_MAX == 32767
INT16_MIN == -32768
UINT16_MAX == 65535
CHANNELS == {"VIBRATION", "CURRENT", "SUPPLY", "TEMPERATURE", "VREFINT"}
ONE_SIDED_BIN_COUNT == FFT_SIZE \div 2 + 1
LOW_BAND_MAX_HZ == 500
MID_BAND_MAX_HZ == 1500

ACQUISITION_RESULTS == {"OK", "LENGTH", "CALIBRATION", "REFERENCE"}
DSP_RESULTS == {"OK", "LENGTH", "SAMPLE_RATE"}

(* guardian_acquisition_calibration_t                                      *)
Calibrations ==
  [vrefint : 0 .. UINT16_MAX, temp30 : 0 .. UINT16_MAX, temp110 : 0 .. UINT16_MAX,
   vibration_zero : 0 .. UINT16_MAX, vibration_num : Nat, vibration_den : Nat,
   current_zero : 0 .. UINT16_MAX, current_num : Nat, current_den : Nat,
   supply_num : 0 .. UINT16_MAX, supply_den : 0 .. UINT16_MAX, flags : SUBSET STRING]
---------------------------------------------------------------------------
(* Acquisition.  TLA+ division rounds down, C's towards zero.              *)
CDiv(n, d) == IF n >= 0 THEN n \div d ELSE -((-n) \div d)

Total(s) == MapThenSumSet(LAMBDA i : s[i], DOMAIN s)
Clamp(v, low, high) == IF v > high THEN high ELSE IF v < low THEN low ELSE v
acquisition_u16(v) == Clamp(v, 0, UINT16_MAX)
acquisition_i16(v) == Clamp(v, INT16_MIN, INT16_MAX)

(* The bit-by-bit root; the code's first loop skips the leading bits.      *)
acquisition_isqrt(value) ==
  LET from[bit \in 0 .. 2^30, remainder \in 0 .. value, result \in Nat] ==
        IF bit = 0 THEN result
        ELSE IF remainder >= result + bit
          THEN from[bit \div 4, remainder - result - bit, result \div 2 + bit]
        ELSE from[bit \div 4, remainder, result \div 2]
  IN from[2^30, value, 0]

normalize_code(code, vdda) == (code * vdda + FACTORY_VDDA_MV \div 2) \div FACTORY_VDDA_MV

vibration_sample_mg(delta) ==
  LET den == Calibration.vibration_den
      scaled == delta * Calibration.vibration_num
  IN acquisition_i16(CDiv(IF scaled >= 0 THEN scaled + den \div 2
                          ELSE scaled - den \div 2, den))

calibration_valid ==
  /\ Calibration.vrefint # 0 /\ Calibration.temp30 # Calibration.temp110
  /\ Calibration.vibration_den # 0 /\ Calibration.current_den # 0
  /\ Calibration.supply_den # 0

frame_count(codes) == Len(codes["VIBRATION"])
average(codes, channel) ==
  (Total(codes[channel]) + frame_count(codes) \div 2) \div frame_count(codes)

block_result(codes) ==
  IF ~calibration_valid THEN "CALIBRATION"
  ELSE IF frame_count(codes) \notin 1 .. FFT_SIZE THEN "LENGTH"
  ELSE IF average(codes, "VREFINT") = 0 THEN "REFERENCE"
  ELSE "OK"

vdda_mv(codes) ==
  LET reference == average(codes, "VREFINT")
  IN (FACTORY_VDDA_MV * Calibration.vrefint + reference \div 2) \div reference

temperature_centi_c(codes) ==
  acquisition_i16(
    3000 + CDiv((normalize_code(average(codes, "TEMPERATURE"), vdda_mv(codes))
                 - Calibration.temp30) * 8000, Calibration.temp110 - Calibration.temp30))

vibration_delta(codes, frame) ==
  normalize_code(codes["VIBRATION"][frame], vdda_mv(codes)) - Calibration.vibration_zero

vibration_mg_rms(codes) ==
  LET squares == MapThenSumSet(LAMBDA f : vibration_delta(codes, f) * vibration_delta(codes, f),
                               1 .. frame_count(codes))
  IN acquisition_u16((acquisition_isqrt(squares \div frame_count(codes))
                      * Calibration.vibration_num) \div Calibration.vibration_den)

current_ma(codes) ==
  LET delta == normalize_code(average(codes, "CURRENT"), vdda_mv(codes))
               - Calibration.current_zero
  IN acquisition_u16((Clamp(delta, 0, delta) * Calibration.current_num)
                     \div Calibration.current_den)

supply_mv(codes) ==
  acquisition_u16((((average(codes, "SUPPLY") * vdda_mv(codes)) \div ADC_MAX_CODE)
                   * Calibration.supply_num) \div Calibration.supply_den)

saturated(codes) ==
  \E c \in CHANNELS : \E i \in DOMAIN codes[c] : codes[c][i] = 0 \/ codes[c][i] >= ADC_MAX_CODE

measurements(codes, aux) ==
  [temperature |-> temperature_centi_c(codes), vibration |-> vibration_mg_rms(codes),
   current |-> current_ma(codes), rpm |-> IF aux.rpm_valid THEN aux.rpm ELSE 0,
   supply |-> supply_mv(codes),
   flags |-> Calibration.flags \cup aux.flags \cup {"VALID"}
             \cup (IF aux.rpm_valid THEN {} ELSE {"RPM_STALE"})
             \cup (IF saturated(codes) THEN {"ADC_SATURATED"} ELSE {})]

signal_block(codes, aux, sequence) ==
  [sequence |-> sequence, rate |-> SAMPLE_RATE_HZ, count |-> frame_count(codes),
   vibration |-> [f \in 1 .. frame_count(codes) |->
                    vibration_sample_mg(vibration_delta(codes, f))],
   flags |-> measurements(codes, aux).flags]
---------------------------------------------------------------------------
(* The transform, over pairs of field elements.                            *)
Mod(n) == n % Prime
Times(x, y) == << Mod(x[1] * y[1] - x[2] * y[2]), Mod(x[1] * y[2] + x[2] * y[1]) >>
Plus(x, y) == << Mod(x[1] + y[1]), Mod(x[2] + y[2]) >>
Minus(x, y) == << Mod(x[1] - y[1]), Mod(x[2] - y[2]) >>
Power(x, n) == LET p[k \in 0 .. n] == IF k = 0 THEN << 1, 0 >> ELSE Times(p[k - 1], x) IN p[n]

Halves(n) == LET log[m \in 1 .. n] == IF m = 1 THEN 0 ELSE 1 + log[m \div 2] IN log[n]

(* The loop's reversed counter, started from zero, after each index.       *)
reversed_index ==
  LET carry[r \in 0 .. FFT_SIZE, bit \in 0 .. FFT_SIZE] ==
        IF bit > 0 /\ (r \div bit) % 2 = 1 THEN carry[r - bit, bit \div 2] ELSE r + bit
      after[i \in 0 .. FFT_SIZE - 1] ==
        IF i = 0 THEN 0 ELSE carry[after[i - 1], FFT_SIZE \div 2]
  IN after

bit_reverse(v) == [i \in 0 .. FFT_SIZE - 1 |-> v[reversed_index[i]]]

(* Mutant: the twiddle index does not grow with the length.                *)
butterfly_stride_one(v, length) ==
  [i \in 0 .. FFT_SIZE - 1 |->
     LET offset == i % length
         half == length \div 2
         even == IF offset < half THEN i ELSE i - half
         odd == Times(v[even + half], Power(TWIDDLE, offset % half))
     IN IF offset < half THEN Plus(v[even], odd) ELSE Minus(v[even], odd)]

(* One pass of butterflies of one length.                                  *)
butterfly(v, length) ==
  [i \in 0 .. FFT_SIZE - 1 |->
     LET offset == i % length
         half == length \div 2
         even == IF offset < half THEN i ELSE i - half
         odd == Times(v[even + half], Power(TWIDDLE, (offset % half) * (FFT_SIZE \div length)))
     IN IF offset < half THEN Plus(v[even], odd) ELSE Minus(v[even], odd)]

fft(v) ==
  LET after[k \in 0 .. Halves(FFT_SIZE)] ==
        IF k = 0 THEN bit_reverse(v) ELSE butterfly(after[k - 1], 2^k)
  IN after[Halves(FFT_SIZE)]
---------------------------------------------------------------------------
(* Features.  Rounded(n, d) is what the code makes of the fraction n/d.    *)
dsp_u16(n, d) == IF n <= 0 THEN 0 ELSE IF n >= UINT16_MAX * d THEN UINT16_MAX
                 ELSE (2 * n + d) \div (2 * d)
dsp_u32(n, d) == IF n <= 0 THEN 0 ELSE (2 * n + d) \div (2 * d)

(* The nearest integer to the root of n/d.                                 *)
RoundedRoot(n, d) ==
  LET root == acquisition_isqrt(n \div d)
  IN IF n * 4 >= d * (2 * root + 1) * (2 * root + 1) THEN root + 1 ELSE root

Abs(n) == IF n < 0 THEN -n ELSE n

(* 10^6 * n / d, in two steps that stay within 31 bits.                    *)
PerMillion(n, d) == 1000 * ((1000 * n) \div d) + (1000 * ((1000 * n) % d)) \div d

(* Deviations from the mean, times the number of samples.                  *)
deviation(block) ==
  [i \in 1 .. FFT_SIZE |-> FFT_SIZE * block.vibration[i] - Total(block.vibration)]

time_features(block) ==
  LET d == deviation(block)
      squares == MapThenSumSet(LAMBDA i : d[i] * d[i], DOMAIN d)
      peak == Max({Abs(d[i]) : i \in DOMAIN d})
  IN [rms |-> RoundedRoot(squares, FFT_SIZE * FFT_SIZE * FFT_SIZE),
      peak |-> dsp_u16(peak, FFT_SIZE),
      crest |-> IF squares = 0 THEN 0
                ELSE RoundedRoot(PerMillion(FFT_SIZE * peak * peak, squares), 1)]

Bins == 1 .. ONE_SIDED_BIN_COUNT - 1
frequency_above(bin, hz) == bin * SAMPLE_RATE_HZ > hz * FFT_SIZE
Power_of(power, bins) == MapThenSumSet(LAMBDA b : power[b + 1], bins)

(* The first bin with the greatest power, 0 in a silent spectrum.          *)
dominant_bin(power) ==
  LET strongest == {b \in Bins : \A c \in Bins : power[b + 1] >= power[c + 1]}
  IN IF Power_of(power, Bins) = 0 THEN 0 ELSE Min(strongest)

(* The interpolated bin, as a numerator and a positive denominator.        *)
interpolated_bin(power) ==
  LET bin == dominant_bin(power)
      left == power[bin]
      right == power[bin + 2]
      curvature == 2 * power[bin + 1] - left - right
      delta == Clamp(right - left, -curvature, curvature)
  IN IF bin \in 2 .. ONE_SIDED_BIN_COUNT - 2 /\ curvature # 0
       THEN << 2 * bin * curvature + delta, 2 * curvature >>
       ELSE << bin, 1 >>

(* Mutant: the share of the high band is always what the others leave.     *)
high_band_permille_left(low, mid, high, total) == (1000 - low - mid) % 65536

high_band_permille(low, mid, high, total) ==
  IF low + mid <= 1000 THEN 1000 - low - mid ELSE dsp_u16(1000 * high, total)

spectral_features(power) ==
  LET total == Power_of(power, Bins)
      low == Power_of(power, {b \in Bins : ~frequency_above(b, LOW_BAND_MAX_HZ)})
      high == Power_of(power, {b \in Bins : frequency_above(b, MID_BAND_MAX_HZ)})
      low_band == dsp_u16(1000 * low, total)
      mid_band == dsp_u16(1000 * (total - low - high), total)
      moment == MapThenSumSet(LAMBDA b : b * power[b + 1], Bins)
      peak == interpolated_bin(power)
  IN IF total = 0 THEN [silent |-> TRUE, dominant |-> 0, centroid |-> 0,
                        low |-> 0, mid |-> 0, high |-> 0]
     ELSE [silent |-> FALSE,
           dominant |-> dsp_u32(peak[1] * SAMPLE_RATE_HZ, peak[2] * FFT_SIZE),
           centroid |-> dsp_u32(moment * SAMPLE_RATE_HZ, total * FFT_SIZE),
           low |-> low_band, mid |-> mid_band,
           high |-> high_band_permille(low_band, mid_band, high, total)]

dsp_result(block) ==
  IF block.count # FFT_SIZE THEN "LENGTH" ELSE IF block.rate = 0 THEN "SAMPLE_RATE" ELSE "OK"

dsp_analyze(block, power) ==
  [sequence |-> block.sequence, flags |-> block.flags,
   time |-> time_features(block), spectrum |-> spectral_features(power)]

(* The calibration has the fields of its structure; every block of the     *)
(* instance is answered with a result of the enumeration.                  *)
ASSUME BlocksAreAnswered ==
  /\ Calibration \in Calibrations
  /\ \A b \in Blocks :
       /\ block_result(b.codes) \in ACQUISITION_RESULTS
       /\ block_result(b.codes) = "OK" =>
            dsp_result(signal_block(b.codes, b.aux, 0)) \in DSP_RESULTS
---------------------------------------------------------------------------
NoBlock == [sequence |-> 0, rate |-> 0, count |-> 0, vibration |-> << >>, flags |-> {}]

SignalInit ==
  /\ acquisition = [next |-> 0, block |-> NoBlock, vibration |-> 0, invalid |-> 0]
  /\ telemetered = [flags |-> {}]
  /\ features = {}
  /\ transform = << >>

rejected(a) == [a EXCEPT !.invalid = @ + 1]

(* guardian_firmware_app_poll with a complete block: measure, publish,     *)
(* analyse.                                                                *)
PollBlock ==
  /\ transform = << >>
  /\ acquisition.next + acquisition.invalid < MaxPublished
  /\ \E b \in Blocks, power \in Spectra :
       IF block_result(b.codes) # "OK"
         THEN /\ acquisition' = rejected(acquisition)
              /\ UNCHANGED << telemetered, features >>
         ELSE LET block == signal_block(b.codes, b.aux, acquisition.next)
                  measured == measurements(b.codes, b.aux)
              IN /\ acquisition' = [acquisition EXCEPT !.next = @ + 1, !.block = block,
                                                       !.vibration = measured.vibration]
                 /\ telemetered' = measured
                 /\ features' = IF dsp_result(block) = "OK"
                                  THEN {dsp_analyze(block, power)} ELSE features
  /\ UNCHANGED transform

(* The transform by itself, on a vector of its own.                        *)
Transform ==
  /\ transform = << >> /\ acquisition.next + acquisition.invalid = 0
  /\ \E v \in Vectors : transform' = << v, fft(v) >>
  /\ UNCHANGED << acquisition, telemetered, features >>

SignalNext == PollBlock \/ Transform
---------------------------------------------------------------------------
(* The fast transform computes the discrete Fourier transform of its       *)
(* input: bit reversal, strides and twiddle indices fit together.          *)
SpectrumIsDft ==
  transform # << >> =>
    \A k \in 0 .. FFT_SIZE - 1 :
      LET sum[n \in 0 .. FFT_SIZE] ==
            IF n = 0 THEN << 0, 0 >>
            ELSE Plus(sum[n - 1], Times(transform[1][n - 1], Power(TWIDDLE, (k * (n - 1)) % FFT_SIZE)))
      IN transform[2][k] = sum[FFT_SIZE]

(* The spectrum the device answers with is of the block whose measurements *)
(* it publishes, rejected blocks in between or not: same number, same      *)
(* quality flags; and the RMS the integer code publishes lies between the  *)
(* smallest and the greatest deviation of the samples the analysis saw.    *)
FeaturesMatchMeasurements ==
  \A f \in features :
    /\ f.sequence + 1 = acquisition.next
    /\ f.flags = telemetered.flags
    /\ LET sizes == {Abs(acquisition.block.vibration[i]) : i \in 1 .. FFT_SIZE}
       IN telemetered.vibration \in Min(sizes) .. Max(sizes)

(* Features a monitor can trust: RMS does not exceed the peak, the crest   *)
(* factor is at least one, the dominant and the mean frequency lie between *)
(* the first bin and the Nyquist frequency, and the shares of the bands    *)
(* add up to 1000, or to 1001 when two halves are both rounded up.         *)
FeaturesConsistent ==
  \A f \in features :
    /\ f.time.rms <= f.time.peak
    /\ f.time.rms > 0 => f.time.crest >= 1000
    /\ ~f.spectrum.silent =>
         /\ {2 * f.spectrum.dominant, 2 * f.spectrum.centroid}
              \subseteq SAMPLE_RATE_HZ \div FFT_SIZE .. SAMPLE_RATE_HZ
         /\ f.spectrum.low + f.spectrum.mid + f.spectrum.high \in 1000 .. 1001

(* What a host reads of a block is sound: measurements and spectrum belong *)
(* together, and the features are possible values.                         *)
FeaturesSound == FeaturesMatchMeasurements /\ FeaturesConsistent
=============================================================================
